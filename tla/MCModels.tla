------------------------------ MODULE MCModels ------------------------------
(***************************************************************************)
(* One client and its user, two trainers that may overlap.                 *)
(***************************************************************************)
EXTENDS Models

(* Weights of config/tmq.yaml.                                              *)
ShippedWeights ==
  [s \in Signals |-> CASE s = "fsm" -> 45 [] s = "drift" -> 35
                       [] s = "fleet" -> 20]
=============================================================================
