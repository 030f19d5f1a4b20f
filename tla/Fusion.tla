------------------------------- MODULE Fusion -------------------------------
(***************************************************************************)
(* The fusion of the three signals into a trust score (tmq_worker/         *)
(* policy.py): the static weighted sum, and the weighted mean over the     *)
(* signals that carry evidence.  Scores and weights are hundredths; a      *)
(* trust score is a fraction sum/of, so that nothing is rounded.           *)
(***************************************************************************)
EXTENDS Integers

CONSTANT Weights     (* WeightsConfig: the weight of each signal            *)

Signals == {"fsm", "drift", "fleet"}

ASSUME FusionAssumption == Weights \in [Signals -> 0..100]

One == 100

(* What a masked sum over the signals is.                                   *)
Total(active) ==
  (IF active["fsm"] THEN Weights["fsm"] ELSE 0)
    + (IF active["drift"] THEN Weights["drift"] ELSE 0)
    + (IF active["fleet"] THEN Weights["fleet"] ELSE 0)

(* The weights, and what they are fractions of.  With no weight on an       *)
(* active signal the configured ones stay.                                  *)
RenormalizeWeights(active) ==
  IF Total(active) = 0 THEN [weights |-> Weights, of |-> One]
  ELSE [weights |-> [s \in Signals |-> IF active[s] THEN Weights[s] ELSE 0],
        of |-> Total(active)]

Fused(w, score) ==
  [sum |-> w.weights["fsm"] * score["fsm"]
             + w.weights["drift"] * score["drift"]
             + w.weights["fleet"] * score["fleet"],
   of  |-> w.of]

(* A variant that keeps the drift signal active before a model exists.      *)
ActiveAlways(is_fitted) == [s \in Signals |-> TRUE]

(* The mask built when adaptive_fusion is on.                               *)
Active(is_fitted) == [s \in Signals |-> s = "drift" => is_fitted]

ComputeTrustScore(score, adaptive, is_fitted) ==
  IF adaptive THEN Fused(RenormalizeWeights(Active(is_fitted)), score)
              ELSE Fused([weights |-> Weights, of |-> One], score)
=============================================================================
