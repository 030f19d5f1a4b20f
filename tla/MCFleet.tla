------------------------------ MODULE MCFleet -------------------------------
(***************************************************************************)
(* A fleet just large enough to raise alarms, on one feature.              *)
(***************************************************************************)
EXTENDS Fleet, TLC

CONSTANTS c1, c2, c3, c4

FourClients == {c1, c2, c3, c4}
(* A window within the trigger that raises no alarm counts as a number only.*)
Matters(seen) == seen.z # Calm

Symmetry == Permutations(FourClients)

View == <<now, acc, active_clients, window_start,
          SelectSeq(window_zscores, Matters),
          SelectSeq(observed, LAMBDA o : o.alarm \/ Matters(o)),
          Len(observed) < 2, Len(observed) = 0>>
=============================================================================
