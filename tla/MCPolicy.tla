------------------------------ MODULE MCPolicy ------------------------------
(***************************************************************************)
(* One client under the shipped thresholds.  The histories of all lengths  *)
(* are told apart only by what a property reads of them: their last        *)
(* windows, and what ever happened in them.                                *)
(***************************************************************************)
EXTENDS Policy

CONSTANT c1

Tail3(s) == IF Len(s) <= DeescalateWindows THEN s
            ELSE SubSeq(s, Len(s) - DeescalateWindows + 1, Len(s))

Ever(s) ==
  \A i \in 1..Len(s) : s[i].is_learning /\ s[i].trust < KickSingle

(* The kick counter grows without bound; only whether it is zero is read.   *)
View == <<level, consecutive_below, consecutive_kick_threshold[c1] > 0,
          verdict[c1].level, Tail3(windows[c1]), Ever(windows[c1])>>
=============================================================================
