--------------------------- MODULE FeatureWindows ---------------------------
(***************************************************************************)
(* The windows of tmq_worker/features.py: one accumulator per client,      *)
(* closed by the first event past its end or by the periodic sweep.  What  *)
(* is accumulated is the set of stream entries counted in the window, from *)
(* which every feature is computed.                                        *)
(***************************************************************************)
EXTENDS Integers

CONSTANTS
  NoWindow,    (* the client has no accumulator                             *)
  WindowLen,   (* window_s                                                  *)
  IdleGrace    (* idle_grace_s of sweep_stale                               *)

Accumulator == [window_start : Nat, entries : SUBSET Nat]

ASSUME WindowAssumption ==
  /\ NoWindow \notin Accumulator
  /\ WindowLen \in Nat \ {0}
  /\ IdleGrace \in Nat

-----------------------------------------------------------------------------
(* _roll_if_needed: the event lies past the end of the open window.         *)
Rolls(w, ts) == w # NoWindow /\ ts >= w.window_start + WindowLen

(* A variant of AfterEvent that counts the event which closes a window      *)
(* nowhere.                                                                 *)
AfterEventLost(w, id, ts) ==
  IF w = NoWindow THEN [window_start |-> ts, entries |-> {id}]
  ELSE IF Rolls(w, ts)
       THEN [window_start |-> w.window_start + WindowLen, entries |-> {}]
       ELSE [w EXCEPT !.entries = @ \cup {id}]

(* The accumulator process_event leaves.  The next window starts where the  *)
(* closed one ended, however far past that end the event lies.              *)
AfterEvent(w, id, ts) ==
  IF w = NoWindow THEN [window_start |-> ts, entries |-> {id}]
  ELSE IF Rolls(w, ts)
       THEN [window_start |-> w.window_start + WindowLen, entries |-> {id}]
       ELSE [w EXCEPT !.entries = @ \cup {id}]

(* A variant of Stale: the sweep never finds a window.                      *)
StaleNever(w, t) == FALSE

(* The test of sweep_stale, on the wall clock.                              *)
Stale(w, t) == w # NoWindow /\ t >= w.window_start + WindowLen + IdleGrace
=============================================================================
