--------------------------- MODULE ClientRegistry ---------------------------
(***************************************************************************)
(* The plugin's registry of connected clients (plugin/src/plugin.c): which *)
(* clients the TICK refresher asks verdicts for, and the timestamps of the *)
(* keep-alive conformance check.  Client identifiers are those shorter     *)
(* than TMQ_MAX_CLIENT_ID_LEN, which the table stores whole.               *)
(***************************************************************************)
EXTENDS Integers, FiniteSets

CONSTANTS
  Gone,        (* the client has no node                                    *)
  MaxTracked   (* TMQ_MAX_TRACKED_CLIENTS, the length of the id snapshot    *)

Node == [keepalive : Nat, last_activity_ts : Nat, last_ka_gap_emit_ts : Nat]

ASSUME RegistryAssumption ==
  /\ Gone \notin Node
  /\ MaxTracked \in Nat \ {0}

-----------------------------------------------------------------------------
(* registry_connect writes every field, whether the node is new or not.     *)
Connected(keepalive, t) ==
  [keepalive |-> keepalive, last_activity_ts |-> t, last_ka_gap_emit_ts |-> 0]

(* registry_touch_activity                                                  *)
Touched(n, t) == IF n = Gone THEN n ELSE [n EXCEPT !.last_activity_ts = t]

(* A variant of KaGapDue: two reports two keep-alive intervals apart.       *)
KaGapDueSpacedTwice(n, t) ==
  /\ n # Gone
  /\ n.keepalive > 0
  /\ 2 * (t - n.last_activity_ts) > 3 * n.keepalive
  /\ t - n.last_ka_gap_emit_ts > 2 * n.keepalive

(* The test of scan_ka_gaps: silent for over 1.5 keep-alive intervals and   *)
(* not reported during the last one.  Zero keep-alive disables it.          *)
KaGapDue(n, t) ==
  /\ n # Gone
  /\ n.keepalive > 0
  /\ 2 * (t - n.last_activity_ts) > 3 * n.keepalive
  /\ t - n.last_ka_gap_emit_ts >= n.keepalive

Scanned(n, t) ==
  IF KaGapDue(n, t) THEN [n EXCEPT !.last_ka_gap_emit_ts = t] ELSE n

Registered(reg) == {c \in DOMAIN reg : reg[c] # Gone}

(* registry_snapshot_ids: bucket order is a fixed hash order, here any set  *)
(* of the right size.                                                       *)
IsSnapshot(ids, reg) ==
  /\ ids \subseteq Registered(reg)
  /\ \/ ids = Registered(reg)
     \/ Cardinality(ids) = MaxTracked
  /\ Cardinality(ids) <= MaxTracked
=============================================================================
