------------------------------ MODULE MCWorker ------------------------------
(***************************************************************************)
(* Two clients, windows of one clock unit, a sweep in every unit.          *)
(***************************************************************************)
EXTENDS Worker

CONSTANTS c1, c2

TwoClients == {c1, c2}
Symmetry == Permutations(TwoClients)

(* An entry's time and kind matter until it is routed, when it was routed   *)
(* while its window is open.  Nothing reads the start of a written row.     *)
Unrouted ==
  {id \in DOMAIN stream :
     id > delivered \/ id \in Positions(inbox) \cup Positions(batch)}
Open ==
  UNION {IF acc[c] = NoWindow THEN {} ELSE acc[c].entries : c \in Clients}

View == <<fingerprint_only, now, Len(stream),
          [id \in Unrouted |-> stream[id]], delivered, dead, reader, batch,
          scoring, closing, open_ids, incidents, verdictp, pel,
          [i \in DOMAIN rows |-> [rows[i] EXCEPT !.window_start = 0]],
          last_sweep, crashes, [id \in Open |-> routed_at[id]]>>
=============================================================================
