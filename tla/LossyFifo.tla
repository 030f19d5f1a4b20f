------------------------------ MODULE LossyFifo -----------------------------
(***************************************************************************)
(* What the event path promises, without rings, batches or connections:    *)
(* events numbered in the order they are offered, a queue, and a log that  *)
(* only grows.  An event may be refused when offered; a prefix of the      *)
(* queue may leave it, of which any events reach the log, in their order.  *)
(***************************************************************************)
EXTENDS Naturals, Sequences

VARIABLES
  offered,   (* number of events offered so far                             *)
  queue,     (* accepted, not yet delivered or lost                         *)
  log        (* delivered                                                   *)

vars == <<offered, queue, log>>

Init == offered = 0 /\ queue = <<>> /\ log = <<>>

Offer ==
  /\ offered' = offered + 1
  /\ queue' \in {queue, Append(queue, offered')}
  /\ UNCHANGED log

(* The ways to choose k of n places, in their order.                        *)
Choices(k, n) ==
  {f \in [1..k -> 1..n] : \A i, j \in 1..k : i < j => f[i] < f[j]}

Transfer ==
  /\ \E n \in 1..Len(queue) : \E k \in 0..n : \E f \in Choices(k, n) :
       /\ queue' = SubSeq(queue, n + 1, Len(queue))
       /\ log' = log \o [i \in 1..k |-> queue[f[i]]]
  /\ UNCHANGED offered

Next == Offer \/ Transfer

Spec == Init /\ [][Next]_vars
=============================================================================
