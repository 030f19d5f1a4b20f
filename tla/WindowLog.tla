------------------------------ MODULE WindowLog -----------------------------
(***************************************************************************)
(* What the worker promises of the events it takes from the stream,        *)
(* without threads, batches, sweeps or clocks.  Entries are numbered in    *)
(* the order they are taken.  Those of a client are cut into windows from  *)
(* the first on: a window is never empty, skips no entry of the client     *)
(* and takes none twice, and is judged once.  What is held is lost only    *)
(* all at once, with at most one more window judged.                       *)
(***************************************************************************)
EXTENDS Naturals, Sequences

CONSTANT Clients

VARIABLES
  taken,     (* number of entries taken so far                              *)
  held,      (* of each client, the entries taken and neither judged nor    *)
             (* lost                                                        *)
  judged     (* the windows judged, in order                                *)

vars == <<taken, held, judged>>

Init == taken = 0 /\ held = [c \in Clients |-> {}] /\ judged = <<>>

(* Each entry is of one client at most.                                     *)
Take ==
  /\ taken' > taken
  /\ \A c \in Clients : /\ held[c] \subseteq held'[c]
                        /\ held'[c] \ held[c] \subseteq (taken + 1)..taken'
  /\ \A c, d \in Clients : c # d => held'[c] \cap held'[d] = {}
  /\ UNCHANGED judged

(* A window of the client: all it has up to some entry.                     *)
IsWindow(c, W) ==
  /\ W \subseteq held[c]
  /\ W # {}
  /\ \A x \in W, y \in held[c] \ W : x < y

Judges(c, W) ==
  /\ IsWindow(c, W)
  /\ judged' = Append(judged, [client |-> c, entries |-> W])

Judge ==
  /\ \E c \in Clients : \E W \in SUBSET held[c] :
       /\ Judges(c, W)
       /\ held' = [held EXCEPT ![c] = @ \ W]
  /\ UNCHANGED taken

Lose ==
  /\ \/ UNCHANGED judged
     \/ \E c \in Clients : \E W \in SUBSET held[c] : Judges(c, W)
  /\ held' = [c \in Clients |-> {}]
  /\ UNCHANGED taken

Next == Take \/ Judge \/ Lose

Spec == Init /\ [][Next]_vars

-----------------------------------------------------------------------------
(* The windows of a client follow each other: each has later entries than   *)
(* those judged before it.                                                  *)
WindowsInOrder ==
  \A i, j \in DOMAIN judged :
    i < j /\ judged[i].client = judged[j].client =>
      \A x \in judged[i].entries, y \in judged[j].entries : x < y
=============================================================================
