----------------------------- MODULE MCContract -----------------------------
(***************************************************************************)
(* Two symbols, a contract learned in three events, documents of at most   *)
(* two transitions.  States that differ only in what nothing reads any     *)
(* more are one.                                                           *)
(***************************************************************************)
EXTENDS Contract, TLC

(* No symbol is special.                                                    *)
Symmetry == Permutations(Symbols)

(* A loop's fields are read while it lasts, the weights of the snapshot     *)
(* until the baseline's loop, a document until it is there, but for its row *)
(* in the database.                                                         *)
Domain(d) == [x \in DOMAIN d |-> 0]
ExportLeft ==
  CASE export.phase = "idle" -> <<>>
    [] export.phase = "snapshot" ->
         <<[export EXCEPT !.row_size = IF export.row = None THEN 0 ELSE @]>>
    [] export.phase = "baseline" ->
         <<[export EXCEPT !.size = 0, !.row_size = 0]>>
    [] export.phase \in {"states", "top"} ->
         <<[export EXCEPT !.row_size = IF export.row = None THEN 0 ELSE @,
              !.dist = Domain(@), !.recorded = None, !.complete = FALSE]>>
    [] export.phase = "client" ->
         <<[export EXCEPT !.size = 0, !.row_size = 0, !.dist = Domain(@),
              !.recorded = None, !.complete = FALSE]>>
    [] OTHER -> <<export.phase, export.known, Doc \in fingerprints>>

(* With --fingerprint-only nothing reads the buffers of a window; in no     *)
(* mode does anything here read the snapshots of earlier days, or of the    *)
(* documents more than whether one is misplaced.  What is to come does not  *)
(* depend on how many exports and crashes there were: the bounds on them    *)
(* are out of reach, and the search ends without them.                      *)
View == <<fingerprint_only, contract, IF fingerprint_only THEN {} ELSE window,
          handling, features, ExportLeft, client, FileFollowsDatabase,
          heard, judged>>
=============================================================================
