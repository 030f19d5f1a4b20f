----------------------------- MODULE MCReplay -------------------------------
(***************************************************************************)
(* Two clients, scripts of up to three events.                             *)
(***************************************************************************)
EXTENDS Replay

SomeVerdicts == {[level |-> 0, trust |-> 10], [level |-> 3, trust |-> 80]}
=============================================================================
