----------------------------- MODULE Contract -------------------------------
(***************************************************************************)
(* One client's behavioral contract (fsm.py), the windows judged by it and *)
(* their features (__main__.py, features.py), and its fingerprint, which a *)
(* thread of its own exports while the event loop goes on.                 *)
(*                                                                         *)
(* Python dictionaries are functions whose domain grows; of the history of *)
(* the features only the size is kept.  The interpreter may switch threads *)
(* between any two steps; a loop over a dictionary raises RuntimeError     *)
(* once the dictionary's size has changed.  Both threads may insert the    *)
(* client's row in Postgres: an insert waits for an uncommitted one of the *)
(* other thread and fails on a committed one.  An exception in either ends *)
(* the process.  Weights are multiples of 1/Unit, so that no decay rounds. *)
(* An event without a symbol does no more than open a window.              *)
(***************************************************************************)
EXTENDS Integers, Sequences, FiniteSets, FiniteSetsExt

CONSTANTS
  Symbols,          (* the alphabet                                         *)
  None,             (* no symbol, row, time or file                         *)
  Torn,             (* a file that is being written or was left half done   *)
  Times,            (* event times explored                                 *)
  Modes,            (* of --fingerprint-only, or mode fingerprint           *)
  LearningMaxEvents, LearningMaxTime,
  AlphaInverse,     (* 1/DECAY_ALPHA                                        *)
  SnapshotCap,      (* DAILY_SNAPSHOT_CAP                                   *)
  Features,         (* how many FEATURE_NAMES there are                     *)
  TopTransitions,   (* k of top_transitions                                 *)
  MaxHeard,         (* bound on the events of one process life              *)
  MaxExports,       (* bound on the exports begun                           *)
  MaxCrashes        (* bound on the ends of the process                     *)

ASSUME ContractAssumption ==
  /\ IsFiniteSet(Symbols)
  /\ None \notin Symbols \cup Nat
  /\ Times \subseteq Nat
  /\ Modes \subseteq BOOLEAN
  /\ LearningMaxEvents \in Nat \ {0}
  /\ LearningMaxTime \in Nat
  /\ AlphaInverse \in Nat \ {0, 1}
  /\ SnapshotCap \in Nat \ {0}
  /\ Features \in Nat \ {0}
  /\ None \notin {"loop", "export", "stored"}
  /\ TopTransitions \in Nat \ {0}
  /\ MaxHeard \in Nat
  /\ MaxExports \in Nat
  /\ MaxCrashes \in Nat

VARIABLES
  fingerprint_only, (* ScoringContext.fingerprint_only                      *)
  counts,           (* ClientFSM.counts                                     *)
  vocab,            (* ClientFSM._vocab                                     *)
  last_symbol,
  event_count,
  first_event_ts,
  learning_complete,
  step,             (* how far observe has got                              *)
  window,           (* _window_violations: positions in `heard'             *)
  handling,         (* how far _handle_closed_window has got                *)
  features,         (* size of _feature_history[client], None: no entry     *)
  export,           (* the export thread                                    *)
  daily_snapshots,  (* ScoringContext._daily_snapshots                      *)
  client,           (* Postgres: the client's row, "stored" or uncommitted, *)
                    (* by the thread that inserted it                       *)
  fingerprints,     (* Postgres: the documents of the fingerprints table    *)
  file,             (* fingerprints/<client_id>.json                        *)
  heard,            (* history: the events of this life of the process      *)
  judged,           (* history: the windows judged in this life             *)
  exports, crashes  (* history: how many there were                         *)

contract == <<counts, vocab, last_symbol, event_count, first_event_ts,
              learning_complete, step>>
windows  == <<window, handling, features>>
stored   == <<client, fingerprints, file>>
history  == <<exports, crashes>>
vars == <<fingerprint_only, contract, windows, export, daily_snapshots, stored,
          heard, judged, history>>

Power(b, n) ==
  LET power[k \in Nat] == IF k = 0 THEN 1 ELSE b * power[k - 1]
  IN power[n]

Unit == Power(AlphaInverse, MaxHeard)

Sum(f) == MapThenSumSet(LAMBDA x : f[x], DOMAIN f)

(* Python dictionaries: d[k] = v, and those from keys in K to weights.      *)
With(d, k, v) ==
  [x \in DOMAIN d \cup {k} |-> IF x = k THEN v ELSE d[x]]
Empty == [s \in {} |-> 0]
IsWeights(d, K) == DOMAIN d \subseteq K /\ d \in [DOMAIN d -> Nat]

NoExport ==
  [phase |-> "idle", rows |-> {}, size |-> 0, row |-> None, cells |-> {},
   row_size |-> 0, dist |-> Empty, recorded |-> None, states |-> {},
   top |-> {}, began |-> 0, ended |-> 0, events |-> 0, complete |-> FALSE,
   known |-> FALSE]

Phases == {"idle", "snapshot", "baseline", "states", "top", "client", "insert",
           "commit", "write", "close"}
Export(dist) ==
  [phase : Phases, rows : SUBSET Symbols, size : Nat,
   row : Symbols \cup {None}, cells : SUBSET Symbols, row_size : Nat,
   dist : {dist}, recorded : 0..Features \cup {None},
   states : SUBSET Symbols, top : SUBSET (Symbols \X Symbols),
   began : Nat, ended : Nat, events : Nat, complete : BOOLEAN,
   known : BOOLEAN]

TypeOK ==
  /\ fingerprint_only \in BOOLEAN
  /\ DOMAIN counts \subseteq Symbols
  /\ \A p \in DOMAIN counts : IsWeights(counts[p], Symbols)
  /\ vocab \subseteq Symbols
  /\ last_symbol \in Symbols \cup {None}
  /\ event_count \in Nat
  /\ first_event_ts \in Nat \cup {None}
  /\ learning_complete \in BOOLEAN
  /\ step \in {"idle", "heard", "decayed"}
  /\ window \subseteq Nat
  /\ handling \in {"idle", "query", "insert", "features"}
  /\ features \in 0..Features \cup {None}
  /\ client \in {None, "loop", "export", "stored"}
  /\ export \in Export(export.dist)
  /\ IsWeights(export.dist, Symbols \X Symbols)
  /\ Len(daily_snapshots) <= SnapshotCap
  /\ heard \in Seq([sym : Symbols, ts : Nat, learned : BOOLEAN])
  /\ judged \in Seq([learning : BOOLEAN, events : SUBSET Nat])
  /\ exports \in Nat
  /\ crashes \in Nat

Init ==
  /\ fingerprint_only \in Modes
  /\ counts = Empty
  /\ vocab = {}
  /\ last_symbol = None
  /\ event_count = 0
  /\ first_event_ts = None
  /\ learning_complete = FALSE
  /\ step = "idle"
  /\ window = {}
  /\ handling = "idle"
  /\ features = None
  /\ export = NoExport
  /\ daily_snapshots = <<>>
  /\ client = None
  /\ fingerprints = {}
  /\ file = None
  /\ heard = <<>>
  /\ judged = <<>>
  /\ exports = 0
  /\ crashes = 0

-----------------------------------------------------------------------------
(* The contract's probabilities, as fractions.                              *)
VocabSize == IF vocab = {} THEN 1 ELSE Cardinality(vocab)

Prob(prev, cur) ==
  IF prev \notin DOMAIN counts \/ counts[prev] = Empty
  THEN [num |-> 1, den |-> VocabSize + 1]
  ELSE LET row == counts[prev] IN
       [num |-> (IF cur \in DOMAIN row THEN row[cur] ELSE 0) + Unit,
        den |-> Sum(row) + VocabSize * Unit]

(* observe, in the steps another thread can tell apart.  First the event is *)
(* counted, judged by the contract as it was, and the row it departs from   *)
(* is there, empty if it is new.                                            *)
Hear(sym, ts) ==
  /\ step = "idle" /\ handling = "idle"
  /\ Len(heard) < MaxHeard
  /\ heard' = Append(heard,
                [sym |-> sym, ts |-> ts, learned |-> ~learning_complete])
  /\ event_count' = event_count + 1
  /\ first_event_ts' = IF first_event_ts = None THEN ts ELSE first_event_ts
  /\ IF last_symbol = None
     THEN UNCHANGED <<counts, vocab, window>>
     ELSE /\ counts' = IF last_symbol \in DOMAIN counts THEN counts
                       ELSE With(counts, last_symbol, Empty)
          /\ vocab' = vocab \cup {last_symbol}
          /\ window' = window \cup {Len(heard')}
  /\ step' = "heard"
  /\ UNCHANGED <<fingerprint_only, last_symbol, learning_complete, handling,
                 features, export, daily_snapshots, stored, judged, history>>

(* Variants: the weights decay while the contract is being learned; what    *)
(* has faded is dropped.                                                    *)
DecayedAlways(row) ==
  [s \in DOMAIN row |-> (row[s] * (AlphaInverse - 1)) \div AlphaInverse]

DecayedPruned(row) ==
  IF ~learning_complete THEN row
  ELSE LET faded == DecayedAlways(row) IN
       [s \in {x \in DOMAIN row : faded[x] >= Unit} |-> faded[s]]

Decayed(row) ==
  [s \in DOMAIN row |->
     IF learning_complete THEN (row[s] * (AlphaInverse - 1)) \div AlphaInverse
                          ELSE row[s]]

Decay ==
  /\ step = "heard"
  /\ counts' = IF last_symbol = None THEN counts
               ELSE [counts EXCEPT ![last_symbol] = Decayed(@)]
  /\ step' = "decayed"
  /\ UNCHANGED <<fingerprint_only, vocab, last_symbol, event_count,
                 first_event_ts, learning_complete, windows, export,
                 daily_snapshots, stored, heard, judged, history>>

(* The event just heard.                                                    *)
Current == heard[Len(heard)]

(* _maybe_finish_learning                                                   *)
Finished ==
  \/ learning_complete
  \/ event_count >= LearningMaxEvents
  \/ Current.ts - first_event_ts >= LearningMaxTime

Added(row, sym) ==
  With(row, sym, (IF sym \in DOMAIN row THEN row[sym] ELSE 0) + Unit)

Learn ==
  /\ step = "decayed"
  /\ IF last_symbol = None THEN UNCHANGED <<counts, vocab>>
     ELSE /\ counts' = [counts EXCEPT ![last_symbol] = Added(@, Current.sym)]
          /\ vocab' = vocab \cup {Current.sym}
  /\ learning_complete' = Finished
  /\ last_symbol' = Current.sym
  /\ step' = "idle"
  /\ UNCHANGED <<fingerprint_only, event_count, first_event_ts, windows,
                 export, daily_snapshots, stored, heard, judged, history>>

(* How many events the contract has been taught.                            *)
Learned == IF step = "idle" THEN Len(heard) ELSE Len(heard) - 1

(* A variant of what is left in the buffers of a window that closed.        *)
BufferKept == window

BufferPopped == {}

(* close_window pops the buffers, and the policy asks is_learning; a window *)
(* without a scored event says nothing here.  The event loop hears nothing  *)
(* until it is done with the window.                                        *)
CloseWindow ==
  /\ step = "idle" /\ handling = "idle"
  /\ window' = BufferPopped
  /\ judged' = IF fingerprint_only \/ window = {} THEN judged
               ELSE Append(judged, [learning |-> ~learning_complete,
                                    events |-> window])
  /\ handling' = "query"
  /\ UNCHANGED <<fingerprint_only, contract, features, export,
                 daily_snapshots, stored, heard, history>>

(* get_or_create_client, by the event loop: what it has found, or inserts,  *)
(* is its own until CommitWindow.                                           *)
WindowFindsClient ==
  /\ handling = "query"
  /\ handling' = IF client = "stored" THEN "features" ELSE "insert"
  /\ UNCHANGED <<fingerprint_only, contract, window, features, export,
                 daily_snapshots, stored, heard, judged, history>>

WindowInsertsClient ==
  /\ handling = "insert"
  /\ client = None
  /\ client' = "loop"
  /\ handling' = "features"
  /\ UNCHANGED <<fingerprint_only, contract, window, features, export,
                 daily_snapshots, fingerprints, file, heard, judged, history>>

(* The client's entry of the history, then feature after feature; once all  *)
(* are in, the history keeps its size.                                      *)
RecordFeature ==
  /\ handling = "features"
  /\ features # Features
  /\ features' = IF features = None THEN 0 ELSE features + 1
  /\ UNCHANGED <<fingerprint_only, contract, window, handling, export,
                 daily_snapshots, stored, heard, judged, history>>

CommitWindow ==
  /\ handling = "features"
  /\ features = Features
  /\ client' = "stored"
  /\ handling' = "idle"
  /\ UNCHANGED <<fingerprint_only, contract, window, features, export,
                 daily_snapshots, fingerprints, file, heard, judged, history>>

-----------------------------------------------------------------------------
(* export_fingerprints, on its thread.                                      *)
Forget ==
  /\ counts' = Empty
  /\ vocab' = {}
  /\ last_symbol' = None
  /\ event_count' = 0
  /\ first_event_ts' = None
  /\ learning_complete' = FALSE
  /\ step' = "idle"
  /\ window' = {}
  /\ handling' = "idle"
  /\ features' = None
  /\ export' = NoExport
  /\ daily_snapshots' = <<>>
  /\ client' = IF client = "stored" THEN "stored" ELSE None
  /\ heard' = <<>>
  /\ judged' = <<>>
  /\ crashes' = crashes + 1
  /\ UNCHANGED <<fingerprint_only, fingerprints, file, exports>>

Crash == crashes < MaxCrashes /\ Forget

(* The other thread has committed the row since the event loop missed it.   *)
WindowInsertFails == handling = "insert" /\ client = "stored"

WindowRaises == WindowInsertFails /\ Forget

(* A loop over the rows starts.                                             *)
Loop(e, phase) ==
  [e EXCEPT !.phase = phase, !.rows = DOMAIN counts,
            !.size = Cardinality(DOMAIN counts), !.row = None]

Untouched == UNCHANGED <<fingerprint_only, contract, windows, heard, judged>>

(* fsm.snapshot() begins.  The export notes, for the properties, what the   *)
(* event loop had done by then.                                             *)
ExportBegins ==
  /\ fingerprint_only
  /\ export = NoExport
  /\ exports < MaxExports
  /\ exports' = exports + 1
  /\ export' = [Loop(NoExport, "snapshot") EXCEPT
                  !.began = Learned,
                  !.complete = (features = Features),
                  !.known = (client = "stored")]
  /\ Untouched
  /\ UNCHANGED <<daily_snapshots, stored, crashes>>

Looping == export.phase \in {"snapshot", "states", "top"}

RowsChanged == Cardinality(DOMAIN counts) # export.size
CellsChanged ==
  export.row # None /\ Cardinality(DOMAIN counts[export.row]) # export.row_size

(* Variants: to_json_doc forgets the symbols a row leads to; the file is    *)
(* written before the row is committed.                                     *)
RowSymbolsNone(r) == {}
AfterSwapped(phase) ==
  CASE phase = "top" -> "client" [] phase \in {"client", "insert"} -> "write"
    [] phase = "write" -> "close" [] phase = "close" -> "commit"
    [] phase = "commit" -> "idle"

RowSymbols(r) == DOMAIN counts[r]

(* What follows on what once the loops are done; "insert" is on the way     *)
(* only of a client without a row.                                          *)
After(phase) ==
  CASE phase = "top" -> "client" [] phase \in {"client", "insert"} -> "commit"
    [] phase = "commit" -> "write" [] phase = "write" -> "close"
    [] phase = "close" -> "idle"

Advanced == IF After(export.phase) = "idle" THEN NoExport
            ELSE [export EXCEPT !.phase = After(@)]

(* The next row.  to_json_doc takes the symbols of a row all at once; the   *)
(* two other loops go through it.                                           *)
NextRow(r) ==
  /\ Looping
  /\ ~RowsChanged
  /\ export.row = None
  /\ r \in export.rows
  /\ export' =
       IF export.phase = "states"
       THEN [export EXCEPT !.rows = @ \ {r},
                           !.states = @ \cup RowSymbols(r)]
       ELSE [export EXCEPT !.rows = @ \ {r}, !.row = r,
                           !.cells = DOMAIN counts[r],
                           !.row_size = Cardinality(DOMAIN counts[r])]
  /\ Untouched
  /\ UNCHANGED <<daily_snapshots, stored, history>>

NextCell(c) ==
  /\ Looping
  /\ export.row # None
  /\ ~CellsChanged
  /\ c \in export.cells
  /\ export' =
       IF export.phase = "snapshot"
       THEN [export EXCEPT !.cells = @ \ {c},
               !.dist = With(@, <<export.row, c>>, counts[export.row][c])]
       ELSE [export EXCEPT !.cells = @ \ {c},
                           !.top = @ \cup {<<export.row, c>>}]
  /\ Untouched
  /\ UNCHANGED <<daily_snapshots, stored, history>>

RowEnds ==
  /\ Looping
  /\ export.row # None
  /\ ~CellsChanged
  /\ export.cells = {}
  /\ export' = [export EXCEPT !.row = None]
  /\ Untouched
  /\ UNCHANGED <<daily_snapshots, stored, history>>

Newest(s) == IF Len(s) > SnapshotCap THEN Tail(s) ELSE s

(* The snapshot, normalized, joins the daily ones, from which the stability *)
(* is computed.  The loop over the client's features begins, if it has any: *)
(* without an entry the loop is over a dictionary of its own.               *)
SnapshotEnds ==
  /\ export.phase = "snapshot"
  /\ export.row = None
  /\ export.rows = {}
  /\ ~RowsChanged
  /\ daily_snapshots' = Newest(Append(daily_snapshots, export.dist))
  /\ export' = [export EXCEPT !.phase = "baseline", !.recorded = features,
                              !.ended = Len(heard)]
  /\ Untouched
  /\ UNCHANGED <<stored, history>>

BaselineChanged == export.recorded # None /\ features # export.recorded

(* to_json_doc goes through the rows once for the states and once for the   *)
(* transitions; the document also has the number of events, read last.      *)
BaselineEnds ==
  /\ export.phase = "baseline"
  /\ ~BaselineChanged
  /\ export' = [Loop(export, "states") EXCEPT !.states = DOMAIN counts]
  /\ Untouched
  /\ UNCHANGED <<daily_snapshots, stored, history>>

StatesEnd ==
  /\ export.phase = "states"
  /\ export.rows = {}
  /\ ~RowsChanged
  /\ export' = Loop(export, "top")
  /\ Untouched
  /\ UNCHANGED <<daily_snapshots, stored, history>>

(* pairs[:k].  Which ones are the most probable is left open: the document  *)
(* keeps any k of the transitions.                                          *)
Cuts(pairs) ==
  IF Cardinality(pairs) <= TopTransitions THEN {pairs}
  ELSE {kept \in SUBSET pairs : Cardinality(kept) = TopTransitions}

TopEnds ==
  /\ export.phase = "top"
  /\ export.row = None
  /\ export.rows = {}
  /\ ~RowsChanged
  /\ \E kept \in Cuts(export.top) :
       export' = [Advanced EXCEPT !.top = kept, !.events = event_count]
  /\ Untouched
  /\ UNCHANGED <<daily_snapshots, stored, history>>

(* get_or_create_client, by the export.                                     *)
ExportFindsClient ==
  /\ export.phase = "client"
  /\ export' = IF client = "stored" THEN Advanced
               ELSE [export EXCEPT !.phase = "insert"]
  /\ Untouched
  /\ UNCHANGED <<daily_snapshots, stored, history>>

ExportInsertsClient ==
  /\ export.phase = "insert"
  /\ client = None
  /\ client' = "export"
  /\ export' = Advanced
  /\ Untouched
  /\ UNCHANGED <<daily_snapshots, fingerprints, file, history>>

(* The dictionary in the loop has grown, or the event loop has committed    *)
(* the client's row.                                                        *)
LoopBroken ==
  Looping /\ IF export.row = None THEN RowsChanged ELSE CellsChanged

BaselineBroken == export.phase = "baseline" /\ BaselineChanged

ExportInsertFails == export.phase = "insert" /\ client = "stored"

ExportRaises ==
  /\ LoopBroken \/ BaselineBroken \/ ExportInsertFails
  /\ Forget

(* Of the document: learned_over.events, fsm.states, fsm.top_transitions.   *)
Doc == [events |-> export.events, states |-> export.states,
        top |-> export.top]

CommitRow ==
  /\ export.phase = "commit"
  /\ fingerprints' = fingerprints \cup {Doc}
  /\ client' = "stored"
  /\ export' = Advanced
  /\ Untouched
  /\ UNCHANGED <<daily_snapshots, file, history>>

OpenFile ==
  /\ export.phase = "write"
  /\ file' = Torn
  /\ export' = Advanced
  /\ Untouched
  /\ UNCHANGED <<daily_snapshots, client, fingerprints, history>>

CloseFile ==
  /\ export.phase = "close"
  /\ file' = Doc
  /\ export' = Advanced
  /\ Untouched
  /\ UNCHANGED <<daily_snapshots, client, fingerprints, history>>

Next ==
  \/ \E sym \in Symbols, ts \in Times : Hear(sym, ts)
  \/ Decay
  \/ Learn
  \/ CloseWindow
  \/ WindowFindsClient \/ WindowInsertsClient \/ WindowRaises
  \/ RecordFeature \/ CommitWindow
  \/ ExportBegins
  \/ \E s \in Symbols : NextRow(s) \/ NextCell(s)
  \/ RowEnds
  \/ SnapshotEnds \/ BaselineEnds \/ StatesEnd \/ TopEnds
  \/ ExportFindsClient \/ ExportInsertsClient
  \/ ExportRaises
  \/ CommitRow \/ OpenFile \/ CloseFile
  \/ Crash

Spec == Init /\ [][Next]_vars

-----------------------------------------------------------------------------
(* What the contract should be, from the events alone.                      *)
LearnedBy(n) ==
  \E k \in 1..n : k >= LearningMaxEvents
                  \/ heard[k].ts - heard[1].ts >= LearningMaxTime

Departs(i, prev) == heard[i - 1].sym = prev

(* What the i-th event's transition, out of prev, weighs after n events.    *)
Faded(n, i, prev) ==
  LET decays == Cardinality({j \in (i + 1)..n :
                               Departs(j, prev) /\ LearnedBy(j - 1)})
  IN Power(AlphaInverse - 1, decays) * Power(AlphaInverse, MaxHeard - decays)

Weight(n, prev, cur) ==
  Sum([i \in {k \in 2..n : Departs(k, prev) /\ heard[k].sym = cur} |->
         Faded(n, i, prev)])

(* The count of a transition in the contract, 0 if it has none.             *)
Count(prev, cur) ==
  IF prev \in DOMAIN counts /\ cur \in DOMAIN counts[prev]
  THEN counts[prev][cur] ELSE 0

(* Between events the contract is what the events of this life make it: all *)
(* transitions weigh 1 while it is learned and fade by ALPHA each time the  *)
(* client leaves the same symbol afterwards; learning ends with the event   *)
(* that reaches a limit; and the cached vocabulary keeps every row's        *)
(* smoothed probabilities a distribution.                                   *)
ContractFollowsEvents ==
  step = "idle" =>
    /\ \A p, c \in Symbols : Count(p, c) = Weight(Len(heard), p, c)
    /\ learning_complete <=> LearnedBy(Len(heard))
    /\ \A p \in DOMAIN counts :
         Sum([c \in vocab |-> Prob(p, c).num])
           = Sum(counts[p]) + Cardinality(vocab) * Unit

(* A client is enforced on behaviour it was still learning in one window at *)
(* most, the one in which its learning ended.                               *)
Mixed(w) == ~w.learning /\ \E i \in w.events : heard[i].learned

LearnedIsJudgedOnce ==
  Cardinality({i \in DOMAIN judged : Mixed(judged[i])}) <= 1

(* The transitions of the first n events.                                   *)
Pairs(n) == {<<heard[i - 1].sym, heard[i].sym>> : i \in 2..n}

(* A fingerprint exported while events kept coming is no state of the       *)
(* contract, but it is close to one.  The daily snapshot the stability is   *)
(* computed from has every transition made before the export, and each of   *)
(* its weights lies between the smallest, decayed once more, and the        *)
(* largest it had during the snapshot.                                      *)
SnapshotIsClose ==
  LET During(p, c) == {Weight(n, p, c) : n \in export.began..export.ended}
  IN /\ Pairs(export.began) \subseteq DOMAIN export.dist
     /\ \A x \in DOMAIN export.dist :
          /\ export.dist[x] <= Max(During(x[1], x[2]))
          /\ export.dist[x] * AlphaInverse
               >= Min(During(x[1], x[2])) * (AlphaInverse - 1)

(* The document has no state or transition that its number of events leaves *)
(* out; it has every state of the snapshot, and so every one there was when *)
(* the export began; it lacks a transition there was then only for want of  *)
(* room.                                                                    *)
DocumentIsCoherent ==
  /\ export.events >= export.ended
  /\ export.states \subseteq {heard[i].sym : i \in 1..export.events}
  /\ export.top \subseteq Pairs(export.events)
  /\ \A x \in DOMAIN export.dist : {x[1], x[2]} \subseteq export.states
  /\ \/ Cardinality(export.top) = TopTransitions
     \/ Pairs(export.began) \subseteq export.top

FingerprintIsCoherent ==
  /\ export.phase = "baseline" => SnapshotIsClose
  /\ export.phase = After("top") => DocumentIsCoherent

(* What ends the worker in the export, or in the event loop because of it,  *)
(* is always a first time: a transition the client had not made before the  *)
(* export began, or the first of its windows, not yet recorded or committed *)
(* when the export began or still being handled.  A steady client whose     *)
(* first window has been handled never stops the worker.                    *)
ExportFailsOnlyOnNovelty ==
  [][ crashes' # crashes =>
        /\ LoopBroken => Pairs(Len(heard)) # Pairs(export.began)
        /\ BaselineBroken => ~export.complete
        /\ ExportInsertFails => ~export.known
        /\ WindowInsertFails => features = None ]_vars

(* The file a reader finds is a document of the database, or torn: never    *)
(* one that a failed commit lost.                                           *)
FileFollowsDatabase == file \in fingerprints \cup {None, Torn}
=============================================================================
