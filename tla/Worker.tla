------------------------------- MODULE Worker -------------------------------
(***************************************************************************)
(* The scoring worker (tmq_worker): the consumer group that reads the      *)
(* event stream (ingest.py), the loop that routes each event into the      *)
(* client's contract and window (__main__.py, fsm.py, features.py), and    *)
(* what a closed window leaves behind: a row in Postgres, a verdict in     *)
(* Redis, an incident (storage.py, verdicts.py, incidents.py).             *)
(*                                                                         *)
(* ingest_loop and sweep_loop are coroutines of one thread: neither runs   *)
(* while the other routes its batch or handles its closed windows.         *)
(* Ingestor.read_batch runs on a thread of its own, so sweeps do come      *)
(* between its steps.  An exception of Redis or Postgres ends the process  *)
(* (asyncio.gather), which forgets all but the database and Redis.  The    *)
(* level of a window's verdict is any level; module Policy decides it.     *)
(***************************************************************************)
EXTENDS FeatureWindows, Sequences, FiniteSets, SequencesExt

CONSTANTS
  Clients,          (* client identifiers                                   *)
  NoClient,         (* an event without a valid one                         *)
  Levels,           (* verdict levels explored                              *)
  Modes,            (* of --fingerprint-only, or mode fingerprint           *)
  BatchSize,        (* count of read_batch                                  *)
  SweepInterval,    (* interval_s of sweep_loop                             *)
  SweepLate,        (* bound on the time between two sweeps, the interval   *)
                    (* and the time a batch may occupy the event loop       *)
  MaxEvents,        (* bound on the events in the stream                    *)
  MaxTime,          (* bound on the clock                                   *)
  MaxCrashes        (* bound on the ends of the process                     *)

ALLOW    == 0
THROTTLE == 2
KICK     == 4

ASSUME WorkerAssumption ==
  /\ IsFiniteSet(Clients)
  /\ NoClient \notin Clients
  /\ Levels \subseteq ALLOW..KICK
  /\ Modes \subseteq BOOLEAN
  /\ BatchSize \in Nat \ {0}
  /\ SweepInterval \in Nat \ {0}
  /\ SweepLate \in Nat \ {0}
  /\ SweepInterval <= SweepLate
  /\ MaxEvents \in Nat
  /\ MaxTime \in Nat
  /\ MaxCrashes \in Nat

VARIABLES
  fingerprint_only,  (* ScoringContext.fingerprint_only                     *)
  now,
  stream,       (* tmq:events; an entry's id is its position                *)
  delivered,    (* last id delivered to the consumer group tmqw             *)
  pel,          (* its pending entries, of all consumers                    *)
  dead,         (* ids of the entries copied to tmq:events:dead             *)
  ingest,       (* read_batch: asking, read, acknowledged, or being routed  *)
  ack_ids, inbox,  (* read by it: all, and those not parsed yet             *)
  batch,        (* parsed entries not yet routed                            *)
  acc,          (* FeatureWindowManager._acc                                *)
  known,        (* clients whose ClientFSM has a last symbol                *)
  violations,   (* BehavioralContractEngine._window_violations              *)
  closing,      (* windows the sweep closed and has not handled yet         *)
  open_ids,     (* IncidentService._open_incident_ids, 0 for none           *)
  rows,         (* Postgres: feature_windows and verdict_history            *)
  incidents,    (* Postgres: incidents                                      *)
  verdictp,     (* Redis: level last written to tmq:verdictp, or NoVerdict  *)
  last_sweep,   (* when sweep_loop last ran                                 *)
  crashes,      (* history: ends of the process so far                      *)
  routed_at     (* history: when an entry was routed, 0 for not yet         *)

group     == <<delivered, pel>>
reader    == <<ingest, ack_ids, inbox>>
scoring   == <<acc, known, violations>>
persisted == <<rows, incidents, verdictp>>
history   == <<crashes, routed_at>>
vars == <<fingerprint_only, now, stream, group, dead, reader, batch, scoring,
          closing, open_ids, persisted, last_sweep, history>>

NoVerdict == -1

(* "symbol" events have a symbol of the contract's alphabet, "mute" ones    *)
(* (auth_observe) have none, and the schema refuses "malformed" ones, among *)
(* them plugin_stats and enforcement, which it does not provide for.        *)
Kinds == {"symbol", "mute", "malformed"}

Id    == 1..MaxEvents
Entry == [client : Clients \cup {NoClient}, ts : Nat, kind : Kinds]
Row   == [client : Clients, window_start : Nat, entries : SUBSET Id,
          violations : SUBSET Id, level : Levels \cup {NoVerdict},
          alarm : BOOLEAN, life : Nat]
Incident == [client : Clients, opened : Nat, open : BOOLEAN,
             peak_level : Levels]

TypeOK ==
  /\ fingerprint_only \in BOOLEAN
  /\ now \in Nat
  /\ stream \in Seq(Entry)
  /\ delivered \in 0..Len(stream)
  /\ pel \subseteq 1..delivered
  /\ dead \subseteq 1..delivered
  /\ ingest \in {"ask", "read", "ready", "route"}
  /\ ack_ids \subseteq 1..delivered
  /\ inbox \in Seq(1..delivered)
  /\ batch \in Seq(1..delivered)
  /\ acc \in [Clients -> Accumulator \cup {NoWindow}]
  /\ known \subseteq Clients
  /\ violations \in [Clients -> SUBSET (1..delivered)]
  /\ closing \in Seq([client : Clients, window : Accumulator])
  /\ open_ids \in [Clients -> 0..Len(incidents)]
  /\ rows \in Seq(Row)
  /\ incidents \in Seq(Incident)
  /\ verdictp \in [Clients -> Levels \cup {NoVerdict}]
  /\ last_sweep \in Nat
  /\ crashes \in Nat
  /\ routed_at \in [Id -> Nat]

Init ==
  /\ fingerprint_only \in Modes
  /\ now = 1
  /\ stream = <<>>
  /\ delivered = 0
  /\ pel = {}
  /\ dead = {}
  /\ ingest = "ask"
  /\ ack_ids = {}
  /\ inbox = <<>>
  /\ batch = <<>>
  /\ acc = [c \in Clients |-> NoWindow]
  /\ known = {}
  /\ violations = [c \in Clients |-> {}]
  /\ closing = <<>>
  /\ open_ids = [c \in Clients |-> 0]
  /\ last_sweep = now
  /\ rows = <<>>
  /\ incidents = <<>>
  /\ verdictp = [c \in Clients |-> NoVerdict]
  /\ crashes = 0
  /\ routed_at = [i \in Id |-> 0]

-----------------------------------------------------------------------------
(* Environment.                                                             *)
Advance ==
  /\ now < MaxTime
  /\ now - last_sweep < SweepLate
  /\ now' = now + 1
  /\ UNCHANGED <<fingerprint_only, stream, group, dead, reader, batch,
                 scoring, closing, open_ids, persisted, last_sweep, history>>

(* The plugin's emitter appends an event; a malformed one has no client.    *)
Emit(c, kind) ==
  /\ kind = "malformed" <=> c = NoClient
  /\ Len(stream) < MaxEvents
  /\ stream' = Append(stream, [client |-> c, ts |-> now, kind |-> kind])
  /\ UNCHANGED <<fingerprint_only, now, group, dead, reader, batch, scoring,
                 closing, open_ids, persisted, last_sweep, history>>

(* The process ends and is started again, under a new consumer name; the    *)
(* time it is down is time in which it does nothing.                        *)
Forget ==
  /\ crashes < MaxCrashes
  /\ crashes' = crashes + 1
  /\ ingest' = "ask"
  /\ ack_ids' = {}
  /\ inbox' = <<>>
  /\ batch' = <<>>
  /\ acc' = [c \in Clients |-> NoWindow]
  /\ known' = {}
  /\ violations' = [c \in Clients |-> {}]
  /\ closing' = <<>>
  /\ open_ids' = [c \in Clients |-> 0]
  /\ last_sweep' = now

Crash ==
  /\ Forget
  /\ UNCHANGED <<fingerprint_only, now, stream, group, dead, persisted,
                 routed_at>>

-----------------------------------------------------------------------------
(* Ingestor.read_batch, on its thread.                                      *)

(* A variant: the batch starts with what an earlier process left pending.   *)
ReadFromPending == IF pel # {} THEN Min(pel) ELSE delivered + 1

BatchEnd ==
  IF delivered + BatchSize < Len(stream) THEN delivered + BatchSize
                                         ELSE Len(stream)
ReadFrom == delivered + 1

(* XREADGROUP ... > : entries never delivered to the group before.          *)
XReadGroup ==
  /\ ingest = "ask"
  /\ delivered < Len(stream)
  /\ ingest' = "read"
  /\ ack_ids' = ReadFrom..BatchEnd
  /\ inbox' = [i \in 1..(BatchEnd - ReadFrom + 1) |-> ReadFrom + i - 1]
  /\ delivered' = BatchEnd
  /\ pel' = pel \cup (ReadFrom..BatchEnd)
  /\ UNCHANGED <<fingerprint_only, now, stream, dead, batch, scoring,
                 closing, open_ids, persisted, last_sweep, history>>

(* parse_entry and _deadletter, on the next entry                           *)
ParseEntry ==
  /\ ingest = "read"
  /\ inbox # <<>>
  /\ inbox' = Tail(inbox)
  /\ IF stream[Head(inbox)].kind = "malformed"
     THEN dead' = dead \cup {Head(inbox)} /\ UNCHANGED batch
     ELSE batch' = Append(batch, Head(inbox)) /\ UNCHANGED dead
  /\ UNCHANGED <<fingerprint_only, now, stream, group, ingest, ack_ids,
                 scoring, closing, open_ids, persisted, last_sweep, history>>

(* One XACK for the whole batch, which is then handed to ingest_loop.       *)
XAck ==
  /\ ingest = "read"
  /\ inbox = <<>>
  /\ pel' = pel \ ack_ids
  /\ ack_ids' = {}
  /\ ingest' = IF batch = <<>> THEN "ask" ELSE "ready"
  /\ UNCHANGED <<fingerprint_only, now, stream, delivered, dead, inbox,
                 batch, scoring, closing, open_ids, persisted, last_sweep,
                 history>>

-----------------------------------------------------------------------------
(* IncidentService.maybe_open_or_update.                                    *)

(* A variant that opens an incident from QUARANTINE on only.                *)
ShouldHaveIncidentLater(level, alarm) == level > THROTTLE \/ alarm

ShouldHaveIncident(level, alarm) == level >= THROTTLE \/ alarm

Larger(a, b) == IF a > b THEN a ELSE b

(* A variant of IncidentsAfter that forgets to close the incident.          *)
IncidentsAfterUnclosed(c, level, alarm) ==
  IF ~ShouldHaveIncident(level, alarm) THEN incidents
  ELSE IF open_ids[c] = 0
       THEN Append(incidents, [client |-> c, opened |-> Len(rows) + 1,
                               open |-> TRUE, peak_level |-> level])
       ELSE [incidents EXCEPT ![open_ids[c]].peak_level = Larger(@, level)]

IncidentsAfter(c, level, alarm) ==
  IF ~ShouldHaveIncident(level, alarm)
  THEN IF open_ids[c] = 0 THEN incidents
       ELSE [incidents EXCEPT ![open_ids[c]].open = FALSE]
  ELSE IF open_ids[c] = 0
       THEN Append(incidents, [client |-> c, opened |-> Len(rows) + 1,
                               open |-> TRUE, peak_level |-> level])
       ELSE [incidents EXCEPT ![open_ids[c]].peak_level = Larger(@, level)]

OpenIdAfter(c, level, alarm) ==
  IF ~ShouldHaveIncident(level, alarm) THEN 0
  ELSE IF open_ids[c] = 0 THEN Len(incidents) + 1 ELSE open_ids[c]

-----------------------------------------------------------------------------
(* ScoringContext._handle_closed_window.  `stage' is how far it gets before *)
(* an exception ends the process: nothing is committed, the row is, the     *)
(* verdict is written too, or all is done.                                  *)
Stages == {"failed", "committed", "published", "done"}

(* A variant of Commits: the rows are committed after everything else.      *)
CommitsLast(stage) == stage = "done"

Commits(stage)   == stage # "failed"
Publishes(stage) == stage \in {"published", "done"} /\ ~fingerprint_only

RowOf(c, w, seen, level, alarm) ==
  [client |-> c, window_start |-> w.window_start, entries |-> w.entries,
   violations |-> seen, level |-> IF fingerprint_only THEN NoVerdict ELSE level,
   alarm |-> alarm, life |-> crashes]

Persist(c, w, seen, level, alarm, stage) ==
  /\ rows' = IF Commits(stage)
             THEN Append(rows, RowOf(c, w, seen, level, alarm)) ELSE rows
  /\ verdictp' = IF Publishes(stage) THEN [verdictp EXCEPT ![c] = level]
                                     ELSE verdictp
  /\ incidents' = IF stage = "done" /\ ~fingerprint_only
                  THEN IncidentsAfter(c, level, alarm) ELSE incidents

(* Its outcomes; the level is immaterial when it is not used.               *)
Outcomes == {o \in [level : Levels, alarm : BOOLEAN, stage : Stages] :
               (fingerprint_only \/ ~Commits(o.stage)) =>
                 o.level = Min(Levels) /\ ~o.alarm}

(* And the memory of a process that goes on.                                *)
HandleClosedWindow(c, w, seen, o) ==
  /\ Persist(c, w, seen, o.level, o.alarm, o.stage)
  /\ open_ids' = IF fingerprint_only THEN open_ids
                 ELSE [open_ids EXCEPT ![c] = OpenIdAfter(c, o.level, o.alarm)]

(* close_window pops the client's buffer; a variant keeps it for the next   *)
(* window as well.                                                          *)
BufferKept(c, seen) == [violations EXCEPT ![c] = seen]
BufferPopped(c, seen) == [violations EXCEPT ![c] = {}]

-----------------------------------------------------------------------------
(* ScoringContext.on_event, for the next entry of the batch.  The contract  *)
(* observes the event first: from the second symbol of a client on that is  *)
(* a violation score in its buffer.                                         *)
Seen(c, id) ==
  IF stream[id].kind = "symbol" /\ c \in known THEN violations[c] \cup {id}
                                               ELSE violations[c]

NowKnown(c, id) ==
  IF stream[id].kind = "symbol" THEN known \cup {c} ELSE known

(* A variant of TakeNext: windows of a sweep may be waiting still.          *)
TakeNextAmidSweep(id) ==
  /\ ingest \in {"ready", "route"}
  /\ id = Head(batch)

TakeNext(id) ==
  /\ ingest \in {"ready", "route"}
  /\ closing = <<>>
  /\ id = Head(batch)

Consume ==
  /\ batch' = Tail(batch)
  /\ ingest' = IF Tail(batch) = <<>> THEN "ask" ELSE "route"

(* The event falls into the client's open window, or opens one.             *)
OnEvent(id) ==
  LET c == stream[id].client IN
  /\ TakeNext(id)
  /\ ~Rolls(acc[c], stream[id].ts)
  /\ acc' = [acc EXCEPT ![c] = AfterEvent(@, id, stream[id].ts)]
  /\ known' = NowKnown(c, id)
  /\ violations' = [violations EXCEPT ![c] = Seen(c, id)]
  /\ routed_at' = [routed_at EXCEPT ![id] = now]
  /\ Consume
  /\ UNCHANGED <<fingerprint_only, now, stream, group, dead, ack_ids, inbox,
                 closing, open_ids, persisted, last_sweep, crashes>>

(* The event lies past the window's end and closes it.                      *)
OnEventRolls(id, o) ==
  LET c == stream[id].client IN
  /\ TakeNext(id)
  /\ Rolls(acc[c], stream[id].ts)
  /\ o.stage = "done"
  /\ acc' = [acc EXCEPT ![c] = AfterEvent(@, id, stream[id].ts)]
  /\ known' = NowKnown(c, id)
  /\ violations' = BufferPopped(c, Seen(c, id))
  /\ routed_at' = [routed_at EXCEPT ![id] = now]
  /\ HandleClosedWindow(c, acc[c], Seen(c, id), o)
  /\ Consume
  /\ UNCHANGED <<fingerprint_only, now, stream, group, dead, ack_ids, inbox,
                 closing, last_sweep, crashes>>

OnEventFails(id, o) ==
  LET c == stream[id].client IN
  /\ TakeNext(id)
  /\ Rolls(acc[c], stream[id].ts)
  /\ o.stage # "done"
  /\ Persist(c, acc[c], Seen(c, id), o.level, o.alarm, o.stage)
  /\ routed_at' = [routed_at EXCEPT ![id] = now]
  /\ Forget
  /\ UNCHANGED <<fingerprint_only, now, stream, group, dead>>

-----------------------------------------------------------------------------
(* ScoringContext.sweep: sweep_stale closes every stale window at once, in  *)
(* the order of its table, then each is handled.                            *)
StaleClients == {c \in Clients : Stale(acc[c], now)}

StartSweep(order) ==
  /\ ingest # "route"
  /\ closing = <<>>
  /\ now - last_sweep >= SweepInterval
  /\ order \in SetToSeqs(StaleClients)
  /\ closing' = [i \in DOMAIN order |->
                   [client |-> order[i], window |-> acc[order[i]]]]
  /\ acc' = [c \in Clients |-> IF c \in StaleClients THEN NoWindow ELSE acc[c]]
  /\ last_sweep' = now
  /\ UNCHANGED <<fingerprint_only, now, stream, group, dead, reader, batch,
                 known, violations, open_ids, persisted, history>>

HandleSwept(o) ==
  LET c == Head(closing).client IN
  /\ closing # <<>>
  /\ o.stage = "done"
  /\ violations' = BufferPopped(c, violations[c])
  /\ HandleClosedWindow(c, Head(closing).window, violations[c], o)
  /\ closing' = Tail(closing)
  /\ UNCHANGED <<fingerprint_only, now, stream, group, dead, reader, batch,
                 acc, known, last_sweep, history>>

SweepFails(o) ==
  LET c == Head(closing).client IN
  /\ closing # <<>>
  /\ o.stage # "done"
  /\ Persist(c, Head(closing).window, violations[c], o.level, o.alarm, o.stage)
  /\ Forget
  /\ UNCHANGED <<fingerprint_only, now, stream, group, dead, routed_at>>

Next ==
  \/ Advance
  \/ \E c \in Clients \cup {NoClient}, kind \in Kinds : Emit(c, kind)
  \/ Crash
  \/ XReadGroup \/ ParseEntry \/ XAck
  \/ /\ batch # <<>>
     /\ \/ OnEvent(Head(batch))
        \/ \E o \in Outcomes : OnEventRolls(Head(batch), o)
        \/ \E o \in Outcomes : OnEventFails(Head(batch), o)
  \/ \E order \in SetToSeqs(StaleClients) : StartSweep(order)
  \/ /\ closing # <<>>
     /\ \E o \in Outcomes : HandleSwept(o) \/ SweepFails(o)

Spec == Init /\ [][Next]_vars

-----------------------------------------------------------------------------
Positions(s) == {s[i] : i \in DOMAIN s}

(* Where an entry delivered to the group can be.                            *)
Places(id) ==
  {<<"dead">> : x \in dead \cap {id}}
    \cup {<<"inbox", i>> : i \in {j \in DOMAIN inbox : inbox[j] = id}}
    \cup {<<"batch", i>> : i \in {j \in DOMAIN batch : batch[j] = id}}
    \cup {<<"open", c>> : c \in {d \in Clients : acc[d] # NoWindow
                                                /\ id \in acc[d].entries}}
    \cup {<<"closing", i>> : i \in {j \in DOMAIN closing :
                                     id \in closing[j].window.entries}}
    \cup {<<"row", i>> : i \in {j \in DOMAIN rows : id \in rows[j].entries}}

(* An entry of the stream is in one place at most: it is dead-lettered or   *)
(* counted in one window, never in two, whatever restarts came in between.  *)
CountedOnce == \A id \in 1..delivered : Cardinality(Places(id)) <= 1

(* And while the process lives it is in one place at least: no event is     *)
(* lost between the thread that reads, the batch, the windows and the rows. *)
OnlyCrashesLose ==
  crashes = 0 => \A id \in 1..delivered : Places(id) # {}

(* The violation scores a window is judged by are those of its own events,  *)
(* but for one at most: the next event of the client, which closed it.      *)
AtMostOneStray ==
  \A i \in DOMAIN rows :
    LET stray == rows[i].violations \ rows[i].entries IN
    \A x \in stray :
      /\ stray = {x}
      /\ \A e \in rows[i].entries : e < x
      /\ \A j \in DOMAIN rows : x \in rows[j].violations => j = i

(* Every event is out of its open window within the window's length, the    *)
(* grace and a period of the sweep from the time it was routed, also for a  *)
(* client that fell silent (sweep_stale).                                   *)
ScoredInTime ==
  \A c \in Clients :
    acc[c] # NoWindow => \A id \in acc[c].entries :
      now < routed_at[id] + WindowLen + IdleGrace + SweepLate

(* SPEC.md, rule 5: nothing enforces without a row that explains it.  The   *)
(* verdict in Redis is that of one of the client's last rows: the last one, *)
(* or an earlier one for each end of the process between commit and write.  *)
RowsExplainVerdicts ==
  \A c \in Clients :
    LET mine == {i \in DOMAIN rows : rows[i].client = c} IN
    verdictp[c] # NoVerdict =>
      \E i \in mine :
        /\ rows[i].level = verdictp[c]
        /\ Cardinality({j \in mine : j > i}) <= crashes

LastRow(c) ==
  {i \in DOMAIN rows :
     /\ rows[i].client = c
     /\ rows[i].life = crashes
     /\ \A j \in DOMAIN rows : rows[j].client = c => j <= i}

Deserves(r) == r.level >= THROTTLE \/ r.alarm

(* While the process lives, a client has an open incident exactly if its    *)
(* last window deserved one, and the incident records the worst level since *)
(* it was opened.                                                           *)
IncidentsFollowVerdicts ==
  \A c \in Clients : \A last \in LastRow(c) :
    IF fingerprint_only THEN open_ids[c] = 0
    ELSE /\ open_ids[c] # 0 <=> Deserves(rows[last])
         /\ open_ids[c] # 0 =>
              LET inc   == incidents[open_ids[c]]
                  since == {i \in inc.opened..last : rows[i].client = c}
              IN /\ inc.client = c
                 /\ inc.open
                 /\ \A i \in since : Deserves(rows[i])
                 /\ inc.peak_level = Max({rows[i].level : i \in since})

(* Only the end of a process leaves an open incident that no process knows. *)
OnlyCrashesOrphan ==
  \A k \in DOMAIN incidents :
    incidents[k].open =>
      \/ open_ids[incidents[k].client] = k
      \/ rows[incidents[k].opened].life < crashes

-----------------------------------------------------------------------------
(* What the process holds of a client: read, in the batch, or in a window   *)
(* that is open or being closed.                                            *)
InProcess ==
  Positions(inbox) \cup Positions(batch)
    \cup (UNION {acc[c].entries : c \in {d \in Clients : acc[d] # NoWindow}})
    \cup (UNION {closing[i].window.entries : i \in DOMAIN closing})

HeldOf == [c \in Clients |-> {id \in InProcess : stream[id].client = c}]

JudgedWindows ==
  [i \in DOMAIN rows |->
     [client |-> rows[i].client, entries |-> rows[i].entries]]

Log == INSTANCE WindowLog WITH taken <- delivered, held <- HeldOf,
                               judged <- JudgedWindows

(* Reader, batch, windows and sweep, with all their interleavings and ends  *)
(* of the process, cut what a client does into windows one after another.   *)
ImplementsWindowLog == Log!Spec

(* The rows of a client follow the order of its events, also when a window  *)
(* is closed by an event while others wait to be handled by the sweep, and  *)
(* across the ends of the process.                                          *)
RowsInOrder == Log!WindowsInOrder

-----------------------------------------------------------------------------
(* What the documentation says and the code does not do.                    *)

(* SPEC.md 5.2: the violation score of a window aggregates the events in it.*)
JudgedByOwnEvents ==
  \A i \in DOMAIN rows : rows[i].violations \subseteq rows[i].entries
=============================================================================
