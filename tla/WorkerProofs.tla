---------------------------- MODULE WorkerProofs ----------------------------
(***************************************************************************)
(* The properties of Worker for any number of clients, events, clock units *)
(* and ends of the process, and for windows, batches and sweeps of any     *)
(* length.                                                                 *)
(***************************************************************************)
EXTENDS Worker, FiniteSetTheorems, TLAPS

(* Malformed entries have no client, and only they; none of them gets into  *)
(* the batch.  A part of the reader that has been left is empty.            *)
Reading ==
  /\ Len(stream) <= MaxEvents
  /\ \A i \in 1..Len(stream) :
       stream[i].kind = "malformed" <=> stream[i].client = NoClient
  /\ \A i \in 1..Len(batch) : stream[batch[i]].client \in Clients
  /\ ingest # "read" => inbox = <<>>
  /\ ingest = "ask" => batch = <<>>

(* Windows hold delivered entries.                                          *)
Delivered ==
  /\ \A c \in Clients :
       acc[c] # NoWindow => acc[c].entries \subseteq 1..delivered
  /\ \A i \in 1..Len(closing) :
       closing[i].window.entries \subseteq 1..delivered
  /\ \A i \in 1..Len(rows) :
       /\ rows[i].entries \subseteq 1..delivered
       /\ rows[i].violations \subseteq 1..delivered

(* The places of an entry, by their kind and position: Places, as a         *)
(* relation.                                                                *)
InPlace(k, x, id) ==
  \/ k = "dead" /\ x = 0 /\ id \in dead
  \/ k = "inbox" /\ x \in 1..Len(inbox) /\ inbox[x] = id
  \/ k = "batch" /\ x \in 1..Len(batch) /\ batch[x] = id
  \/ k = "open" /\ x \in Clients /\ acc[x] # NoWindow /\ id \in acc[x].entries
  \/ k = "closing" /\ x \in 1..Len(closing) /\ id \in closing[x].window.entries
  \/ k = "row" /\ x \in 1..Len(rows) /\ id \in rows[x].entries

Alone(id) ==
  \A j, k, x, y : InPlace(j, x, id) /\ InPlace(k, y, id) => j = k /\ x = y

Somewhere(id) == \E k, x : InPlace(k, x, id)

Unique  == \A id \in 1..delivered : Alone(id)
NotLost == crashes = 0 => \A id \in 1..delivered : Somewhere(id)

(* No window is older than its entries' routing; each has been routed since *)
(* the last sweep, or that sweep found its window not stale.                *)
Clocks ==
  /\ last_sweep <= now
  /\ now <= last_sweep + SweepLate
  /\ \A i \in 1..Len(stream) : stream[i].ts <= now
  /\ \A c \in Clients : acc[c] # NoWindow =>
       /\ acc[c].window_start <= now
       /\ \A id \in acc[c].entries :
            /\ acc[c].window_start <= routed_at[id]
            /\ \/ last_sweep <= routed_at[id]
               \/ last_sweep < acc[c].window_start + WindowLen + IdleGrace

(* Incidents are of the clients that have them open, and of rows.           *)
Opened ==
  /\ \A k \in 1..Len(incidents) :
       /\ incidents[k].opened \in 1..Len(rows)
       /\ rows[incidents[k].opened].client = incidents[k].client
  /\ \A i \in 1..Len(rows) : rows[i].life <= crashes
  /\ \A c \in Clients : open_ids[c] # 0 =>
       /\ incidents[open_ids[c]].client = c
       /\ LastRow(c) # {}

(* Fingerprint mode publishes nothing.                                      *)
Passive ==
  fingerprint_only => \A c \in Clients :
    verdictp[c] = NoVerdict /\ open_ids[c] = 0

(* The reader's entries are in the order of the stream, the batch before    *)
(* the inbox, and after everything routed.                                  *)
InOrder ==
  /\ \A i, j \in 1..Len(inbox) : i < j => inbox[i] < inbox[j]
  /\ \A i, j \in 1..Len(batch) : i < j => batch[i] < batch[j]
  /\ \A i \in 1..Len(batch), j \in 1..Len(inbox) : batch[i] < inbox[j]

Routed(id) ==
  /\ \A i \in 1..Len(batch) : id < batch[i]
  /\ \A i \in 1..Len(inbox) : id < inbox[i]

RoutedFirst ==
  /\ \A c \in Clients : /\ acc[c] # NoWindow =>
                             \A id \in acc[c].entries : Routed(id)
                        /\ \A id \in violations[c] : Routed(id)
  /\ \A i \in 1..Len(rows) : \A id \in rows[i].violations : Routed(id)

(* The windows a sweep closed are of different clients, which have no other *)
(* yet.                                                                     *)
SweptOnce ==
  /\ \A i \in 1..Len(closing) : acc[closing[i].client] = NoWindow
  /\ \A i, j \in 1..Len(closing) :
       closing[i].client = closing[j].client => i = j

(* The buffer of a client scores its own events, of its open window or of   *)
(* the one the sweep closed; and no row has scored them.                    *)
Buffered ==
  \A c \in Clients : \A x \in violations[c] :
    /\ stream[x].client = c
    /\ \/ acc[c] # NoWindow /\ x \in acc[c].entries
       \/ \E i \in 1..Len(closing) : /\ closing[i].client = c
                                     /\ x \in closing[i].window.entries
    /\ \A i \in 1..Len(rows) : x \notin rows[i].violations

(* No two rows score the same event.                                        *)
ScoredOnce ==
  \A i, j \in 1..Len(rows) :
    rows[i].violations \cap rows[j].violations # {} => i = j

(* What each part of the worker has to keep.                                *)
Placed  == Delivered /\ Unique /\ NotLost
Judged  == /\ Opened /\ Passive /\ OnlyCrashesOrphan
           /\ RowsExplainVerdicts /\ IncidentsFollowVerdicts
Scored  == /\ InOrder /\ RoutedFirst /\ SweptOnce /\ Buffered
           /\ ScoredOnce /\ AtMostOneStray

IInv ==
  /\ TypeOK
  /\ Reading
  /\ Placed
  /\ Clocks
  /\ Judged
  /\ Scored

-----------------------------------------------------------------------------
(* Sequences.                                                               *)

(* Taking the head off.                                                     *)
LEMMA TailParts ==
  ASSUME NEW S, NEW s \in Seq(S), s # <<>>
  PROVE  /\ Tail(s) \in Seq(S) /\ Len(s) \in Nat \ {0}
         /\ Len(Tail(s)) = Len(s) - 1
         /\ \A i \in 1..(Len(s) - 1) : Tail(s)[i] = s[i + 1]
         /\ Head(s) = s[1] /\ s[1] \in S
<1>1. QED
  OBVIOUS

(* Adding to the end.                                                       *)
LEMMA AppendParts ==
  ASSUME NEW S, NEW s \in Seq(S), NEW e \in S
  PROVE  /\ Append(s, e) \in Seq(S) /\ Len(s) \in Nat
         /\ Len(Append(s, e)) = Len(s) + 1
         /\ \A i \in 1..Len(s) : Append(s, e)[i] = s[i]
         /\ Append(s, e)[Len(s) + 1] = e
<1>1. QED
  OBVIOUS

(* The elements.                                                            *)
LEMMA ElementParts ==
  ASSUME NEW S, NEW s \in Seq(S)
  PROVE  Len(s) \in Nat /\ DOMAIN s = 1..Len(s)
         /\ \A i \in 1..Len(s) : s[i] \in S
<1>1. QED
  OBVIOUS

(* The positions when one may have been added.                              *)
LEMMA OneMore ==
  ASSUME NEW n \in Nat, NEW p \in {n, n + 1}
  PROVE  /\ \A j \in 1..n : j # n + 1 /\ j \in 1..p /\ j <= n
         /\ \A j \in 1..p : j \in 1..n \/ (j = n + 1 /\ p = n + 1)
         /\ 1..n \subseteq 1..p
         /\ p = n + 1 => n + 1 \in 1..p /\ \A j \in 1..p : ~(j > n + 1)
<1>1. QED
  OBVIOUS

(* A function on an interval.                                               *)
LEMMA FunctionParts ==
  ASSUME NEW S, NEW n \in Nat, NEW f \in [1..n -> S]
  PROVE  f \in Seq(S) /\ Len(f) = n
<1>1. QED
  OBVIOUS

(* Changing a field of an incident.                                         *)
LEMMA IncidentParts ==
  ASSUME NEW inc \in Incident, NEW l \in Levels
  PROVE  /\ [inc EXCEPT !.open = FALSE] \in Incident
         /\ [inc EXCEPT !.peak_level = l] \in Incident
<1>1. QED
  BY DEF Incident

(* Changing one element.                                                    *)
LEMMA ExceptParts ==
  ASSUME NEW S, NEW s \in Seq(S), NEW k \in 1..Len(s), NEW e \in S
  PROVE  /\ [s EXCEPT ![k] = e] \in Seq(S)
         /\ Len([s EXCEPT ![k] = e]) = Len(s)
         /\ \A i \in 1..Len(s) :
              [s EXCEPT ![k] = e][i] = IF i = k THEN e ELSE s[i]
<1>1. QED
  OBVIOUS

-----------------------------------------------------------------------------
(* Types.                                                                   *)

(* What an event makes of an accumulator.                                   *)
LEMMA AfterEventType ==
  ASSUME NEW w \in Accumulator \cup {NoWindow}, NEW id \in Nat, NEW ts \in Nat
  PROVE  AfterEvent(w, id, ts) \in Accumulator
<1>1. CASE w = NoWindow
  BY <1>1 DEF AfterEvent, Accumulator
<1>2. CASE w # NoWindow
  BY <1>2, WindowAssumption DEF AfterEvent, Accumulator, Rolls
<1>3. QED
  BY <1>1, <1>2

(* The rows a window leaves.                                                *)
LEMMA PersistType ==
  ASSUME TypeOK, NEW c \in Clients, NEW w \in Accumulator,
         NEW seen \in SUBSET Id, NEW o \in Outcomes, w.entries \subseteq Id,
         Persist(c, w, seen, o.level, o.alarm, o.stage)
  PROVE  /\ rows' \in Seq(Row) /\ incidents' \in Seq(Incident)
         /\ verdictp' \in [Clients -> Levels \cup {NoVerdict}]
<1>1. /\ o.level \in Levels /\ o.alarm \in BOOLEAN
      /\ rows \in Seq(Row) /\ incidents \in Seq(Incident)
      /\ verdictp \in [Clients -> Levels \cup {NoVerdict}]
      /\ crashes \in Nat /\ open_ids \in [Clients -> 0..Len(incidents)]
  BY DEF Outcomes, TypeOK
<1>2. RowOf(c, w, seen, o.level, o.alarm) \in Row
  BY <1>1 DEF RowOf, Row, Accumulator
<1>3. rows' \in Seq(Row)
  BY <1>1, <1>2 DEF Persist
<1>4. verdictp' \in [Clients -> Levels \cup {NoVerdict}]
  BY <1>1 DEF Persist
<1>5. IncidentsAfter(c, o.level, o.alarm) \in Seq(Incident)
  <2>1. CASE ~ShouldHaveIncident(o.level, o.alarm)
    <3>1. CASE open_ids[c] = 0
      BY <1>1, <2>1, <3>1 DEF IncidentsAfter
    <3>2. CASE open_ids[c] # 0
      <4> DEFINE k == open_ids[c]
                 e == [incidents[k] EXCEPT !.open = FALSE]
      <4>1. k \in 1..Len(incidents)
        BY <1>1, <3>2
      <4>2. e \in Incident
        <5>1. incidents[k] \in Incident /\ o.level \in Levels
          BY <1>1, <4>1
        <5>2. QED
          BY <5>1, IncidentParts
      <4>3. IncidentsAfter(c, o.level, o.alarm) = [incidents EXCEPT ![k] = e]
        BY <2>1, <3>2 DEF IncidentsAfter
      <4> HIDE DEF k, e
      <4>4. incidents \in Seq(Incident)
        BY <1>1
      <4>5. [incidents EXCEPT ![k] = e] \in Seq(Incident)
        BY <4>1, <4>2, <4>4, ExceptParts
      <4>6. QED
        BY <4>3, <4>5
    <3>3. QED
      BY <3>1, <3>2
  <2>2. CASE ShouldHaveIncident(o.level, o.alarm) /\ open_ids[c] = 0
    <3>1. [client |-> c, opened |-> Len(rows) + 1, open |-> TRUE,
           peak_level |-> o.level] \in Incident
      BY <1>1 DEF Incident
    <3>2. QED
      BY <1>1, <2>2, <3>1 DEF IncidentsAfter
  <2>3. CASE ShouldHaveIncident(o.level, o.alarm) /\ open_ids[c] # 0
    <3> DEFINE k == open_ids[c]
               e == [incidents[k] EXCEPT !.peak_level = Larger(@, o.level)]
    <3>1. k \in 1..Len(incidents)
      BY <1>1, <2>3
    <3>2. e \in Incident
      <4>1. incidents[k] \in Incident
        BY <1>1, <3>1
      <4>2. Larger(incidents[k].peak_level, o.level) \in Levels
        BY <1>1, <4>1 DEF Incident, Larger
      <4>3. QED
        BY <4>1, <4>2, IncidentParts
    <3>3. IncidentsAfter(c, o.level, o.alarm) = [incidents EXCEPT ![k] = e]
      BY <2>3 DEF IncidentsAfter
    <3> HIDE DEF k, e
    <3>4. incidents \in Seq(Incident)
      BY <1>1
    <3>5. [incidents EXCEPT ![k] = e] \in Seq(Incident)
      BY <3>1, <3>2, <3>4, ExceptParts
    <3>6. QED
      BY <3>3, <3>5
  <2>4. QED
    BY <2>1, <2>2, <2>3
<1>6. incidents' \in Seq(Incident)
  BY <1>1, <1>5 DEF Persist
<1>7. QED
  BY <1>3, <1>4, <1>6

(* What there is to know of the state before a step.                        *)
LEMMA Types ==
  ASSUME TypeOK
  PROVE  /\ fingerprint_only \in BOOLEAN /\ now \in Nat /\ delivered \in Nat
         /\ stream \in Seq(Entry) /\ Len(stream) \in Nat
         /\ delivered <= Len(stream)
         /\ inbox \in Seq(1..delivered) /\ batch \in Seq(1..delivered)
         /\ acc \in [Clients -> Accumulator \cup {NoWindow}]
         /\ violations \in [Clients -> SUBSET (1..delivered)]
         /\ closing \in Seq([client : Clients, window : Accumulator])
         /\ open_ids \in [Clients -> 0..Len(incidents)]
         /\ rows \in Seq(Row) /\ incidents \in Seq(Incident)
         /\ verdictp \in [Clients -> Levels \cup {NoVerdict}]
         /\ last_sweep \in Nat /\ crashes \in Nat /\ routed_at \in [Id -> Nat]
<1>1. QED
  BY DEF TypeOK

(* Time passes.                                                             *)
LEMMA AdvanceType ==
  ASSUME TypeOK, Advance
  PROVE  TypeOK'
<1>1. QED
  BY DEF TypeOK, Advance, group, reader, scoring, persisted, history

(* An event is appended.                                                    *)
LEMMA EmitType ==
  ASSUME TypeOK, NEW c \in Clients \cup {NoClient}, NEW kind \in Kinds,
         Emit(c, kind)
  PROVE  TypeOK'
<1>1. [client |-> c, ts |-> now, kind |-> kind] \in Entry
  BY DEF TypeOK, Entry
<1>2. /\ stream' \in Seq(Entry) /\ Len(stream') = Len(stream) + 1
      /\ Len(stream) \in Nat
  BY <1>1 DEF TypeOK, Emit
<1>3. delivered \in 0..Len(stream')
  BY <1>2 DEF TypeOK
<1>4. QED
  BY <1>2, <1>3
     DEF TypeOK, Emit, group, reader, scoring, persisted, history

(* A new process remembers nothing.                                         *)
LEMMA ForgetType ==
  ASSUME TypeOK, Forget,
         UNCHANGED <<fingerprint_only, now, stream, group, dead>>,
         rows' \in Seq(Row), incidents' \in Seq(Incident),
         verdictp' \in [Clients -> Levels \cup {NoVerdict}],
         routed_at' \in [Id -> Nat]
  PROVE  TypeOK'
<1>1. /\ <<>> \in Seq(1..delivered)
      /\ <<>> \in Seq([client : Clients, window : Accumulator])
      /\ Len(incidents') \in Nat
  OBVIOUS
<1>2. open_ids' \in [Clients -> 0..Len(incidents')]
  BY <1>1 DEF Forget
<1>3. QED
  BY <1>1, <1>2 DEF TypeOK, Forget, group

(* The group hands out the next entries.                                    *)
LEMMA ReadType ==
  ASSUME TypeOK, Reading, XReadGroup
  PROVE  /\ TypeOK'
         /\ delivered < BatchEnd /\ BatchEnd <= Len(stream)
         /\ delivered' = BatchEnd /\ BatchEnd \in Nat
         /\ Len(inbox') = BatchEnd - delivered
         /\ \A i \in 1..Len(inbox') : inbox'[i] = delivered + i
<1>1. /\ delivered \in Nat /\ Len(stream) \in Nat /\ delivered < Len(stream)
      /\ BatchSize \in Nat \ {0}
  BY WorkerAssumption DEF TypeOK, XReadGroup
<1>2. /\ BatchEnd \in Nat /\ delivered < BatchEnd /\ BatchEnd <= Len(stream)
      /\ ReadFrom = delivered + 1 /\ delivered' = BatchEnd
  BY <1>1 DEF BatchEnd, ReadFrom, XReadGroup
<1>3. inbox' = [i \in 1..(BatchEnd - delivered) |-> delivered + i]
  BY <1>1, <1>2 DEF XReadGroup
<1>4. /\ inbox' \in Seq(1..delivered') /\ Len(inbox') = BatchEnd - delivered
      /\ \A i \in 1..Len(inbox') : inbox'[i] = delivered + i
  BY <1>1, <1>2, <1>3
<1>5. 1..delivered \subseteq 1..delivered'
  BY <1>1, <1>2
<1>6. batch' \in Seq(1..delivered')
  <2>1. batch = <<>> /\ batch' = batch
    BY DEF Reading, XReadGroup
  <2>2. QED
    BY <2>1
<1>7. violations' \in [Clients -> SUBSET (1..delivered')]
  BY <1>5 DEF TypeOK, XReadGroup, scoring
<1>8. /\ pel' \subseteq 1..delivered' /\ dead' \subseteq 1..delivered'
      /\ ack_ids' \subseteq 1..delivered'
  BY <1>1, <1>2, <1>5 DEF TypeOK, XReadGroup
<1>9. delivered' \in 0..Len(stream')
  BY <1>1, <1>2 DEF XReadGroup
<1>10. TypeOK'
  BY <1>4, <1>6, <1>7, <1>8, <1>9
     DEF TypeOK, XReadGroup, scoring, persisted, history
<1>11. QED
  BY <1>2, <1>4, <1>10

(* An entry is parsed or dead-lettered; the batch is acknowledged.          *)
LEMMA ParseType ==
  ASSUME TypeOK, ParseEntry \/ XAck
  PROVE  TypeOK'
<1>1. CASE ParseEntry
  <2>1. /\ Head(inbox) \in 1..delivered /\ Tail(inbox) \in Seq(1..delivered)
        /\ batch \in Seq(1..delivered)
    BY <1>1 DEF TypeOK, ParseEntry
  <2>2. Append(batch, Head(inbox)) \in Seq(1..delivered)
    BY <2>1
  <2>3. /\ inbox' \in Seq(1..delivered) /\ batch' \in Seq(1..delivered)
        /\ dead' \subseteq 1..delivered
    BY <1>1, <2>1, <2>2 DEF TypeOK, ParseEntry
  <2>4. QED
    BY <1>1, <2>3
       DEF TypeOK, ParseEntry, group, scoring, persisted, history
<1>2. CASE XAck
  BY <1>2 DEF TypeOK, XAck, scoring, persisted, history
<1>3. QED
  BY <1>1, <1>2

(* The next entry of the batch.                                             *)
LEMMA NextEntry ==
  ASSUME TypeOK, Reading, batch # <<>>
  PROVE  /\ Head(batch) \in 1..delivered /\ Head(batch) \in Id
         /\ Head(batch) = batch[1] /\ Len(batch) \in Nat \ {0}
         /\ stream[Head(batch)].client \in Clients
         /\ stream[Head(batch)].ts \in Nat
         /\ Tail(batch) \in Seq(1..delivered)
         /\ Len(Tail(batch)) = Len(batch) - 1
         /\ \A i \in 1..(Len(batch) - 1) : Tail(batch)[i] = batch[i + 1]
<1>1. batch \in Seq(1..delivered)
  BY DEF TypeOK
<1>2. /\ Head(batch) \in 1..delivered /\ Head(batch) = batch[1]
      /\ Len(batch) \in Nat \ {0}
      /\ Tail(batch) \in Seq(1..delivered)
      /\ Len(Tail(batch)) = Len(batch) - 1
      /\ \A i \in 1..(Len(batch) - 1) : Tail(batch)[i] = batch[i + 1]
  BY <1>1, TailParts
<1>3. Head(batch) \in 1..Len(stream)
  BY <1>2 DEF TypeOK
<1>4. stream[Head(batch)] \in Entry
  BY <1>3 DEF TypeOK
<1>5. Head(batch) \in Id
  BY <1>3, WorkerAssumption DEF Reading, Id, TypeOK
<1>6. QED
  BY <1>2, <1>4, <1>5 DEF Reading, Entry

(* What its routing does to the variables of the scorer.                    *)
LEMMA RoutedType ==
  ASSUME TypeOK, Reading, batch # <<>>, NEW c, c = stream[Head(batch)].client
  PROVE  /\ [acc EXCEPT ![c] = AfterEvent(@, Head(batch),
                                          stream[Head(batch)].ts)]
              \in [Clients -> Accumulator \cup {NoWindow}]
         /\ NowKnown(c, Head(batch)) \subseteq Clients
         /\ Seen(c, Head(batch)) \subseteq 1..delivered
         /\ [routed_at EXCEPT ![Head(batch)] = now] \in [Id -> Nat]
         /\ Rolls(acc[c], stream[Head(batch)].ts) => acc[c] \in Accumulator
<1>1. /\ Head(batch) \in 1..delivered /\ Head(batch) \in Id
      /\ c \in Clients /\ stream[Head(batch)].ts \in Nat
  BY NextEntry
<1>2. /\ acc[c] \in Accumulator \cup {NoWindow} /\ Head(batch) \in Nat
      /\ acc \in [Clients -> Accumulator \cup {NoWindow}]
      /\ violations[c] \subseteq 1..delivered /\ known \subseteq Clients
      /\ routed_at \in [Id -> Nat] /\ now \in Nat
  <2>1. known \subseteq Clients
    BY DEF TypeOK
  <2>2. /\ acc \in [Clients -> Accumulator \cup {NoWindow}]
        /\ violations \in [Clients -> SUBSET (1..delivered)]
        /\ routed_at \in [Id -> Nat] /\ now \in Nat /\ delivered \in Nat
    BY Types
  <2>3. QED
    BY <1>1, <2>1, <2>2
<1>3. AfterEvent(acc[c], Head(batch), stream[Head(batch)].ts) \in Accumulator
  BY <1>1, <1>2, AfterEventType
<1>4. QED
  BY <1>1, <1>2, <1>3 DEF NowKnown, Seen, Rolls

(* A routed event.                                                          *)
LEMMA EventType ==
  ASSUME TypeOK, Reading, batch # <<>>, OnEvent(Head(batch))
  PROVE  TypeOK'
<1> DEFINE id == Head(batch)
           c == stream[id].client
<1>1. c \in Clients /\ batch' \in Seq(1..delivered)
  BY NextEntry DEF OnEvent, Consume
<1>2. /\ acc' \in [Clients -> Accumulator \cup {NoWindow}]
      /\ known' \subseteq Clients
      /\ Seen(c, id) \subseteq 1..delivered
      /\ routed_at' \in [Id -> Nat]
  BY RoutedType DEF OnEvent
<1>3. violations' \in [Clients -> SUBSET (1..delivered)]
  BY <1>1, <1>2 DEF OnEvent, TypeOK
<1>4. ingest' \in {"ask", "route"}
  BY DEF OnEvent, Consume
<1>5. QED
  BY <1>1, <1>2, <1>3, <1>4 DEF TypeOK, OnEvent, group, persisted

(* What the handling of a closed window leaves.                             *)
LEMMA HandledType ==
  ASSUME TypeOK, NEW c \in Clients, NEW w \in Accumulator,
         NEW seen \in SUBSET Id, NEW o \in Outcomes, w.entries \subseteq Id,
         o.stage = "done", HandleClosedWindow(c, w, seen, o)
  PROVE  /\ rows' \in Seq(Row) /\ incidents' \in Seq(Incident)
         /\ verdictp' \in [Clients -> Levels \cup {NoVerdict}]
         /\ open_ids' \in [Clients -> 0..Len(incidents')]
<1>1. /\ rows' \in Seq(Row) /\ incidents' \in Seq(Incident)
      /\ verdictp' \in [Clients -> Levels \cup {NoVerdict}]
  BY PersistType DEF HandleClosedWindow
<1>2. /\ incidents \in Seq(Incident) /\ Len(incidents) \in Nat
      /\ open_ids \in [Clients -> 0..Len(incidents)]
  BY DEF TypeOK
<1>3. incidents' = IF ~fingerprint_only
                   THEN IncidentsAfter(c, o.level, o.alarm) ELSE incidents
  BY DEF HandleClosedWindow, Persist
<1>4. CASE fingerprint_only
  BY <1>1, <1>2, <1>3, <1>4 DEF HandleClosedWindow
<1>5. CASE ~fingerprint_only
  <2>1. /\ Len(incidents') \in {Len(incidents), Len(incidents) + 1}
        /\ OpenIdAfter(c, o.level, o.alarm) \in 0..Len(incidents')
    <3>1. CASE ~ShouldHaveIncident(o.level, o.alarm)
      BY <1>2, <1>3, <1>5, <3>1 DEF IncidentsAfter, OpenIdAfter
    <3>2. CASE ShouldHaveIncident(o.level, o.alarm) /\ open_ids[c] = 0
      BY <1>2, <1>3, <1>5, <3>2 DEF IncidentsAfter, OpenIdAfter
    <3>3. CASE ShouldHaveIncident(o.level, o.alarm) /\ open_ids[c] # 0
      BY <1>2, <1>3, <1>5, <3>3 DEF IncidentsAfter, OpenIdAfter
    <3>4. QED
      BY <3>1, <3>2, <3>3
  <2>2. QED
    BY <1>1, <1>2, <1>5, <2>1 DEF HandleClosedWindow
<1>6. QED
  BY <1>1, <1>4, <1>5

(* The window an event closes, and the one the sweep handles next.          *)
LEMMA ClosedType ==
  ASSUME TypeOK, Reading, Delivered
  PROVE  /\ \A c \in Clients : acc[c] # NoWindow =>
              acc[c] \in Accumulator /\ acc[c].entries \subseteq Id
         /\ \A c \in Clients : violations[c] \subseteq Id
         /\ 1..delivered \subseteq Id
         /\ \A i \in 1..Len(closing) :
              /\ closing[i].client \in Clients
              /\ closing[i].window \in Accumulator
              /\ closing[i].window.entries \subseteq Id
<1>1. 1..delivered \subseteq Id
  BY WorkerAssumption DEF TypeOK, Reading, Id
<1>2. \A i \in 1..Len(closing) :
        closing[i] \in [client : Clients, window : Accumulator]
  <2>1. closing \in Seq([client : Clients, window : Accumulator])
    BY DEF TypeOK
  <2>2. QED
    BY <2>1, ElementParts
<1>3. \A c \in Clients : acc[c] # NoWindow =>
        acc[c] \in Accumulator /\ acc[c].entries \subseteq Id
  <2>1. \A c \in Clients : acc[c] \in Accumulator \cup {NoWindow}
    BY DEF TypeOK
  <2>2. QED
    BY <1>1, <2>1 DEF Delivered
<1>4. \A c \in Clients : violations[c] \subseteq Id
  BY <1>1 DEF TypeOK
<1>5. \A i \in 1..Len(closing) : closing[i].window.entries \subseteq Id
  BY <1>1 DEF Delivered
<1>6. QED
  BY <1>1, <1>2, <1>3, <1>4, <1>5

(* An event that closes a window.                                           *)
LEMMA RollsType ==
  ASSUME TypeOK, Reading, Delivered, batch # <<>>, NEW o \in Outcomes,
         OnEventRolls(Head(batch), o)
  PROVE  TypeOK'
<1> DEFINE id == Head(batch)
           c == stream[id].client
<1>1. c \in Clients /\ batch' \in Seq(1..delivered)
  BY NextEntry DEF OnEventRolls, Consume
<1>2. /\ acc' \in [Clients -> Accumulator \cup {NoWindow}]
      /\ known' \subseteq Clients
      /\ Seen(c, id) \subseteq 1..delivered
      /\ routed_at' \in [Id -> Nat]
      /\ acc[c] \in Accumulator
  BY RoutedType DEF OnEventRolls
<1>3. violations' \in [Clients -> SUBSET (1..delivered)]
  BY <1>1 DEF OnEventRolls, TypeOK, BufferPopped
<1>4. ingest' \in {"ask", "route"}
  BY DEF OnEventRolls, Consume
<1>5. /\ Seen(c, id) \subseteq Id /\ acc[c].entries \subseteq Id
      /\ o.stage = "done" /\ HandleClosedWindow(c, acc[c], Seen(c, id), o)
  BY <1>1, <1>2, ClosedType DEF OnEventRolls, Rolls
<1>6. /\ rows' \in Seq(Row) /\ incidents' \in Seq(Incident)
      /\ verdictp' \in [Clients -> Levels \cup {NoVerdict}]
      /\ open_ids' \in [Clients -> 0..Len(incidents')]
  BY <1>1, <1>2, <1>5, HandledType
<1>7. QED
  BY <1>1, <1>2, <1>3, <1>4, <1>6 DEF TypeOK, OnEventRolls, group

(* Or fails to.                                                             *)
LEMMA EventFailsType ==
  ASSUME TypeOK, Reading, Delivered, batch # <<>>, NEW o \in Outcomes,
         OnEventFails(Head(batch), o)
  PROVE  TypeOK'
<1> DEFINE id == Head(batch)
           c == stream[id].client
<1>1. c \in Clients
  BY NextEntry
<1>2. /\ Seen(c, id) \subseteq 1..delivered
      /\ routed_at' \in [Id -> Nat]
      /\ acc[c] \in Accumulator
  BY RoutedType DEF OnEventFails
<1>3. /\ Seen(c, id) \subseteq Id /\ acc[c].entries \subseteq Id
      /\ Persist(c, acc[c], Seen(c, id), o.level, o.alarm, o.stage)
  BY <1>1, <1>2, ClosedType DEF OnEventFails, Rolls
<1>4. /\ rows' \in Seq(Row) /\ incidents' \in Seq(Incident)
      /\ verdictp' \in [Clients -> Levels \cup {NoVerdict}]
  BY <1>1, <1>2, <1>3, PersistType
<1>5. QED
  BY <1>2, <1>4, ForgetType DEF OnEventFails

(* The windows a sweep closes.                                              *)
LEMMA SweptParts ==
  ASSUME TypeOK, closing = <<>>, NEW order \in SetToSeqs(StaleClients),
         StartSweep(order)
  PROVE  /\ closing' \in Seq([client : Clients, window : Accumulator])
         /\ \A i \in 1..Len(closing') :
              /\ closing'[i].client \in StaleClients
              /\ closing'[i].window = acc[closing'[i].client]
         /\ \A i, j \in 1..Len(closing') :
              closing'[i].client = closing'[j].client => i = j
         /\ \A c \in StaleClients :
              \E i \in 1..Len(closing') : closing'[i].client = c
         /\ \A c \in StaleClients : acc[c] \in Accumulator
         /\ acc' \in [Clients -> Accumulator \cup {NoWindow}]
<1> DEFINE S == StaleClients
           n == Cardinality(S)
<1>1. /\ S \subseteq Clients
      /\ \A c \in S : acc[c] \in Accumulator
  BY DEF StaleClients, Stale, TypeOK
<1>2. IsFiniteSet(S) /\ n \in Nat
  BY <1>1, WorkerAssumption, FS_Subset, FS_CardinalityType
<1>3. /\ order \in [1..n -> S]
      /\ \A i, j \in 1..n : i # j => order[i] # order[j]
  BY DEF SetToSeqs
<1>4. \A c \in S : \E i \in 1..n : order[i] = c
  <2>1. IsFiniteSet(1..n) /\ Cardinality(1..n) = n
    BY <1>2, FS_Interval
  <2>2. order \in Injection(1..n, S)
    BY <1>3 DEF Injection, IsInjective
  <2>3. order \in Surjection(1..n, S)
    BY <1>2, <2>1, <2>2, FS_Injection
  <2>4. QED
    BY <2>3 DEF Surjection
<1>5. DOMAIN order = 1..n
  BY <1>3
<1>6. closing' = [i \in 1..n |-> [client |-> order[i],
                                  window |-> acc[order[i]]]]
  BY <1>5 DEF StartSweep
<1>7. \A i \in 1..n : [client |-> order[i], window |-> acc[order[i]]]
                        \in [client : Clients, window : Accumulator]
  BY <1>1, <1>3
<1>8. /\ closing' \in Seq([client : Clients, window : Accumulator])
      /\ Len(closing') = n
  <2>1. closing' \in [1..n -> [client : Clients, window : Accumulator]]
    BY <1>6, <1>7
  <2> HIDE DEF n
  <2>2. QED
    BY <1>2, <2>1, FunctionParts
<1>9. acc' \in [Clients -> Accumulator \cup {NoWindow}]
  BY DEF TypeOK, StartSweep
<1>10. \A i \in 1..n : /\ closing'[i].client = order[i]
                        /\ closing'[i].window = acc[order[i]]
  BY <1>6
<1> HIDE DEF n, S
<1>11. /\ \A i \in 1..n : /\ closing'[i].client \in S
                           /\ closing'[i].window = acc[closing'[i].client]
       /\ \A c \in S : \E i \in 1..n : closing'[i].client = c
  BY <1>3, <1>4, <1>10
<1>12. \A i, j \in 1..n : closing'[i].client = closing'[j].client => i = j
  BY <1>3, <1>10
<1>13. QED
  BY <1>1, <1>8, <1>9, <1>11, <1>12 DEF S

(* The sweep.                                                               *)
LEMMA SweepType ==
  ASSUME TypeOK, NEW order \in SetToSeqs(StaleClients), StartSweep(order)
  PROVE  TypeOK'
<1>1. /\ closing' \in Seq([client : Clients, window : Accumulator])
      /\ acc' \in [Clients -> Accumulator \cup {NoWindow}]
  BY SweptParts DEF StartSweep
<1>2. QED
  BY <1>1 DEF TypeOK, StartSweep, group, reader, persisted, history

(* The handling of the windows it closed.                                   *)
LEMMA SweptType ==
  ASSUME TypeOK, Reading, Delivered, closing # <<>>, NEW o \in Outcomes,
         HandleSwept(o) \/ SweepFails(o)
  PROVE  TypeOK'
<1> DEFINE c == Head(closing).client
           w == Head(closing).window
<1>1. /\ closing \in Seq([client : Clients, window : Accumulator])
      /\ Len(closing) \in Nat \ {0} /\ Head(closing) = closing[1]
      /\ Tail(closing) \in Seq([client : Clients, window : Accumulator])
  BY TailParts DEF TypeOK
<1>2. /\ c \in Clients /\ w \in Accumulator /\ w.entries \subseteq Id
      /\ violations[c] \subseteq Id
  BY <1>1, ClosedType
<1>3. CASE HandleSwept(o)
  <2>1. o.stage = "done" /\ HandleClosedWindow(c, w, violations[c], o)
    BY <1>3 DEF HandleSwept
  <2>2. /\ rows' \in Seq(Row) /\ incidents' \in Seq(Incident)
        /\ verdictp' \in [Clients -> Levels \cup {NoVerdict}]
        /\ open_ids' \in [Clients -> 0..Len(incidents')]
    BY <1>2, <2>1, HandledType
  <2>3. violations' \in [Clients -> SUBSET (1..delivered)]
    BY <1>2, <1>3 DEF HandleSwept, TypeOK, BufferPopped
  <2>4. QED
    BY <1>1, <1>3, <2>2, <2>3 DEF TypeOK, HandleSwept, group, reader, history
<1>4. CASE SweepFails(o)
  <2>1. /\ Persist(c, w, violations[c], o.level, o.alarm, o.stage)
        /\ routed_at' \in [Id -> Nat]
    BY <1>4 DEF SweepFails, TypeOK
  <2>2. /\ rows' \in Seq(Row) /\ incidents' \in Seq(Incident)
        /\ verdictp' \in [Clients -> Levels \cup {NoVerdict}]
    BY <1>2, <2>1, PersistType
  <2>3. QED
    BY <1>4, <2>1, <2>2, ForgetType DEF SweepFails
<1>5. QED
  BY <1>3, <1>4

(* The end of the process.                                                  *)
LEMMA CrashType ==
  ASSUME TypeOK, Crash
  PROVE  TypeOK'
<1>1. /\ UNCHANGED <<fingerprint_only, now, stream, group, dead>>
      /\ rows' \in Seq(Row) /\ incidents' \in Seq(Incident)
      /\ verdictp' \in [Clients -> Levels \cup {NoVerdict}]
      /\ routed_at' \in [Id -> Nat]
  BY DEF TypeOK, Crash, persisted
<1>2. QED
  BY <1>1, ForgetType DEF Crash

-----------------------------------------------------------------------------
(* The reader, and what windows hold.                                       *)

(* The rows after the handling of a window.                                 *)
LEMMA RowsAfter ==
  ASSUME TypeOK, NEW c \in Clients, NEW w \in Accumulator,
         NEW seen \in SUBSET Id, NEW o \in Outcomes, w.entries \subseteq Id,
         Persist(c, w, seen, o.level, o.alarm, o.stage)
  PROVE  /\ Len(rows) \in Nat /\ Len(rows') \in {Len(rows), Len(rows) + 1}
         /\ DOMAIN rows = 1..Len(rows) /\ DOMAIN rows' = 1..Len(rows')
         /\ \A i \in 1..Len(rows) : rows'[i] = rows[i]
         /\ ~Commits(o.stage) => rows' = rows
         /\ Commits(o.stage) => Len(rows') = Len(rows) + 1
         /\ Len(rows') = Len(rows) + 1 =>
              rows'[Len(rows) + 1] = RowOf(c, w, seen, o.level, o.alarm)
<1> DEFINE r == RowOf(c, w, seen, o.level, o.alarm)
<1>1. r \in Row /\ rows \in Seq(Row)
  BY DEF RowOf, Row, Accumulator, Outcomes, TypeOK
<1>2. rows' = IF Commits(o.stage) THEN Append(rows, r) ELSE rows
  BY DEF Persist
<1>3. rows' \in Seq(Row)
  BY PersistType
<1> HIDE DEF r
<1>4. /\ Len(rows) \in Nat /\ DOMAIN rows = 1..Len(rows)
      /\ DOMAIN rows' = 1..Len(rows')
  BY <1>1, <1>3, ElementParts
<1>5. CASE Commits(o.stage)
  <2>1. /\ Len(rows') = Len(rows) + 1 /\ rows'[Len(rows) + 1] = r
        /\ \A i \in 1..Len(rows) : rows'[i] = rows[i]
    BY <1>1, <1>2, <1>5, AppendParts
  <2>2. QED
    BY <1>4, <1>5, <2>1 DEF r
<1>6. CASE ~Commits(o.stage)
  <2>1. rows' = rows
    BY <1>2, <1>6
  <2>2. Len(rows') = Len(rows)
    BY <2>1
  <2>3. Len(rows) # Len(rows) + 1
    <3>1. \A n \in Nat : n # n + 1
      OBVIOUS
    <3>2. QED
      BY <1>4, <3>1
  <2>4. QED
    BY <1>4, <1>6, <2>1, <2>2, <2>3
<1>7. QED
  BY <1>5, <1>6

(* Reading, when neither the stream nor the reader changes.                 *)
LEMMA ReadingKept ==
  ASSUME Reading, stream' = stream, batch' = batch, inbox' = inbox,
         ingest' = ingest
  PROVE  Reading'
<1>1. QED
  BY DEF Reading

(* And after the end of the process.                                        *)
LEMMA ReadingForgotten ==
  ASSUME Reading, stream' = stream, Forget
  PROVE  Reading'
<1>1. QED
  BY DEF Reading, Forget

(* The reader keeps to its steps.                                           *)
LEMMA ReadingStep ==
  ASSUME TypeOK, Reading, Next
  PROVE  Reading'
<1>1. CASE Advance
  BY <1>1, ReadingKept DEF Advance, reader
<1>2. ASSUME NEW c \in Clients \cup {NoClient}, NEW kind \in Kinds,
             Emit(c, kind)
      PROVE  Reading'
  <2> DEFINE e == [client |-> c, ts |-> now, kind |-> kind]
  <2>1. e \in Entry /\ stream \in Seq(Entry) /\ Len(stream) \in Nat
    BY DEF TypeOK, Entry
  <2>2. stream' = Append(stream, e)
    BY <1>2 DEF Emit
  <2>3. e.kind = "malformed" <=> e.client = NoClient
    BY <1>2 DEF Emit
  <2> HIDE DEF e
  <2>4. /\ Len(stream') = Len(stream) + 1 /\ stream'[Len(stream) + 1] = e
        /\ \A i \in 1..Len(stream) : stream'[i] = stream[i]
    BY <2>1, <2>2, AppendParts
  <2>5. Len(stream') <= MaxEvents
    BY <1>2, <2>1, <2>4, WorkerAssumption DEF Emit
  <2>6. \A i \in 1..Len(stream') :
          stream'[i].kind = "malformed" <=> stream'[i].client = NoClient
    BY <2>1, <2>3, <2>4 DEF Reading
  <2>7. \A i \in 1..Len(batch) : batch[i] \in 1..Len(stream)
    <3>1. /\ batch \in Seq(1..delivered)
          /\ 1..delivered \subseteq 1..Len(stream)
      BY Types
    <3>2. QED
      BY <3>1, ElementParts
  <2>8. \A i \in 1..Len(batch) : stream'[batch[i]].client \in Clients
    BY <2>4, <2>7 DEF Reading
  <2>9. batch' = batch /\ inbox' = inbox /\ ingest' = ingest
    BY <1>2 DEF Emit, reader
  <2>10. QED
    BY <2>5, <2>6, <2>8, <2>9 DEF Reading
<1>3. CASE Crash
  BY <1>3, ReadingForgotten DEF Crash
<1>4. CASE XReadGroup
  BY <1>4 DEF Reading, XReadGroup
<1>5. CASE ParseEntry
  <2> DEFINE id == Head(inbox)
  <2>1. id \in 1..delivered /\ batch \in Seq(1..delivered)
    BY <1>5, Types, TailParts DEF ParseEntry
  <2>2. id \in 1..Len(stream)
    BY <2>1, Types
  <2>3. stream[id] \in Entry
    BY <2>2, Types, ElementParts
  <2>4. stream[id].kind # "malformed" => stream[id].client \in Clients
    BY <2>2, <2>3 DEF Reading, Entry
  <2>5. /\ stream' = stream /\ ingest' = ingest /\ ingest = "read"
        /\ batch' = IF stream[id].kind = "malformed" THEN batch
                                                    ELSE Append(batch, id)
    BY <1>5 DEF ParseEntry
  <2> HIDE DEF id
  <2>6. \A i \in 1..Len(batch') : stream[batch'[i]].client \in Clients
    <3>1. CASE stream[id].kind = "malformed"
      BY <2>5, <3>1 DEF Reading
    <3>2. CASE stream[id].kind # "malformed"
      <4>1. /\ Len(batch') = Len(batch) + 1 /\ Len(batch) \in Nat
            /\ \A i \in 1..Len(batch) : batch'[i] = batch[i]
            /\ batch'[Len(batch) + 1] = id
        BY <2>1, <2>5, <3>2, AppendParts
      <4>2. QED
        BY <2>4, <3>2, <4>1 DEF Reading
    <3>3. QED
      BY <3>1, <3>2
  <2>7. QED
    BY <2>5, <2>6 DEF Reading
<1>6. CASE XAck
  BY <1>6 DEF Reading, XAck
<1>7. ASSUME batch # <<>>, Consume, TakeNext(Head(batch)),
             stream' = stream, inbox' = inbox
      PROVE  Reading'
  <2>1. /\ batch' = Tail(batch) /\ Len(batch) \in Nat \ {0}
        /\ Len(batch') = Len(batch) - 1
        /\ \A i \in 1..(Len(batch) - 1) : batch'[i] = batch[i + 1]
    BY <1>7, NextEntry DEF Consume
  <2>2. \A i \in 1..Len(batch') : stream[batch'[i]].client \in Clients
    <3>1. TAKE i \in 1..Len(batch')
    <3>2. i + 1 \in 1..Len(batch) /\ batch'[i] = batch[i + 1]
      BY <2>1
    <3>3. QED
      BY <3>2 DEF Reading
  <2>3. /\ ingest \in {"ready", "route"}
        /\ ingest' = IF batch' = <<>> THEN "ask" ELSE "route"
    BY <1>7 DEF Consume, TakeNext
  <2>4. QED
    BY <1>7, <2>2, <2>3 DEF Reading
<1>8. ASSUME batch # <<>>, OnEvent(Head(batch))
      PROVE  Reading'
  BY <1>7, <1>8 DEF OnEvent
<1>9. ASSUME batch # <<>>, NEW o \in Outcomes, OnEventRolls(Head(batch), o)
      PROVE  Reading'
  BY <1>7, <1>9 DEF OnEventRolls
<1>10. ASSUME NEW o \in Outcomes,
              OnEventFails(Head(batch), o) \/ SweepFails(o)
       PROVE  Reading'
  BY <1>10, ReadingForgotten DEF OnEventFails, SweepFails
<1>11. ASSUME NEW order \in SetToSeqs(StaleClients), StartSweep(order)
       PROVE  Reading'
  BY <1>11, ReadingKept DEF StartSweep, reader
<1>12. ASSUME NEW o \in Outcomes, HandleSwept(o)
       PROVE  Reading'
  BY <1>12, ReadingKept DEF HandleSwept, reader
<1>13. QED
  BY <1>1, <1>2, <1>3, <1>4, <1>5, <1>6, <1>8, <1>9, <1>10, <1>11, <1>12
     DEF Next

(* The entries of an accumulator after an event.                            *)
LEMMA AfterEventParts ==
  ASSUME NEW w \in Accumulator \cup {NoWindow}, NEW id \in Nat, NEW ts \in Nat
  PROVE  /\ AfterEvent(w, id, ts) # NoWindow
         /\ id \in AfterEvent(w, id, ts).entries
         /\ \A x \in AfterEvent(w, id, ts).entries :
              x = id \/ (w # NoWindow /\ x \in w.entries)
         /\ w = NoWindow => AfterEvent(w, id, ts).window_start = ts
         /\ Rolls(w, ts) =>
              /\ AfterEvent(w, id, ts).entries = {id}
              /\ AfterEvent(w, id, ts).window_start <= ts
         /\ w # NoWindow /\ ~Rolls(w, ts) =>
              /\ AfterEvent(w, id, ts).window_start = w.window_start
              /\ AfterEvent(w, id, ts).entries = w.entries \cup {id}
<1>1. AfterEvent(w, id, ts) # NoWindow
  BY AfterEventType, WindowAssumption
<1>2. CASE w = NoWindow
  BY <1>1, <1>2 DEF AfterEvent, Rolls
<1>3. CASE Rolls(w, ts)
  <2>1. w # NoWindow /\ w \in Accumulator
    BY <1>3 DEF Rolls
  <2>2. w.window_start + WindowLen <= ts
    BY <1>3, <2>1, WindowAssumption DEF Rolls, Accumulator
  <2>3. AfterEvent(w, id, ts) =
          [window_start |-> w.window_start + WindowLen, entries |-> {id}]
    BY <1>3, <2>1 DEF AfterEvent
  <2>4. QED
    BY <1>1, <1>3, <2>1, <2>2, <2>3
<1>4. CASE w # NoWindow /\ ~Rolls(w, ts)
  <2>1. AfterEvent(w, id, ts) = [w EXCEPT !.entries = @ \cup {id}]
    BY <1>4 DEF AfterEvent
  <2>2. QED
    BY <1>1, <1>4, <2>1 DEF Accumulator
<1>5. QED
  BY <1>2, <1>3, <1>4

(* What the routing of an event does to the windows.                        *)
Routes(c, id) ==
  /\ id = Head(batch)
  /\ c = stream[id].client
  /\ acc' = [acc EXCEPT ![c] = AfterEvent(@, id, stream[id].ts)]

(* The client's window is the one it makes, and no other changes.           *)
LEMMA RoutedParts ==
  ASSUME TypeOK, Reading, batch # <<>>, NEW c, NEW id, Routes(c, id)
  PROVE  /\ c \in Clients /\ id \in 1..delivered /\ id \in Nat /\ id \in Id
         /\ stream[id].ts \in Nat /\ acc[c] \in Accumulator \cup {NoWindow}
         /\ acc'[c] = AfterEvent(acc[c], id, stream[id].ts)
         /\ \A d \in Clients : d # c => acc'[d] = acc[d]
         /\ \A x \in acc'[c].entries :
              x = id \/ (acc[c] # NoWindow /\ x \in acc[c].entries)
<1>1. /\ c \in Clients /\ id \in 1..delivered /\ id \in Nat /\ id \in Id
      /\ stream[id].ts \in Nat
  BY NextEntry, Types DEF Routes
<1>2. acc \in [Clients -> Accumulator \cup {NoWindow}]
  BY Types
<1>3. /\ acc[c] \in Accumulator \cup {NoWindow}
      /\ acc'[c] = AfterEvent(acc[c], id, stream[id].ts)
      /\ \A d \in Clients : d # c => acc'[d] = acc[d]
  BY <1>1, <1>2 DEF Routes
<1>4. \A x \in acc'[c].entries :
        x = id \/ (acc[c] # NoWindow /\ x \in acc[c].entries)
  <2> DEFINE w  == acc[c]
             ts == stream[id].ts
  <2>1. w \in Accumulator \cup {NoWindow} /\ id \in Nat /\ ts \in Nat
    BY <1>1, <1>3
  <2> HIDE DEF w, ts
  <2>2. \A x \in AfterEvent(w, id, ts).entries :
          x = id \/ (w # NoWindow /\ x \in w.entries)
    BY <2>1, AfterEventParts
  <2>3. QED
    BY <1>3, <2>2 DEF w, ts
<1>5. QED
  BY <1>1, <1>3, <1>4

(* Windows hold delivered entries: when those of the accumulators and of    *)
(* the sweep are kept or dropped, and one may have become a row.            *)
LEMMA DeliveredKept ==
  ASSUME TypeOK, Reading, Delivered, delivered' = delivered,
         NEW c \in Clients, NEW w \in Accumulator,
         NEW seen \in SUBSET Id, NEW o \in Outcomes,
         w.entries \subseteq 1..delivered, seen \subseteq 1..delivered,
         Persist(c, w, seen, o.level, o.alarm, o.stage)
  PROVE  \A i \in 1..Len(rows') :
           /\ rows'[i].entries \subseteq 1..delivered
           /\ rows'[i].violations \subseteq 1..delivered
<1>1. w.entries \subseteq Id
  BY ClosedType
<1>2. /\ Len(rows) \in Nat /\ Len(rows') \in {Len(rows), Len(rows) + 1}
      /\ \A i \in 1..Len(rows) : rows'[i] = rows[i]
      /\ Len(rows') = Len(rows) + 1 =>
              rows'[Len(rows) + 1] = RowOf(c, w, seen, o.level, o.alarm)
  BY <1>1, RowsAfter
<1>3. /\ RowOf(c, w, seen, o.level, o.alarm).entries = w.entries
      /\ RowOf(c, w, seen, o.level, o.alarm).violations = seen
  BY DEF RowOf
<1>4. \A i \in 1..Len(rows') :
        i \in 1..Len(rows) \/ (i = Len(rows) + 1 /\ Len(rows') = i)
  BY <1>2, OneMore
<1>5. \A i \in 1..Len(rows) :
        /\ rows'[i].entries \subseteq 1..delivered
        /\ rows'[i].violations \subseteq 1..delivered
  BY <1>2 DEF Delivered
<1>6. Len(rows') = Len(rows) + 1 =>
        /\ rows'[Len(rows) + 1].entries \subseteq 1..delivered
        /\ rows'[Len(rows) + 1].violations \subseteq 1..delivered
  BY <1>2, <1>3
<1>7. QED
  BY <1>4, <1>5, <1>6

(* The window an event closes.                                              *)
LEMMA ClosesWindow ==
  ASSUME TypeOK, Reading, Delivered, batch # <<>>, NEW c, NEW id,
         id = Head(batch), c = stream[id].client,
         Rolls(acc[c], stream[id].ts)
  PROVE  /\ c \in Clients /\ id \in 1..delivered /\ id \in Id
         /\ acc[c] \in Accumulator /\ acc[c] # NoWindow
         /\ acc[c].entries \subseteq 1..delivered
         /\ acc[c].entries \subseteq Id
         /\ Seen(c, id) \in SUBSET Id /\ Seen(c, id) \subseteq 1..delivered
<1>1. /\ c \in Clients /\ id \in 1..delivered /\ id \in Id
      /\ acc[c] \in Accumulator
      /\ Seen(c, id) \subseteq 1..delivered
  BY RoutedType, NextEntry
<1>2. acc[c] # NoWindow
  BY DEF Rolls
<1>3. QED
  BY <1>1, <1>2, ClosedType DEF Delivered

(* And the one the sweep handles next.                                      *)
LEMMA SweptWindow ==
  ASSUME TypeOK, Reading, Delivered, closing # <<>>
  PROVE  /\ Head(closing) = closing[1] /\ Head(closing).client \in Clients
         /\ Head(closing).window \in Accumulator
         /\ Head(closing).window.entries \subseteq 1..delivered
         /\ Head(closing).window.entries \subseteq Id
         /\ violations[Head(closing).client] \in SUBSET Id
         /\ violations[Head(closing).client] \subseteq 1..delivered
         /\ Len(closing) \in Nat \ {0}
         /\ Len(Tail(closing)) = Len(closing) - 1
         /\ \A i \in 1..(Len(closing) - 1) : Tail(closing)[i] = closing[i + 1]
<1>1. closing \in Seq([client : Clients, window : Accumulator])
  BY Types
<1>2. /\ Head(closing) = closing[1] /\ Len(closing) \in Nat \ {0}
      /\ Len(Tail(closing)) = Len(closing) - 1
      /\ \A i \in 1..(Len(closing) - 1) : Tail(closing)[i] = closing[i + 1]
  BY <1>1, TailParts
<1>3. 1 \in 1..Len(closing)
  BY <1>2
<1>4. /\ closing[1].client \in Clients /\ closing[1].window \in Accumulator
      /\ closing[1].window.entries \subseteq 1..delivered
      /\ closing[1].window.entries \subseteq Id
  BY <1>3, ClosedType DEF Delivered
<1>5. violations[closing[1].client] \subseteq 1..delivered
  BY <1>4, Types
<1>6. QED
  BY <1>2, <1>4, <1>5, ClosedType

(* Windows go on holding delivered entries.                                 *)
LEMMA DeliveredStep ==
  ASSUME TypeOK, Reading, Delivered, Next
  PROVE  Delivered'
<1>1. ASSUME UNCHANGED <<delivered, acc, closing, rows>>
      PROVE  Delivered'
  BY <1>1 DEF Delivered
<1>2. CASE XReadGroup
  <2>1. 1..delivered \subseteq 1..delivered'
    BY <1>2, ReadType, Types
  <2>2. acc' = acc /\ closing' = closing /\ rows' = rows
    BY <1>2 DEF XReadGroup, scoring, persisted
  <2>3. QED
    BY <2>1, <2>2 DEF Delivered
<1>3. ASSUME Forget, delivered' = delivered,
             \A i \in 1..Len(rows') :
               /\ rows'[i].entries \subseteq 1..delivered
               /\ rows'[i].violations \subseteq 1..delivered
      PROVE  Delivered'
  BY <1>3 DEF Delivered, Forget
<1>4. ASSUME batch # <<>>, NEW c, NEW id, Routes(c, id)
      PROVE  \A d \in Clients :
               acc'[d] # NoWindow => acc'[d].entries \subseteq 1..delivered
  <2>1. /\ id \in 1..delivered /\ c \in Clients
        /\ \A d \in Clients : d # c => acc'[d] = acc[d]
        /\ \A x \in acc'[c].entries :
             x = id \/ (acc[c] # NoWindow /\ x \in acc[c].entries)
    BY <1>4, RoutedParts
  <2>2. acc[c] # NoWindow =>
          \A x \in acc[c].entries : x \in 1..delivered
    BY <2>1 DEF Delivered
  <2>3. \A x \in acc'[c].entries : x \in 1..delivered
    BY <2>1, <2>2
  <2>4. QED
    BY <2>1, <2>3 DEF Delivered
<1>5. ASSUME batch # <<>>, OnEvent(Head(batch))
      PROVE  Delivered'
  <2>1. /\ delivered' = delivered /\ closing' = closing /\ rows' = rows
        /\ Routes(stream[Head(batch)].client, Head(batch))
    BY <1>5 DEF OnEvent, Routes, group, persisted
  <2>2. QED
    BY <1>4, <1>5, <2>1 DEF Delivered
<1>6. ASSUME batch # <<>>, NEW o \in Outcomes, OnEventRolls(Head(batch), o)
      PROVE  Delivered'
  <2> DEFINE id == Head(batch)
             c == stream[id].client
  <2>1. /\ c \in Clients /\ Seen(c, id) \in SUBSET Id
        /\ Seen(c, id) \subseteq 1..delivered
        /\ acc[c] \in Accumulator /\ acc[c].entries \subseteq 1..delivered
    BY <1>6, ClosesWindow DEF OnEventRolls
  <2>2. /\ delivered' = delivered /\ closing' = closing
        /\ Routes(c, id)
        /\ Persist(c, acc[c], Seen(c, id), o.level, o.alarm, o.stage)
    BY <1>6 DEF OnEventRolls, Routes, group, HandleClosedWindow
  <2>3. \A i \in 1..Len(rows') :
          /\ rows'[i].entries \subseteq 1..delivered
          /\ rows'[i].violations \subseteq 1..delivered
    BY <2>1, <2>2, DeliveredKept
  <2>4. QED
    BY <1>4, <1>6, <2>1, <2>2, <2>3 DEF Delivered
<1>7. ASSUME batch # <<>>, NEW o \in Outcomes, OnEventFails(Head(batch), o)
      PROVE  Delivered'
  <2> DEFINE id == Head(batch)
             c == stream[id].client
  <2>1. /\ c \in Clients /\ Seen(c, id) \in SUBSET Id
        /\ Seen(c, id) \subseteq 1..delivered
        /\ acc[c] \in Accumulator /\ acc[c].entries \subseteq 1..delivered
    BY <1>7, ClosesWindow DEF OnEventFails
  <2>2. /\ delivered' = delivered /\ Forget
        /\ Persist(c, acc[c], Seen(c, id), o.level, o.alarm, o.stage)
    BY <1>7 DEF OnEventFails, group
  <2>3. \A i \in 1..Len(rows') :
          /\ rows'[i].entries \subseteq 1..delivered
          /\ rows'[i].violations \subseteq 1..delivered
    BY <2>1, <2>2, DeliveredKept
  <2>4. QED
    BY <1>3, <2>2, <2>3
<1>8. ASSUME NEW order \in SetToSeqs(StaleClients), StartSweep(order)
      PROVE  Delivered'
  <2>1. /\ closing = <<>> /\ delivered' = delivered /\ rows' = rows
        /\ acc' = [c \in Clients |->
                     IF c \in StaleClients THEN NoWindow ELSE acc[c]]
    BY <1>8 DEF StartSweep, group, persisted
  <2>2. \A i \in 1..Len(closing') :
          /\ closing'[i].client \in StaleClients
          /\ closing'[i].window = acc[closing'[i].client]
    BY <1>8, <2>1, SweptParts
  <2>3. \A c \in StaleClients : c \in Clients /\ acc[c] # NoWindow
    BY DEF StaleClients, Stale
  <2>4. QED
    BY <2>1, <2>2, <2>3 DEF Delivered
<1>9. ASSUME closing # <<>>, NEW o \in Outcomes, HandleSwept(o)
      PROVE  Delivered'
  <2> DEFINE c == Head(closing).client
             w == Head(closing).window
  <2>1. /\ c \in Clients /\ w \in Accumulator
        /\ w.entries \subseteq 1..delivered /\ violations[c] \in SUBSET Id
        /\ violations[c] \subseteq 1..delivered
        /\ Len(closing) \in Nat \ {0}
        /\ Len(Tail(closing)) = Len(closing) - 1
        /\ \A i \in 1..(Len(closing) - 1) : Tail(closing)[i] = closing[i + 1]
    BY <1>9, SweptWindow
  <2>2. /\ delivered' = delivered /\ acc' = acc /\ closing' = Tail(closing)
        /\ Persist(c, w, violations[c], o.level, o.alarm, o.stage)
    BY <1>9 DEF HandleSwept, group, HandleClosedWindow
  <2>3. \A i \in 1..Len(rows') :
          /\ rows'[i].entries \subseteq 1..delivered
          /\ rows'[i].violations \subseteq 1..delivered
    BY <2>1, <2>2, DeliveredKept
  <2>4. \A i \in 1..Len(closing') :
          closing'[i].window.entries \subseteq 1..delivered
    <3>1. TAKE i \in 1..Len(closing')
    <3>2. i + 1 \in 1..Len(closing) /\ closing'[i] = closing[i + 1]
      BY <2>1, <2>2
    <3>3. QED
      BY <3>2 DEF Delivered
  <2>5. QED
    BY <2>2, <2>3, <2>4 DEF Delivered
<1>10. ASSUME closing # <<>>, NEW o \in Outcomes, SweepFails(o)
       PROVE  Delivered'
  <2> DEFINE c == Head(closing).client
             w == Head(closing).window
  <2>1. /\ c \in Clients /\ w \in Accumulator
        /\ w.entries \subseteq 1..delivered /\ violations[c] \in SUBSET Id
        /\ violations[c] \subseteq 1..delivered
    BY <1>10, SweptWindow
  <2>2. /\ delivered' = delivered /\ Forget
        /\ Persist(c, w, violations[c], o.level, o.alarm, o.stage)
    BY <1>10 DEF SweepFails, group
  <2>3. \A i \in 1..Len(rows') :
          /\ rows'[i].entries \subseteq 1..delivered
          /\ rows'[i].violations \subseteq 1..delivered
    BY <2>1, <2>2, DeliveredKept
  <2>4. QED
    BY <1>3, <2>2, <2>3
<1>11. CASE Crash
  BY <1>3, <1>11 DEF Crash, group, persisted, Delivered
<1>12. ASSUME NEW c, NEW kind, Emit(c, kind)
       PROVE  Delivered'
  BY <1>1, <1>12 DEF Emit, group, scoring, persisted
<1>13. CASE Advance \/ ParseEntry \/ XAck
  BY <1>1, <1>13
     DEF Advance, ParseEntry, XAck, group, scoring, persisted
<1>14. QED
  BY <1>2, <1>5, <1>6, <1>7, <1>8, <1>9, <1>10, <1>11, <1>12, <1>13 DEF Next

-----------------------------------------------------------------------------
(* The clocks.                                                              *)

(* A window kept: what routing an entry, or the passing of time, leaves of  *)
(* it.                                                                      *)
WindowClock(c) ==
  /\ acc[c].window_start <= now
  /\ \A id \in acc[c].entries :
       /\ acc[c].window_start <= routed_at[id]
       /\ \/ last_sweep <= routed_at[id]
          \/ last_sweep < acc[c].window_start + WindowLen + IdleGrace

(* The window of another client does not mind that an entry is routed.      *)
LEMMA OtherClock ==
  ASSUME TypeOK, Reading, Delivered, Clocks, NEW c \in Clients, NEW id \in Id,
         acc[c] # NoWindow, acc'[c] = acc[c],
         routed_at' = [routed_at EXCEPT ![id] = now],
         last_sweep' = last_sweep, now' = now
  PROVE  WindowClock(c)'
<1>1. /\ routed_at \in [Id -> Nat] /\ now \in Nat /\ last_sweep \in Nat
      /\ acc[c].entries \subseteq Id
  BY Types, ClosedType
<1>2. /\ last_sweep <= now /\ acc[c].window_start <= now
      /\ \A x \in acc[c].entries :
           /\ acc[c].window_start <= routed_at[x]
           /\ \/ last_sweep <= routed_at[x]
              \/ last_sweep < acc[c].window_start + WindowLen + IdleGrace
  BY DEF Clocks
<1>3. \A x \in Id : routed_at'[x] = IF x = id THEN now ELSE routed_at[x]
  BY <1>1
<1>4. QED
  BY <1>1, <1>2, <1>3 DEF WindowClock

(* That of its client starts before now, wherever the entry goes.           *)
LEMMA OwnClock ==
  ASSUME TypeOK, Reading, Delivered, Clocks, batch # <<>>, NEW c, NEW id,
         Routes(c, id), routed_at' = [routed_at EXCEPT ![id] = now],
         last_sweep' = last_sweep, now' = now
  PROVE  WindowClock(c)'
<1> DEFINE w  == acc[c]
           ts == stream[id].ts
<1>1. /\ c \in Clients /\ id \in 1..delivered /\ id \in Nat /\ id \in Id
      /\ ts \in Nat /\ w \in Accumulator \cup {NoWindow}
      /\ acc'[c] = AfterEvent(w, id, ts)
  BY RoutedParts
<1>2. id \in 1..Len(stream)
  BY <1>1, Types
<1>3. /\ routed_at \in [Id -> Nat] /\ now \in Nat /\ last_sweep \in Nat
      /\ w # NoWindow => w.entries \subseteq Id
  BY <1>1, Types, ClosedType
<1>4. /\ last_sweep <= now /\ ts <= now
      /\ w # NoWindow =>
           /\ w.window_start <= now
           /\ \A x \in w.entries :
                /\ w.window_start <= routed_at[x]
                /\ \/ last_sweep <= routed_at[x]
                   \/ last_sweep < w.window_start + WindowLen + IdleGrace
  BY <1>1, <1>2 DEF Clocks
<1>5. \A x \in Id : routed_at'[x] = IF x = id THEN now ELSE routed_at[x]
  BY <1>3
<1> HIDE DEF w, ts
<1>6. CASE w = NoWindow \/ Rolls(w, ts)
  <2>1. /\ acc'[c].window_start <= ts
        /\ \A x \in acc'[c].entries : x = id
    <3>1. CASE w = NoWindow
      <4>1. /\ AfterEvent(w, id, ts).window_start = ts
            /\ \A x \in AfterEvent(w, id, ts).entries : x = id
        BY <1>1, <3>1, AfterEventParts
      <4>2. QED
        BY <1>1, <4>1
    <3>2. CASE Rolls(w, ts)
      <4>1. /\ AfterEvent(w, id, ts).entries = {id}
            /\ AfterEvent(w, id, ts).window_start <= ts
        BY <1>1, <3>2, AfterEventParts
      <4>2. QED
        BY <1>1, <4>1
    <3>3. QED
      BY <1>6, <3>1, <3>2
  <2>2. acc'[c] \in Accumulator
    BY <1>1, AfterEventType
  <2>3. acc'[c].window_start \in Nat
    BY <2>2 DEF Accumulator
  <2>4. QED
    BY <1>1, <1>3, <1>4, <1>5, <2>1, <2>3 DEF WindowClock
<1>7. CASE w # NoWindow /\ ~Rolls(w, ts)
  <2>1. /\ AfterEvent(w, id, ts).window_start = w.window_start
        /\ AfterEvent(w, id, ts).entries = w.entries \cup {id}
    BY <1>1, <1>7, AfterEventParts
  <2>2. /\ acc'[c].window_start = w.window_start
        /\ acc'[c].entries = w.entries \cup {id}
    BY <1>1, <2>1
  <2>3. QED
    BY <1>1, <1>3, <1>4, <1>5, <1>7, <2>2 DEF WindowClock
<1>8. QED
  BY <1>6, <1>7

(* The clocks go on agreeing.                                               *)
LEMMA ClocksStep ==
  ASSUME TypeOK, Reading, Delivered, Clocks, Next
  PROVE  Clocks'
<1>1. ASSUME UNCHANGED <<now, stream, acc, last_sweep, routed_at>>
      PROVE  Clocks'
  BY <1>1 DEF Clocks
<1>2. CASE Advance
  <2>1. /\ now' = now + 1 /\ now - last_sweep < SweepLate
        /\ UNCHANGED <<stream, acc, last_sweep, routed_at>>
    BY <1>2 DEF Advance, scoring, history
  <2>2. now \in Nat /\ last_sweep \in Nat /\ SweepLate \in Nat
    BY Types, WorkerAssumption
  <2>3. \A i \in 1..Len(stream) : stream[i].ts \in Nat
    <3>1. \A i \in 1..Len(stream) : stream[i] \in Entry
      BY Types, ElementParts
    <3>2. QED
      BY <3>1 DEF Entry
  <2>4. \A c \in Clients : acc[c] # NoWindow => acc[c].window_start \in Nat
    BY ClosedType DEF Accumulator
  <2>5. last_sweep' <= now' /\ now' <= last_sweep' + SweepLate
    BY <2>1, <2>2 DEF Clocks
  <2>6. \A i \in 1..Len(stream') : stream'[i].ts <= now'
    BY <2>1, <2>2, <2>3 DEF Clocks
  <2>7. \A c \in Clients : acc[c] # NoWindow => acc[c].window_start <= now'
    BY <2>1, <2>2, <2>4 DEF Clocks
  <2>8. QED
    BY <2>1, <2>5, <2>6, <2>7 DEF Clocks
<1>3. ASSUME NEW c \in Clients \cup {NoClient}, NEW kind \in Kinds,
             Emit(c, kind)
      PROVE  Clocks'
  <2> DEFINE e == [client |-> c, ts |-> now, kind |-> kind]
  <2>1. e \in Entry /\ stream \in Seq(Entry) /\ now \in Nat
    BY Types DEF Entry
  <2>2. /\ stream' = Append(stream, e) /\ e.ts = now
        /\ UNCHANGED <<now, acc, last_sweep, routed_at>>
    BY <1>3 DEF Emit, scoring, history
  <2> HIDE DEF e
  <2>3. /\ Len(stream') = Len(stream) + 1 /\ stream'[Len(stream) + 1] = e
        /\ \A i \in 1..Len(stream) : stream'[i] = stream[i]
        /\ Len(stream) \in Nat
    BY <2>1, <2>2, AppendParts
  <2>4. \A i \in 1..Len(stream') : stream'[i].ts <= now
    BY <2>1, <2>2, <2>3 DEF Clocks
  <2>5. QED
    BY <2>2, <2>4 DEF Clocks
<1>4. ASSUME Forget, now' = now, stream' = stream
      PROVE  Clocks'
  <2>1. now \in Nat /\ SweepLate \in Nat
    BY Types, WorkerAssumption
  <2>2. now <= now /\ now <= now + SweepLate
    BY <2>1
  <2>3. /\ last_sweep' = now /\ acc' = [c \in Clients |-> NoWindow]
    BY <1>4 DEF Forget
  <2>4. QED
    BY <1>4, <2>2, <2>3 DEF Clocks
<1>5. ASSUME batch # <<>>, NEW c, NEW id, Routes(c, id),
             UNCHANGED <<now, stream, last_sweep>>,
             routed_at' = [routed_at EXCEPT ![id] = now]
      PROVE  Clocks'
  <2>1. /\ c \in Clients /\ id \in Id
        /\ \A d \in Clients : d # c => acc'[d] = acc[d]
    BY <1>5, RoutedParts
  <2>2. WindowClock(c)'
    BY <1>5, OwnClock
  <2>3. ASSUME NEW d \in Clients, acc'[d] # NoWindow, d # c
        PROVE  WindowClock(d)'
    BY <1>5, <2>1, <2>3, OtherClock
  <2>4. \A d \in Clients : acc'[d] # NoWindow => WindowClock(d)'
    BY <2>2, <2>3
  <2>5. QED
    BY <1>5, <2>4 DEF Clocks, WindowClock
<1>6. ASSUME NEW order \in SetToSeqs(StaleClients), StartSweep(order)
      PROVE  Clocks'
  <2>1. /\ last_sweep' = now /\ UNCHANGED <<now, stream, routed_at>>
        /\ acc' = [c \in Clients |->
                     IF c \in StaleClients THEN NoWindow ELSE acc[c]]
    BY <1>6 DEF StartSweep, history
  <2>2. now \in Nat /\ SweepLate \in Nat
    BY Types, WorkerAssumption
  <2>3. now <= now /\ now <= now + SweepLate
    BY <2>2
  <2>4. ASSUME NEW c \in Clients, acc'[c] # NoWindow
        PROVE  WindowClock(c)'
    <3>1. acc'[c] = acc[c] /\ acc[c] # NoWindow /\ ~Stale(acc[c], now)
      BY <2>1, <2>4 DEF StaleClients
    <3>2. acc[c].window_start \in Nat
      BY <3>1, ClosedType DEF Accumulator
    <3>3. now < acc[c].window_start + WindowLen + IdleGrace
      BY <2>2, <3>1, <3>2, WindowAssumption DEF Stale
    <3>4. QED
      BY <2>1, <3>1, <3>3 DEF Clocks, WindowClock
  <2>5. QED
    BY <2>1, <2>3, <2>4 DEF Clocks, WindowClock
<1>7. ASSUME batch # <<>>, OnEvent(Head(batch))
      PROVE  Clocks'
  BY <1>5, <1>7 DEF OnEvent, Routes
<1>8. ASSUME batch # <<>>, NEW o \in Outcomes, OnEventRolls(Head(batch), o)
      PROVE  Clocks'
  BY <1>5, <1>8 DEF OnEventRolls, Routes
<1>9. ASSUME NEW o \in Outcomes, OnEventFails(Head(batch), o) \/ SweepFails(o)
      PROVE  Clocks'
  BY <1>4, <1>9 DEF OnEventFails, SweepFails
<1>10. CASE Crash
  BY <1>4, <1>10 DEF Crash
<1>11. ASSUME NEW o \in Outcomes, HandleSwept(o)
       PROVE  Clocks'
  BY <1>1, <1>11 DEF HandleSwept, history
<1>12. CASE XReadGroup \/ ParseEntry \/ XAck
  BY <1>1, <1>12 DEF XReadGroup, ParseEntry, XAck, scoring, history
<1>13. QED
  BY <1>2, <1>3, <1>6, <1>7, <1>8, <1>9, <1>10, <1>11, <1>12 DEF Next

(* Then every event is out of its window in time.                           *)
LEMMA InTime ==
  ASSUME TypeOK, Reading, Delivered, Clocks
  PROVE  ScoredInTime
<1> SUFFICES ASSUME NEW c \in Clients, acc[c] # NoWindow,
                    NEW id \in acc[c].entries
             PROVE  now < routed_at[id] + WindowLen + IdleGrace + SweepLate
  BY DEF ScoredInTime
<1>1. acc[c] \in Accumulator /\ id \in Id
  BY ClosedType
<1>2. /\ acc[c].window_start \in Nat /\ routed_at[id] \in Nat
      /\ now \in Nat /\ last_sweep \in Nat
  BY <1>1, Types DEF Accumulator
<1>3. /\ now <= last_sweep + SweepLate
      /\ acc[c].window_start <= routed_at[id]
      /\ \/ last_sweep <= routed_at[id]
         \/ last_sweep < acc[c].window_start + WindowLen + IdleGrace
  BY DEF Clocks
<1>4. QED
  BY <1>2, <1>3, WindowAssumption, WorkerAssumption

-----------------------------------------------------------------------------
(* Rows, verdicts and incidents.                                            *)

(* The greatest of some levels.                                             *)
LEMMA MaxParts ==
  ASSUME NEW S \in SUBSET ((-1)..4), NEW m \in S, \A x \in S : x <= m
  PROVE  Max(S) = m
<1>1. \A x \in S : (\A y \in S : x >= y) => x = m
  OBVIOUS
<1>2. \A y \in S : m >= y
  OBVIOUS
<1>3. QED
  BY <1>1, <1>2 DEF Max

(* There is one.                                                            *)
LEMMA MaxExists ==
  ASSUME NEW S \in SUBSET ((-1)..4), S # {}
  PROVE  Max(S) \in S /\ \A x \in S : x <= Max(S)
<1>1. \E m \in S : \A x \in S : x <= m
  <2>1. CASE 4 \in S
    BY <2>1
  <2>2. CASE 4 \notin S /\ 3 \in S
    BY <2>2
  <2>3. CASE 4 \notin S /\ 3 \notin S /\ 2 \in S
    BY <2>3
  <2>4. CASE 4 \notin S /\ 3 \notin S /\ 2 \notin S /\ 1 \in S
    BY <2>4
  <2>5. CASE 4 \notin S /\ 3 \notin S /\ 2 \notin S /\ 1 \notin S /\ 0 \in S
    BY <2>5
  <2>6. CASE \A x \in S : x < 0
    <3>1. PICK m \in S : TRUE
      OBVIOUS
    <3>2. \A x \in S : x <= m
      BY <2>6
    <3>3. QED
      BY <3>2
  <2>7. QED
    BY <2>1, <2>2, <2>3, <2>4, <2>5, <2>6
<1>2. PICK m \in S : \A x \in S : x <= m
  BY <1>1
<1>3. Max(S) = m
  BY <1>2, MaxParts
<1>4. QED
  BY <1>2, <1>3

(* What there is to know of the rows and the incidents.                     *)
Recorded ==
  /\ Len(rows) \in Nat /\ DOMAIN rows = 1..Len(rows)
  /\ \A i \in 1..Len(rows) :
       /\ rows[i] \in Row /\ rows[i].client \in Clients
       /\ rows[i].level \in (-1)..4 /\ rows[i].life \in Nat
  /\ Len(incidents) \in Nat /\ DOMAIN incidents = 1..Len(incidents)
  /\ \A k \in 1..Len(incidents) :
       incidents[k] \in Incident /\ incidents[k].client \in Clients

(* It follows from their types.                                             *)
LEMMA RowParts == TypeOK => Recorded
<1> SUFFICES ASSUME TypeOK PROVE Recorded
  OBVIOUS
<1>1. /\ Len(rows) \in Nat /\ DOMAIN rows = 1..Len(rows)
      /\ \A i \in 1..Len(rows) : rows[i] \in Row
      /\ Len(incidents) \in Nat /\ DOMAIN incidents = 1..Len(incidents)
      /\ \A k \in 1..Len(incidents) : incidents[k] \in Incident
  BY Types, ElementParts
<1>2. Levels \cup {NoVerdict} \subseteq (-1)..4
  BY WorkerAssumption DEF ALLOW, KICK, NoVerdict
<1>3. \A i \in 1..Len(rows) :
        /\ rows[i].client \in Clients /\ rows[i].life \in Nat
        /\ rows[i].level \in (-1)..4
  BY <1>1, <1>2 DEF Row
<1>4. \A k \in 1..Len(incidents) : incidents[k].client \in Clients
  BY <1>1 DEF Incident
<1>5. QED
  BY <1>1, <1>3, <1>4 DEF Recorded

(* Also after a step.                                                       *)
LEMMA RowPartsNext == TypeOK' => Recorded'
<1>1. QED
  BY RowParts, PTL

(* The rows of a client after one of its rows.                              *)
Later(c, i) == {j \in {k \in DOMAIN rows : rows[k].client = c} : j > i}

Counted(c, i) == /\ IsFiniteSet(Later(c, i))
                 /\ Cardinality(Later(c, i)) \in Nat

(* They can be counted, before and after a step.                            *)
LEMMA LaterParts ==
  ASSUME NEW c, NEW i
  PROVE  (Recorded => Counted(c, i)) /\ (Recorded' => Counted(c, i)')
<1>1. ASSUME Recorded PROVE Counted(c, i)
  <2>1. Later(c, i) \subseteq 1..Len(rows) /\ Len(rows) \in Nat
    BY <1>1 DEF Later, Recorded
  <2>2. IsFiniteSet(1..Len(rows))
    BY <2>1, FS_Interval
  <2>3. QED
    BY <2>1, <2>2, FS_Subset, FS_CardinalityType DEF Counted
<1>2. ASSUME Recorded' PROVE Counted(c, i)'
  <2>1. Later(c, i)' \subseteq 1..Len(rows') /\ Len(rows') \in Nat
    BY <1>2 DEF Later, Recorded
  <2>2. IsFiniteSet(1..Len(rows'))
    BY <2>1, FS_Interval
  <2>3. IsFiniteSet(Later(c, i)')
    BY <2>1, <2>2, FS_Subset
  <2>4. QED
    BY <2>3, FS_CardinalityType DEF Counted
<1>3. QED
  BY <1>1, <1>2

(* They are at most one more when a row is added.                           *)
LEMMA LaterStep ==
  ASSUME TypeOK, TypeOK', NEW c, NEW i,
         Len(rows') \in {Len(rows), Len(rows) + 1},
         \A k \in 1..Len(rows) : rows'[k] = rows[k]
  PROVE  /\ Cardinality(Later(c, i))' <= Cardinality(Later(c, i)) + 1
         /\ (Len(rows') = Len(rows) + 1 => rows'[Len(rows) + 1].client # c)
              => Later(c, i)' = Later(c, i)
<1> DEFINE n == Len(rows)
           L == Later(c, i)
           M == Later(c, i)'
<1>1. /\ n \in Nat /\ DOMAIN rows = 1..n /\ DOMAIN rows' = 1..Len(rows')
      /\ Len(rows') \in {n, n + 1}
  BY RowParts, RowPartsNext DEF Recorded
<1>2. IsFiniteSet(L) /\ Cardinality(L) \in Nat
  BY LaterParts, RowParts DEF Counted
<1>3. L = {j \in 1..n : rows[j].client = c /\ j > i}
  BY <1>1 DEF Later
<1>4. M = {j \in 1..Len(rows') : rows'[j].client = c /\ j > i}
  BY <1>1 DEF Later
<1>5. \A j \in 1..n : rows'[j] = rows[j]
  OBVIOUS
<1> HIDE DEF L, M, n
<1>6. /\ \A k \in 1..n : k # n + 1
      /\ \A k \in 1..Len(rows') :
           k \in 1..n \/ (k = n + 1 /\ Len(rows') = n + 1)
      /\ 1..n \subseteq 1..Len(rows')
  BY <1>1, OneMore
<1>7. /\ M \subseteq L \cup {n + 1} /\ L \subseteq M /\ n + 1 \notin L
      /\ n + 1 \in M => Len(rows') = n + 1 /\ rows'[n + 1].client = c
  <2>1. ASSUME NEW j \in M PROVE j \in L \cup {n + 1}
    <3>1. j \in 1..Len(rows') /\ rows'[j].client = c /\ j > i
      BY <1>4, <2>1
    <3>2. CASE j \in 1..n
      BY <1>3, <1>5, <3>1, <3>2
    <3>3. j \in 1..n \/ j = n + 1
      <4>1. j \in 1..Len(rows')
        BY <3>1
      <4>2. QED
        BY <1>6, <4>1
    <3>4. QED
      BY <3>2, <3>3
  <2>2. ASSUME NEW j \in L PROVE j \in M
    <3>1. j \in 1..n /\ rows[j].client = c /\ j > i
      BY <1>3, <2>2
    <3>2. j \in 1..Len(rows') /\ rows'[j] = rows[j]
      <4>1. j \in 1..n
        BY <3>1
      <4>2. 1..n \subseteq 1..Len(rows')
        BY <1>6
      <4>3. QED
        BY <1>5, <4>1, <4>2
    <3>3. QED
      BY <1>4, <3>1, <3>2
  <2>3. n + 1 \notin L
    BY <1>3, <1>6
  <2>4. n + 1 \in M => Len(rows') = n + 1 /\ rows'[n + 1].client = c
    <3>1. n + 1 \in M =>
            n + 1 \in 1..Len(rows') /\ rows'[n + 1].client = c
      BY <1>4
    <3>2. QED
      BY <1>1, <1>6, <3>1
  <2>5. QED
    BY <2>1, <2>2, <2>3, <2>4
<1>8. Cardinality(L \cup {n + 1}) = Cardinality(L) + 1
  BY <1>2, <1>7, FS_AddElement
<1>9. M = L \/ M = L \cup {n + 1}
  BY <1>7
<1>10. Cardinality(M) <= Cardinality(L) + 1
  <2>1. CASE M = L
    BY <1>2, <2>1
  <2>2. CASE M = L \cup {n + 1}
    <3> DEFINE k == Cardinality(L)
    <3>1. Cardinality(M) = k + 1 /\ k \in Nat
      BY <1>2, <1>8, <2>2
    <3> HIDE DEF k
    <3>2. Cardinality(M) <= k + 1
      BY <3>1
    <3>3. QED
      BY <3>2 DEF k
  <2>3. QED
    BY <1>9, <2>1, <2>2
<1>11. n + 1 \notin M => M = L
  BY <1>7
<1>12. /\ M = Later(c, i)' /\ L = Later(c, i) /\ n = Len(rows)
  BY DEF L, M, n
<1>13. Cardinality(M) = Cardinality(Later(c, i))'
  BY <1>12
<1>14. QED
  BY <1>7, <1>10, <1>11, <1>12, <1>13

(* Why one client's verdict is what it is.                                  *)
Explained(c) ==
  verdictp[c] # NoVerdict =>
    \E i \in 1..Len(rows) :
      /\ rows[i].client = c
      /\ rows[i].level = verdictp[c]
      /\ Cardinality(Later(c, i)) <= crashes

AllExplained == \A c \in Clients : Explained(c)

(* The property, client by client.                                          *)
LEMMA ExplainedAll == TypeOK => (RowsExplainVerdicts <=> AllExplained)
<1>1. TypeOK => DOMAIN rows = 1..Len(rows)
  BY RowParts DEF Recorded
<1>2. QED
  BY <1>1 DEF RowsExplainVerdicts, AllExplained, Explained, Later

(* Also after a step.                                                       *)
LEMMA ExplainedNext == TypeOK' => (RowsExplainVerdicts' <=> AllExplained')
<1>1. QED
  BY ExplainedAll, PTL

(* The rows a client has in this life of the process, and since its open    *)
(* incident was opened.                                                     *)
Since(c, last) == {i \in incidents[open_ids[c]].opened..last :
                     rows[i].client = c}

Follows(c, last) ==
  /\ open_ids[c] # 0 <=> Deserves(rows[last])
  /\ open_ids[c] # 0 =>
       /\ incidents[open_ids[c]].client = c
       /\ incidents[open_ids[c]].open
       /\ \A i \in Since(c, last) : Deserves(rows[i])
       /\ incidents[open_ids[c]].peak_level =
            Max({rows[i].level : i \in Since(c, last)})

(* The property, row by row.                                                *)
LEMMA FollowsAll ==
  IncidentsFollowVerdicts <=>
    \A c \in Clients : \A last \in LastRow(c) :
      IF fingerprint_only THEN open_ids[c] = 0 ELSE Follows(c, last)
<1>1. QED
  BY DEF IncidentsFollowVerdicts, Follows, Since

(* Nothing that is judged changes.                                          *)
LEMMA JudgedKept ==
  ASSUME TypeOK, TypeOK', Judged,
         UNCHANGED <<fingerprint_only, rows, incidents, verdictp, open_ids,
                     crashes>>
  PROVE  Judged'
<1>1. Opened' /\ Passive' /\ OnlyCrashesOrphan'
  BY DEF Judged, Opened, Passive, OnlyCrashesOrphan, LastRow
<1>2. RowsExplainVerdicts'
  BY DEF Judged, RowsExplainVerdicts
<1>3. IncidentsFollowVerdicts'
  BY DEF Judged, IncidentsFollowVerdicts, LastRow, Deserves
<1>4. QED
  BY <1>1, <1>2, <1>3 DEF Judged

(* The process ends, while a window may have been handled in part.          *)
LEMMA JudgedFailed ==
  ASSUME TypeOK, TypeOK', Judged, NEW c, Forget,
         UNCHANGED <<fingerprint_only, incidents>>,
         Len(rows') \in {Len(rows), Len(rows) + 1},
         \A i \in 1..Len(rows) : rows'[i] = rows[i],
         Len(rows') = Len(rows) + 1 =>
           /\ rows'[Len(rows) + 1].client = c
           /\ rows'[Len(rows) + 1].life = crashes,
         \/ verdictp' = verdictp
         \/ /\ ~fingerprint_only /\ c \in Clients
            /\ Len(rows') = Len(rows) + 1
            /\ verdictp' = [verdictp EXCEPT ![c] = rows'[Len(rows) + 1].level]
  PROVE  Judged'
<1> DEFINE n == Len(rows)
<1>1. /\ n \in Nat /\ DOMAIN rows = 1..n /\ DOMAIN rows' = 1..Len(rows')
      /\ DOMAIN incidents = 1..Len(incidents)
      /\ \A k \in 1..Len(incidents) : incidents[k].client \in Clients
  BY RowParts, RowPartsNext DEF Recorded
<1>2. /\ 1..n \subseteq 1..Len(rows')
      /\ \A i \in 1..Len(rows') :
           i \in 1..n \/ (i = n + 1 /\ Len(rows') = n + 1)
      /\ Len(rows') = n + 1 =>
           n + 1 \in 1..Len(rows') /\ \A i \in 1..Len(rows') : ~(i > n + 1)
  BY <1>1, OneMore
<1>3. /\ crashes \in Nat /\ crashes' = crashes + 1
      /\ \A d \in Clients : open_ids'[d] = 0
  BY Types DEF Forget
<1>4. \A i \in 1..Len(rows') : rows'[i].life <= crashes
  <2>1. \A i \in 1..Len(rows) : rows'[i].life <= crashes
    BY DEF Judged, Opened
  <2>2. Len(rows') = n + 1 => rows'[n + 1].life <= crashes
    BY <1>3
  <2>3. QED
    BY <1>2, <2>1, <2>2
<1>5. Opened'
  <2>1. \A i \in 1..Len(rows') : rows'[i].life \in Nat
    BY RowPartsNext DEF Recorded
  <2>2. \A i \in 1..Len(rows') : rows'[i].life <= crashes'
    BY <1>3, <1>4, <2>1
  <2>3. \A k \in 1..Len(incidents) :
          /\ incidents[k].opened \in 1..Len(rows')
          /\ rows'[incidents[k].opened].client = incidents[k].client
    BY <1>2 DEF Judged, Opened
  <2>4. QED
    BY <1>3, <2>2, <2>3 DEF Opened
<1>6. Passive'
  BY <1>3 DEF Judged, Passive
<1>7. OnlyCrashesOrphan'
  <2>1. \A k \in 1..Len(incidents) : rows'[incidents[k].opened].life <= crashes
    BY <1>1, <1>4 DEF Judged, Opened
  <2>2. \A k \in 1..Len(incidents) : rows'[incidents[k].opened].life \in Nat
    BY <1>5, RowPartsNext DEF Recorded, Opened
  <2>3. \A k \in 1..Len(incidents) :
           rows'[incidents[k].opened].life < crashes'
    BY <1>3, <2>1, <2>2
  <2>4. QED
    BY <1>1, <2>3 DEF OnlyCrashesOrphan
<1>8. RowsExplainVerdicts'
  <2>1. ASSUME NEW d \in Clients, verdictp'[d] = verdictp[d]
        PROVE  Explained(d)'
    <3>1. CASE verdictp[d] = NoVerdict
      BY <2>1, <3>1 DEF Explained
    <3>2. CASE verdictp[d] # NoVerdict
      <4>1. PICK i \in 1..n : /\ rows[i].client = d
                              /\ rows[i].level = verdictp[d]
                              /\ Cardinality(Later(d, i)) <= crashes
        BY <3>2, ExplainedAll DEF Judged, AllExplained, Explained
      <4>2. Cardinality(Later(d, i))' <= Cardinality(Later(d, i)) + 1
        BY LaterStep
      <4>3. /\ Cardinality(Later(d, i)) \in Nat
            /\ Cardinality(Later(d, i))' \in Nat
        BY LaterParts, RowParts, RowPartsNext DEF Counted
      <4>4. Cardinality(Later(d, i))' <= crashes'
        BY <1>3, <4>1, <4>2, <4>3
      <4>5. i \in 1..Len(rows') /\ rows'[i] = rows[i]
        BY <1>2
      <4>6. QED
        BY <2>1, <4>1, <4>4, <4>5 DEF Explained
    <3>3. QED
      BY <3>1, <3>2
  <2>2. CASE verdictp' = verdictp
    <3>1. \A d \in Clients : Explained(d)'
      BY <2>1, <2>2
    <3>2. QED
      BY <3>1, ExplainedNext DEF AllExplained
  <2>3. CASE /\ Len(rows') = n + 1 /\ c \in Clients
             /\ verdictp' = [verdictp EXCEPT ![c] = rows'[n + 1].level]
    <3>1. \A d \in Clients : d # c => verdictp'[d] = verdictp[d]
      BY <2>3, Types
    <3>2. verdictp'[c] = rows'[n + 1].level
      BY <2>3, Types
    <3>3. PICK m : m = n + 1
      OBVIOUS
    <3>4. /\ m \in 1..Len(rows') /\ rows'[m].client = c /\ 0 <= crashes'
          /\ rows'[m].level = verdictp'[c]
          /\ \A j \in 1..Len(rows') : ~(j > m)
      <4>1. m \in 1..Len(rows') /\ \A j \in 1..Len(rows') : ~(j > m)
        BY <1>2, <2>3, <3>3
      <4>2. rows'[m].client = c
        BY <2>3, <3>3
      <4>3. 0 <= crashes'
        BY <1>3
      <4>4. QED
        BY <3>2, <3>3, <4>1, <4>2, <4>3
    <3>5. Later(c, m)' = {}
      BY <1>1, <3>4 DEF Later
    <3>6. Explained(c)'
      <4>1. Cardinality(Later(c, m))' = 0
        BY <3>5, FS_EmptySet
      <4>2. QED
        BY <3>4, <4>1 DEF Explained
    <3>7. \A d \in Clients : Explained(d)'
      BY <2>1, <3>1, <3>6
    <3>8. QED
      BY <3>7, ExplainedNext DEF AllExplained
  <2>4. QED
    BY <2>2, <2>3
<1>9. IncidentsFollowVerdicts'
  <2>1. \A i \in 1..Len(rows') : rows'[i].life # crashes'
    <3>1. \A i \in 1..Len(rows') : rows'[i].life \in Nat
      BY RowPartsNext DEF Recorded
    <3>2. QED
      BY <1>3, <1>4, <3>1
  <2>2. \A d \in Clients : LastRow(d)' = {}
    BY <1>1, <2>1 DEF LastRow
  <2>3. QED
    BY <2>2 DEF IncidentsFollowVerdicts
<1>10. QED
  BY <1>5, <1>6, <1>7, <1>8, <1>9 DEF Judged

(* What a handled window does to the client's incident.                     *)
Touches(c, level, alarm) ==
  LET k == open_ids[c] IN
  /\ Len(incidents') \in {Len(incidents), Len(incidents) + 1}
  /\ \A j \in 1..Len(incidents) : j # k => incidents'[j] = incidents[j]
  /\ k # 0 =>
       /\ Len(incidents') = Len(incidents)
       /\ incidents'[k].client = incidents[k].client
       /\ incidents'[k].opened = incidents[k].opened
       /\ ShouldHaveIncident(level, alarm) =>
            /\ incidents'[k].open = incidents[k].open
            /\ incidents'[k].peak_level =
                 Larger(incidents[k].peak_level, level)
       /\ ~ShouldHaveIncident(level, alarm) => ~incidents'[k].open
  /\ Len(incidents') = Len(incidents) + 1 =>
       /\ k = 0 /\ ShouldHaveIncident(level, alarm)
       /\ incidents'[Len(incidents) + 1] =
            [client |-> c, opened |-> Len(rows) + 1, open |-> TRUE,
             peak_level |-> level]
  /\ k = 0 /\ ShouldHaveIncident(level, alarm) =>
       Len(incidents') = Len(incidents) + 1
  /\ open_ids'[c] = IF ~ShouldHaveIncident(level, alarm) THEN 0
                    ELSE IF k = 0 THEN Len(incidents) + 1 ELSE k
  /\ \A d \in Clients : d # c => open_ids'[d] = open_ids[d]

(* It does just that.                                                       *)
LEMMA IncidentTouched ==
  ASSUME TypeOK, NEW c \in Clients, NEW level \in Levels,
         NEW alarm \in BOOLEAN,
         incidents' = IncidentsAfter(c, level, alarm),
         open_ids' = [open_ids EXCEPT ![c] = OpenIdAfter(c, level, alarm)]
  PROVE  Touches(c, level, alarm)
<1> DEFINE k == open_ids[c]
           n == Len(incidents)
<1>1. /\ incidents \in Seq(Incident) /\ n \in Nat /\ k \in 0..n
      /\ open_ids \in [Clients -> 0..n]
  BY Types
<1>2. /\ open_ids'[c] = IF ~ShouldHaveIncident(level, alarm) THEN 0
                        ELSE IF k = 0 THEN n + 1 ELSE k
      /\ \A d \in Clients : d # c => open_ids'[d] = open_ids[d]
  BY <1>1 DEF OpenIdAfter
<1>3. CASE k = 0 /\ ~ShouldHaveIncident(level, alarm)
  <2>1. incidents' = incidents
    BY <1>3 DEF IncidentsAfter
  <2>2. Len(incidents') = n
    BY <2>1
  <2> HIDE DEF n
  <2>3. n # n + 1
    BY <1>1
  <2>4. QED
    BY <1>2, <1>3, <2>1, <2>2, <2>3 DEF Touches, n
<1>4. CASE k = 0 /\ ShouldHaveIncident(level, alarm)
  <2> DEFINE e == [client |-> c, opened |-> Len(rows) + 1, open |-> TRUE,
                   peak_level |-> level]
  <2>1. e \in Incident
    BY Types DEF Incident
  <2>2. incidents' = Append(incidents, e)
    BY <1>4 DEF IncidentsAfter
  <2> HIDE DEF e
  <2>3. /\ Len(incidents') = n + 1 /\ incidents'[n + 1] = e
        /\ \A i \in 1..n : incidents'[i] = incidents[i]
    BY <1>1, <2>1, <2>2, AppendParts
  <2>4. QED
    BY <1>2, <1>4, <2>3 DEF Touches, e
<1>5. CASE k # 0
  <2> DEFINE e == IF ShouldHaveIncident(level, alarm)
                  THEN [incidents[k] EXCEPT !.peak_level = Larger(@, level)]
                  ELSE [incidents[k] EXCEPT !.open = FALSE]
  <2>1. k \in 1..n
    BY <1>1, <1>5
  <2>2. incidents[k] \in Incident
    BY <1>1, <2>1, ElementParts
  <2>3. Larger(incidents[k].peak_level, level) \in Levels
    BY <2>2 DEF Incident, Larger
  <2>4. e \in Incident
    BY <2>2, <2>3, IncidentParts
  <2>5. /\ e.client = incidents[k].client /\ e.opened = incidents[k].opened
        /\ ShouldHaveIncident(level, alarm) =>
             /\ e.open = incidents[k].open
             /\ e.peak_level = Larger(incidents[k].peak_level, level)
        /\ ~ShouldHaveIncident(level, alarm) => ~e.open
    BY <2>2 DEF Incident
  <2>6. incidents' = [incidents EXCEPT ![k] = e]
    BY <1>5 DEF IncidentsAfter
  <2> HIDE DEF e, k, n
  <2>7. /\ Len(incidents') = n
        /\ \A i \in 1..n : incidents'[i] = IF i = k THEN e ELSE incidents[i]
    BY <1>1, <2>1, <2>4, <2>6, ExceptParts DEF n
  <2>8. n # n + 1
    BY <1>1
  <2>9. /\ incidents'[k] = e
        /\ \A i \in 1..n : i # k => incidents'[i] = incidents[i]
    BY <2>1, <2>7
  <2>10. QED
    BY <1>2, <1>5, <2>5, <2>7, <2>8, <2>9 DEF Touches, n, k
<1>6. QED
  BY <1>3, <1>4, <1>5

(* The facts about the row a handled window becomes, in a life of the       *)
(* process that goes on.                                                    *)
Extends(n, c, level, alarm) ==
  /\ n \in Nat /\ n = Len(rows) /\ Len(rows') = n + 1
  /\ DOMAIN rows = 1..n /\ DOMAIN rows' = 1..(n + 1)
  /\ \A i \in 1..n : rows'[i] = rows[i]
  /\ rows'[n + 1].client = c /\ rows'[n + 1].life = crashes
  /\ rows'[n + 1].level = IF fingerprint_only THEN NoVerdict ELSE level
  /\ rows'[n + 1].alarm = alarm
  /\ fingerprint_only' = fingerprint_only /\ crashes' = crashes

(* They hold of it, and Redis and the incidents follow it.                  *)
LEMMA Handled ==
  ASSUME TypeOK, NEW c \in Clients, NEW w \in Accumulator,
         NEW seen \in SUBSET Id, NEW o \in Outcomes, w.entries \subseteq Id,
         o.stage = "done", HandleClosedWindow(c, w, seen, o),
         UNCHANGED <<fingerprint_only, crashes>>
  PROVE  /\ Extends(Len(rows), c, o.level, o.alarm)
         /\ o.level \in Levels /\ o.alarm \in BOOLEAN
         /\ fingerprint_only => UNCHANGED <<incidents, verdictp, open_ids>>
         /\ ~fingerprint_only =>
              /\ Touches(c, o.level, o.alarm)
              /\ verdictp' = [verdictp EXCEPT ![c] = o.level]
<1>1. Persist(c, w, seen, o.level, o.alarm, o.stage)
  BY DEF HandleClosedWindow
<1>2. /\ Len(rows) \in Nat
      /\ DOMAIN rows = 1..Len(rows) /\ DOMAIN rows' = 1..Len(rows')
      /\ \A i \in 1..Len(rows) : rows'[i] = rows[i]
      /\ Len(rows') = Len(rows) + 1
      /\ rows'[Len(rows) + 1] = RowOf(c, w, seen, o.level, o.alarm)
  BY <1>1, RowsAfter DEF Commits
<1>3. Extends(Len(rows), c, o.level, o.alarm)
  BY <1>2 DEF Extends, RowOf
<1>4. o.level \in Levels /\ o.alarm \in BOOLEAN
  BY DEF Outcomes
<1>5. CASE fingerprint_only
  BY <1>1, <1>3, <1>4, <1>5 DEF HandleClosedWindow, Persist, Publishes
<1>6. CASE ~fingerprint_only
  <2>1. verdictp' = [verdictp EXCEPT ![c] = o.level]
    BY <1>1, <1>6 DEF Persist, Publishes
  <2>2. /\ incidents' = IncidentsAfter(c, o.level, o.alarm)
        /\ open_ids' = [open_ids EXCEPT
                          ![c] = OpenIdAfter(c, o.level, o.alarm)]
    BY <1>1, <1>6 DEF Persist, HandleClosedWindow
  <2>3. Touches(c, o.level, o.alarm)
    BY <1>4, <2>2, IncidentTouched
  <2>4. QED
    BY <1>3, <1>4, <1>6, <2>1, <2>3
<1>7. QED
  BY <1>5, <1>6

(* The last rows of the clients.                                            *)
LEMMA LastRowStep ==
  ASSUME TypeOK, NEW n, NEW c \in Clients, NEW level, NEW alarm,
         Extends(n, c, level, alarm)
  PROVE  /\ LastRow(c)' = {n + 1}
         /\ \A d \in Clients : d # c => LastRow(d)' = LastRow(d)
<1>1. /\ n \in Nat /\ DOMAIN rows = 1..n /\ DOMAIN rows' = 1..(n + 1)
      /\ \A i \in 1..n : rows'[i] = rows[i]
      /\ rows'[n + 1].client = c /\ rows'[n + 1].life = crashes
      /\ crashes' = crashes
  BY DEF Extends
<1>2. /\ \A i \in 1..(n + 1) : i <= n + 1 /\ (i \in 1..n \/ i = n + 1)
      /\ \A i \in 1..(n + 1) : n + 1 <= i => i = n + 1
      /\ \A i \in 1..n : i \in 1..(n + 1) /\ i # n + 1
      /\ n + 1 \in 1..(n + 1)
  BY <1>1
<1>3. LastRow(c)' = {n + 1}
  <2>1. n + 1 \in LastRow(c)'
    BY <1>1, <1>2 DEF LastRow
  <2>2. ASSUME NEW i \in LastRow(c)' PROVE i = n + 1
    BY <1>1, <1>2, <2>2 DEF LastRow
  <2>3. QED
    BY <2>1, <2>2
<1>4. ASSUME NEW d \in Clients, d # c
      PROVE  LastRow(d)' = LastRow(d)
  <2>1. \A i \in 1..(n + 1) :
          rows'[i].client = d <=> i \in 1..n /\ rows[i].client = d
    BY <1>1, <1>2, <1>4
  <2>2. ASSUME NEW i \in LastRow(d) PROVE i \in LastRow(d)'
    <3>1. /\ i \in 1..n /\ rows[i].client = d /\ rows[i].life = crashes
          /\ \A j \in 1..n : rows[j].client = d => j <= i
      BY <1>1, <2>2 DEF LastRow
    <3>2. i \in 1..(n + 1) /\ rows'[i] = rows[i]
      BY <1>1, <1>2, <3>1
    <3>3. \A j \in 1..(n + 1) : rows'[j].client = d => j <= i
      BY <1>1, <2>1, <3>1
    <3>4. QED
      BY <1>1, <3>1, <3>2, <3>3 DEF LastRow
  <2>3. ASSUME NEW i \in LastRow(d)' PROVE i \in LastRow(d)
    <3>1. /\ i \in 1..(n + 1) /\ rows'[i].client = d
          /\ rows'[i].life = crashes
          /\ \A j \in 1..(n + 1) : rows'[j].client = d => j <= i
      BY <1>1, <2>3 DEF LastRow
    <3>2. i \in 1..n /\ rows[i] = rows'[i]
      BY <1>1, <2>1, <3>1
    <3>3. \A j \in 1..n : rows[j].client = d => j <= i
      BY <1>1, <1>2, <3>1
    <3>4. QED
      BY <1>1, <3>1, <3>2, <3>3 DEF LastRow
  <2>4. QED
    BY <2>2, <2>3
<1>5. QED
  BY <1>3, <1>4

(* In fingerprint mode a handled window leaves a row and nothing else.      *)
LEMMA JudgedPassive ==
  ASSUME TypeOK, TypeOK', Judged, NEW n, NEW c \in Clients, NEW level,
         NEW alarm, Extends(n, c, level, alarm), fingerprint_only,
         UNCHANGED <<incidents, verdictp, open_ids>>
  PROVE  Judged'
<1>1. /\ n \in Nat /\ n = Len(rows) /\ Len(rows') = n + 1
      /\ DOMAIN rows = 1..n /\ DOMAIN rows' = 1..(n + 1)
      /\ \A i \in 1..n : rows'[i] = rows[i] /\ i \in 1..(n + 1)
      /\ \A i \in 1..(n + 1) : i \in 1..n \/ i = n + 1
      /\ rows'[n + 1].client = c /\ rows'[n + 1].life = crashes
      /\ crashes' = crashes /\ fingerprint_only' /\ crashes \in Nat
  BY Types DEF Extends
<1>2. \A d \in Clients : verdictp[d] = NoVerdict /\ open_ids[d] = 0
  BY DEF Judged, Passive
<1>3. Opened'
  <2>1. \A i \in 1..(n + 1) : rows'[i].life <= crashes
    <3>1. \A i \in 1..n : rows'[i].life <= crashes
      BY <1>1 DEF Judged, Opened
    <3>2. rows'[n + 1].life <= crashes
      BY <1>1
    <3>3. QED
      BY <1>1, <3>1, <3>2
  <2>2. \A k \in 1..Len(incidents) :
          /\ incidents[k].opened \in 1..(n + 1)
          /\ rows'[incidents[k].opened].client = incidents[k].client
    BY <1>1 DEF Judged, Opened
  <2>3. QED
    BY <1>1, <1>2, <2>1, <2>2 DEF Opened
<1>4. Passive'
  BY <1>2 DEF Passive
<1>5. OnlyCrashesOrphan'
  <2>1. \A k \in 1..Len(incidents) : incidents[k].opened \in 1..n
    BY <1>1 DEF Judged, Opened
  <2>2. DOMAIN incidents = 1..Len(incidents)
    BY RowParts DEF Recorded
  <2>3. QED
    BY <1>1, <2>1, <2>2 DEF Judged, OnlyCrashesOrphan
<1>6. RowsExplainVerdicts' /\ IncidentsFollowVerdicts'
  BY <1>1, <1>2 DEF RowsExplainVerdicts, IncidentsFollowVerdicts
<1>7. QED
  BY <1>3, <1>4, <1>5, <1>6 DEF Judged

(* Incidents are of their clients, and no more orphans, after a handled     *)
(* window.                                                                  *)
LEMMA OpenedStep ==
  ASSUME TypeOK, TypeOK', Judged, NEW n, NEW c \in Clients, NEW level,
         NEW alarm, Extends(n, c, level, alarm), Touches(c, level, alarm)
  PROVE  Opened' /\ OnlyCrashesOrphan'
<1> DEFINE m == Len(incidents)
           k == open_ids[c]
<1>1. /\ n \in Nat /\ n = Len(rows) /\ Len(rows') = n + 1
      /\ DOMAIN rows = 1..n /\ DOMAIN rows' = 1..(n + 1)
      /\ \A i \in 1..n : rows'[i] = rows[i] /\ i \in 1..(n + 1)
      /\ \A i \in 1..(n + 1) : i \in 1..n \/ i = n + 1
      /\ n + 1 \in 1..(n + 1)
      /\ rows'[n + 1].client = c /\ rows'[n + 1].life = crashes
      /\ crashes' = crashes /\ crashes \in Nat
  BY Types DEF Extends
<1>2. /\ m \in Nat /\ DOMAIN incidents = 1..m /\ k \in 0..m
      /\ Len(incidents') \in {m, m + 1}
      /\ \A d \in Clients : open_ids[d] \in 0..m
  BY Types, RowParts DEF Recorded, Touches
<1>3. /\ \A j \in 1..m : /\ j # m + 1 /\ incidents[j].opened \in 1..n
                         /\ rows[incidents[j].opened].client
                              = incidents[j].client
                         /\ incidents'[j].client = incidents[j].client
                         /\ incidents'[j].opened = incidents[j].opened
      /\ \A j \in 1..Len(incidents') :
           j \in 1..m \/ (j = m + 1 /\ Len(incidents') = m + 1)
  <2>1. /\ \A j \in 1..m : j # m + 1
        /\ \A j \in 1..Len(incidents') :
             j \in 1..m \/ (j = m + 1 /\ Len(incidents') = m + 1)
    BY <1>2, OneMore
  <2>2. \A j \in 1..m : /\ incidents[j].opened \in 1..n
                        /\ rows[incidents[j].opened].client
                             = incidents[j].client
    BY <1>1 DEF Judged, Opened
  <2>3. \A j \in 1..m : /\ incidents'[j].client = incidents[j].client
                        /\ incidents'[j].opened = incidents[j].opened
    <3>1. TAKE j \in 1..m
    <3>2. CASE j = k
      <4>1. k # 0
        BY <1>2, <3>2
      <4>2. QED
        BY <3>2, <4>1 DEF Touches
    <3>3. CASE j # k
      BY <3>3 DEF Touches
    <3>4. QED
      BY <3>2, <3>3
  <2>4. QED
    BY <2>1, <2>2, <2>3
<1>4. Len(incidents') = m + 1 =>
        /\ incidents'[m + 1].client = c
        /\ incidents'[m + 1].opened = n + 1
        /\ open_ids'[c] = m + 1
  BY <1>1 DEF Touches
<1>5. /\ open_ids'[c] # 0 => open_ids'[c] \in {k, m + 1}
      /\ open_ids'[c] = m + 1 => Len(incidents') = m + 1
      /\ \A d \in Clients : d # c => open_ids'[d] = open_ids[d]
  <2>1. k # m + 1
    BY <1>2
  <2>2. QED
    BY <1>2, <2>1 DEF Touches
<1>6. Opened'
  <2>1. \A j \in 1..Len(incidents') :
          /\ incidents'[j].opened \in 1..(n + 1)
          /\ rows'[incidents'[j].opened].client = incidents'[j].client
    <3>1. \A j \in 1..m :
            /\ incidents'[j].opened \in 1..(n + 1)
            /\ rows'[incidents'[j].opened].client = incidents'[j].client
      BY <1>1, <1>3
    <3>2. Len(incidents') = m + 1 =>
            /\ incidents'[m + 1].opened \in 1..(n + 1)
            /\ rows'[incidents'[m + 1].opened].client
                 = incidents'[m + 1].client
      BY <1>1, <1>4
    <3>3. QED
      BY <1>3, <3>1, <3>2
  <2>2. \A i \in 1..(n + 1) : rows'[i].life <= crashes
    <3>1. \A i \in 1..n : rows'[i].life <= crashes
      BY <1>1 DEF Judged, Opened
    <3>2. rows'[n + 1].life <= crashes
      BY <1>1
    <3>3. QED
      BY <1>1, <3>1, <3>2
  <2>3. ASSUME NEW d \in Clients, open_ids'[d] # 0
        PROVE  incidents'[open_ids'[d]].client = d /\ LastRow(d)' # {}
    <3>1. CASE d = c
      <4>1. LastRow(c)' # {}
        BY LastRowStep
      <4>2. CASE open_ids'[c] = m + 1
        BY <1>4, <1>5, <3>1, <4>1, <4>2
      <4>3. CASE open_ids'[c] = k
        <5>1. k \in 1..m
          BY <1>2, <2>3, <3>1, <4>3
        <5>2. incidents[k].client = c
          BY <2>3, <3>1, <4>3 DEF Judged, Opened
        <5>3. QED
          BY <1>3, <3>1, <4>1, <4>3, <5>1, <5>2
      <4>4. QED
        BY <1>5, <2>3, <3>1, <4>2, <4>3
    <3>2. CASE d # c
      <4>1. open_ids'[d] = open_ids[d] /\ LastRow(d)' = LastRow(d)
        BY <1>5, <3>2, LastRowStep
      <4>2. open_ids[d] \in 1..m
        BY <1>2, <2>3, <4>1
      <4>3. incidents[open_ids[d]].client = d /\ LastRow(d) # {}
        BY <2>3, <4>1 DEF Judged, Opened
      <4>4. QED
        BY <1>3, <4>1, <4>2, <4>3
    <3>3. QED
      BY <3>1, <3>2
  <2>4. QED
    BY <1>1, <2>1, <2>2, <2>3 DEF Opened
<1>7. OnlyCrashesOrphan'
  <2>1. ASSUME NEW j \in 1..m, incidents'[j].open
        PROVE  \/ open_ids'[incidents'[j].client] = j
               \/ rows'[incidents'[j].opened].life < crashes'
    <3>1. CASE j = k
      <4>1. k # 0
        BY <1>2, <3>1
      <4>2. ShouldHaveIncident(level, alarm) /\ open_ids'[c] = k
        BY <2>1, <3>1, <4>1 DEF Touches
      <4>3. incidents[k].client = c
        BY <4>1 DEF Judged, Opened
      <4>4. QED
        BY <1>3, <3>1, <4>2, <4>3
    <3>2. CASE j # k
      <4>1. incidents'[j] = incidents[j]
        BY <3>2 DEF Touches
      <4>2. \/ open_ids[incidents[j].client] = j
            \/ rows[incidents[j].opened].life < crashes
        BY <1>2, <2>1, <4>1 DEF Judged, OnlyCrashesOrphan
      <4>3. CASE open_ids[incidents[j].client] = j
        <5>1. incidents[j].client # c /\ incidents[j].client \in Clients
          BY <3>2, <4>3, RowParts DEF Recorded
        <5>2. QED
          BY <1>5, <4>1, <4>3, <5>1
      <4>4. CASE rows[incidents[j].opened].life < crashes
        BY <1>1, <1>3, <4>1, <4>4
      <4>5. QED
        BY <4>2, <4>3, <4>4
    <3>3. QED
      BY <3>1, <3>2
  <2>2. Len(incidents') = m + 1 => open_ids'[incidents'[m + 1].client] = m + 1
    BY <1>4
  <2>3. DOMAIN incidents' = 1..Len(incidents')
    BY RowPartsNext DEF Recorded
  <2>4. QED
    BY <1>3, <2>1, <2>2, <2>3 DEF OnlyCrashesOrphan
<1>8. QED
  BY <1>6, <1>7

(* The last of a client's rows explains its verdict.                        *)
LEMMA ExplainedStep ==
  ASSUME TypeOK, TypeOK', Judged, NEW n, NEW c \in Clients,
         NEW level \in Levels, NEW alarm, Extends(n, c, level, alarm),
         ~fingerprint_only, verdictp' = [verdictp EXCEPT ![c] = level]
  PROVE  RowsExplainVerdicts'
<1>1. /\ n \in Nat /\ n = Len(rows) /\ Len(rows') = n + 1
      /\ DOMAIN rows' = 1..(n + 1)
      /\ \A i \in 1..n : rows'[i] = rows[i] /\ i \in 1..(n + 1)
      /\ n + 1 \in 1..(n + 1) /\ \A j \in 1..(n + 1) : ~(j > n + 1)
      /\ rows'[n + 1].client = c /\ rows'[n + 1].level = level
      /\ crashes' = crashes /\ crashes \in Nat
  BY Types DEF Extends
<1>2. /\ verdictp'[c] = level
      /\ \A d \in Clients : d # c => verdictp'[d] = verdictp[d]
  BY Types
<1>3. Explained(c)'
  <2>1. PICK m : m = n + 1
    OBVIOUS
  <2>2. /\ m \in 1..Len(rows') /\ rows'[m].client = c
        /\ rows'[m].level = level
        /\ \A j \in 1..Len(rows') : ~(j > m)
    BY <1>1, <2>1
  <2>3. Later(c, m)' = {}
    BY <1>1, <2>2 DEF Later
  <2>4. Cardinality(Later(c, m))' = 0
    BY <2>3, FS_EmptySet
  <2>5. Cardinality(Later(c, m))' <= crashes'
    BY <1>1, <2>4
  <2>6. QED
    BY <1>2, <2>2, <2>5 DEF Explained
<1>4. ASSUME NEW d \in Clients, d # c
      PROVE  Explained(d)'
  <2>1. CASE verdictp[d] = NoVerdict
    BY <1>2, <1>4, <2>1 DEF Explained
  <2>2. CASE verdictp[d] # NoVerdict
    <3>1. PICK i \in 1..n : /\ rows[i].client = d
                            /\ rows[i].level = verdictp[d]
                            /\ Cardinality(Later(d, i)) <= crashes
      BY <1>1, <2>2, ExplainedAll DEF Judged, AllExplained, Explained
    <3>2. Later(d, i)' = Later(d, i)
      <4>1. Len(rows') \in {Len(rows), Len(rows) + 1}
        BY <1>1
      <4>2. \A k \in 1..Len(rows) : rows'[k] = rows[k]
        BY <1>1
      <4>3. rows'[Len(rows) + 1].client # d
        BY <1>1, <1>4
      <4>4. QED
        BY <4>1, <4>2, <4>3, LaterStep
    <3>3. /\ i \in 1..Len(rows') /\ rows'[i] = rows[i]
      BY <1>1
    <3>4. Cardinality(Later(d, i))' <= crashes'
      BY <1>1, <3>1, <3>2
    <3>5. QED
      BY <1>2, <1>4, <3>1, <3>3, <3>4 DEF Explained
  <2>3. QED
    BY <2>1, <2>2
<1>5. QED
  BY <1>3, <1>4, ExplainedNext DEF AllExplained

(* The incident of another client goes on following that client's verdicts. *)
LEMMA FollowsOther ==
  ASSUME TypeOK, Judged, NEW n, NEW c \in Clients, NEW level, NEW alarm,
         Extends(n, c, level, alarm), Touches(c, level, alarm),
         NEW d \in Clients, d # c, NEW last \in LastRow(d),
         ~fingerprint_only
  PROVE  Follows(d, last)'
<1>1. /\ n \in Nat /\ n = Len(rows) /\ DOMAIN rows = 1..n
      /\ \A i \in 1..n : rows'[i] = rows[i]
  BY DEF Extends
<1>2. Follows(d, last)
  BY FollowsAll DEF Judged
<1>3. last \in 1..n
  BY <1>1 DEF LastRow
<1>4. open_ids'[d] = open_ids[d]
  BY DEF Touches
<1>5. CASE open_ids[d] = 0
  BY <1>1, <1>2, <1>3, <1>4, <1>5 DEF Follows, Deserves
<1>6. CASE open_ids[d] # 0
  <2> DEFINE k   == open_ids[d]
             inc == incidents[k]
  <2>1. k \in 1..Len(incidents)
    BY <1>6, Types
  <2>2. inc.client = d /\ inc.opened \in 1..n
    BY <1>1, <1>6, <2>1 DEF Judged, Opened
  <2>3. k # open_ids[c]
    BY <1>6, <2>2 DEF Judged, Opened
  <2>4. incidents'[k] = inc
    BY <2>1, <2>3 DEF Touches
  <2>5. \A i \in inc.opened..last : i \in 1..n
    BY <1>1, <1>3, <2>2
  <2>6. Since(d, last)' = Since(d, last)
    <3>1. Since(d, last)' = {i \in inc.opened..last : rows'[i].client = d}
      BY <1>4, <2>4 DEF Since
    <3>2. QED
      BY <1>1, <2>5, <3>1 DEF Since
  <2>7. \A i \in Since(d, last) : rows'[i] = rows[i]
    BY <1>1, <2>5 DEF Since
  <2>8. {rows'[i].level : i \in Since(d, last)} =
          {rows[i].level : i \in Since(d, last)}
    BY <2>7
  <2>9. /\ Deserves(rows[last]) /\ inc.open
        /\ \A i \in Since(d, last) : Deserves(rows[i])
        /\ inc.peak_level = Max({rows[i].level : i \in Since(d, last)})
    BY <1>2, <1>6 DEF Follows
  <2>10. /\ open_ids'[d] # 0 /\ Deserves(rows'[last])
         /\ incidents'[open_ids'[d]].client = d
         /\ incidents'[open_ids'[d]].open
    BY <1>1, <1>3, <1>4, <1>6, <2>2, <2>4, <2>9
  <2>11. \A i \in Since(d, last)' : Deserves(rows'[i])
    BY <2>6, <2>7, <2>9
  <2>12. incidents'[open_ids'[d]].peak_level =
           Max({rows'[i].level : i \in Since(d, last)'})
    BY <1>4, <2>4, <2>6, <2>8, <2>9
  <2>13. QED
    BY <2>10, <2>11, <2>12 DEF Follows
<1>7. QED
  BY <1>5, <1>6

(* And the client's own begins to follow the row just added.                *)
LEMMA FollowsOwn ==
  ASSUME TypeOK, Judged, NEW n, NEW c \in Clients, NEW level \in Levels,
         NEW alarm \in BOOLEAN,
         Extends(n, c, level, alarm), Touches(c, level, alarm),
         ~fingerprint_only
  PROVE  Follows(c, n + 1)'
<1> DEFINE m == Len(incidents)
           k == open_ids[c]
<1>1. /\ n \in Nat /\ n = Len(rows) /\ DOMAIN rows = 1..n
      /\ \A i \in 1..n : rows'[i] = rows[i]
      /\ rows'[n + 1].client = c /\ rows'[n + 1].level = level
      /\ rows'[n + 1].alarm = alarm
  BY DEF Extends
<1>2. Deserves(rows'[n + 1]) <=> ShouldHaveIncident(level, alarm)
  BY <1>1 DEF Deserves, ShouldHaveIncident
<1>3. /\ m \in Nat /\ k \in 0..m /\ level \in (-1)..4
      /\ \A i \in 1..n : rows[i].level \in (-1)..4
  BY <1>1, Types, RowParts, WorkerAssumption DEF Recorded, ALLOW, KICK
<1>4. CASE ~ShouldHaveIncident(level, alarm)
  <2>1. open_ids'[c] = 0
    BY <1>4 DEF Touches
  <2>2. QED
    BY <1>2, <1>4, <2>1 DEF Follows
<1>5. CASE ShouldHaveIncident(level, alarm) /\ k = 0
  <2>1. /\ open_ids'[c] = m + 1 /\ Len(incidents') = m + 1
        /\ incidents'[m + 1] = [client |-> c, opened |-> n + 1, open |-> TRUE,
                                peak_level |-> level]
    BY <1>1, <1>5 DEF Touches
  <2>2. /\ open_ids'[c] # 0
        /\ incidents'[open_ids'[c]].client = c
        /\ incidents'[open_ids'[c]].open
        /\ incidents'[open_ids'[c]].opened = n + 1
        /\ incidents'[open_ids'[c]].peak_level = level
    BY <1>3, <2>1
  <2>3. Since(c, n + 1)' = {n + 1}
    <3>1. \A i : i \in (n + 1)..(n + 1) <=> i = n + 1
      BY <1>1
    <3>2. QED
      BY <1>1, <2>2, <3>1 DEF Since
  <2>4. {rows'[i].level : i \in Since(c, n + 1)'} = {level}
    BY <1>1, <2>3
  <2>5. Max({level}) = level
    BY <1>3, MaxParts
  <2>6. \A i \in Since(c, n + 1)' : Deserves(rows'[i])
    BY <1>2, <1>5, <2>3
  <2>7. QED
    BY <1>2, <1>5, <2>2, <2>4, <2>5, <2>6 DEF Follows
<1>6. CASE ShouldHaveIncident(level, alarm) /\ k # 0
  <2> DEFINE inc == incidents[k]
  <2>1. PICK last : last \in LastRow(c)
    BY <1>6 DEF Judged, Opened
  <2>2. Follows(c, last)
    BY <2>1, FollowsAll DEF Judged
  <2>3. /\ last \in 1..n /\ rows[last].client = c
        /\ \A i \in 1..n : rows[i].client = c => i <= last
    BY <1>1, <2>1 DEF LastRow
  <2>4. /\ k \in 1..m /\ inc.client = c /\ inc.opened \in 1..n
        /\ rows[inc.opened].client = c
    BY <1>1, <1>3, <1>6 DEF Judged, Opened
  <2>5. /\ inc.open /\ \A i \in Since(c, last) : Deserves(rows[i])
        /\ inc.peak_level = Max({rows[i].level : i \in Since(c, last)})
    BY <1>6, <2>2 DEF Follows
  <2>6. /\ open_ids'[c] = k /\ incidents'[k].client = c
        /\ incidents'[k].opened = inc.opened /\ incidents'[k].open
        /\ incidents'[k].peak_level = Larger(inc.peak_level, level)
    BY <1>6, <2>4, <2>5 DEF Touches
  <2>7. Since(c, n + 1)' = Since(c, last) \cup {n + 1}
    <3>1. Since(c, n + 1)' = {i \in inc.opened..(n + 1) : rows'[i].client = c}
      BY <2>6 DEF Since
    <3>2. Since(c, last) = {i \in inc.opened..last : rows[i].client = c}
      BY DEF Since
    <3> DEFINE f == inc.opened
    <3>3. f \in 1..n
      BY <2>4
    <3> HIDE DEF f
    <3>4. /\ \A i \in f..(n + 1) : i = n + 1 \/ (i \in 1..n /\ f <= i)
          /\ \A i \in f..last : i \in 1..n /\ i \in f..(n + 1)
          /\ \A i \in 1..n : f <= i /\ i <= last => i \in f..last
          /\ n + 1 \in f..(n + 1)
      BY <1>1, <2>3, <3>3
    <3>5. ASSUME NEW i \in f..(n + 1), rows'[i].client = c
          PROVE  i \in Since(c, last) \cup {n + 1}
      BY <1>1, <2>3, <3>2, <3>4, <3>5 DEF f
    <3>6. ASSUME NEW i \in Since(c, last) \cup {n + 1}
          PROVE  i \in f..(n + 1) /\ rows'[i].client = c
      BY <1>1, <3>2, <3>4 DEF f
    <3>7. QED
      BY <3>1, <3>5, <3>6 DEF f
  <2> DEFINE S == {rows[i].level : i \in Since(c, last)}
             T == {rows'[i].level : i \in Since(c, n + 1)'}
  <2>8. \A i \in Since(c, last) : i \in 1..n /\ rows'[i] = rows[i]
    <3>1. \A i \in inc.opened..last : i \in 1..n
      BY <1>1, <2>3, <2>4
    <3>2. QED
      BY <1>1, <3>1 DEF Since
  <2>9. T = S \cup {level}
    BY <1>1, <2>7, <2>8
  <2>10. inc.opened \in Since(c, last)
    BY <2>3, <2>4 DEF Since
  <2>11. S \in SUBSET ((-1)..4) /\ S # {}
    BY <1>3, <2>8, <2>10
  <2>12. /\ inc.peak_level = Max(S) /\ Max(S) \in S
         /\ \A x \in S : x <= Max(S)
    <3>1. inc.peak_level = Max(S)
      BY <2>5
    <3> HIDE DEF S
    <3>2. QED
      BY <2>11, <3>1, MaxExists
  <2>13. Max(T) = Larger(inc.peak_level, level)
    <3> DEFINE p == inc.peak_level
    <3> HIDE DEF S, T
    <3>1. /\ p \in S /\ \A x \in S : x <= p
          /\ T \in SUBSET ((-1)..4) /\ S \subseteq (-1)..4
      BY <1>3, <2>9, <2>11, <2>12
    <3> HIDE DEF p
    <3>2. Larger(p, level) \in T /\ \A x \in T : x <= Larger(p, level)
      BY <1>3, <2>9, <3>1 DEF Larger
    <3>3. Max(T) = Larger(p, level)
      BY <3>1, <3>2, MaxParts
    <3>4. QED
      BY <3>3 DEF p
  <2>14. \A i \in Since(c, n + 1)' : Deserves(rows'[i])
    BY <1>2, <1>6, <2>5, <2>7, <2>8
  <2>15. incidents'[open_ids'[c]].peak_level = Max(T)
    BY <2>6, <2>13
  <2>16. /\ open_ids'[c] # 0 /\ incidents'[open_ids'[c]].client = c
         /\ incidents'[open_ids'[c]].open /\ Deserves(rows'[n + 1])
    BY <1>2, <1>6, <2>6
  <2>17. QED
    BY <2>14, <2>15, <2>16 DEF Follows
<1>7. QED
  BY <1>4, <1>5, <1>6

(* A window is handled while the process goes on.                           *)
LEMMA JudgedDone ==
  ASSUME TypeOK, TypeOK', Judged, NEW c \in Clients, NEW w \in Accumulator,
         NEW seen \in SUBSET Id, NEW o \in Outcomes, w.entries \subseteq Id,
         o.stage = "done", HandleClosedWindow(c, w, seen, o),
         UNCHANGED <<fingerprint_only, crashes>>
  PROVE  Judged'
<1>1. PICK n : n = Len(rows)
  OBVIOUS
<1>2. /\ Extends(n, c, o.level, o.alarm)
      /\ o.level \in Levels /\ o.alarm \in BOOLEAN
      /\ fingerprint_only => UNCHANGED <<incidents, verdictp, open_ids>>
      /\ ~fingerprint_only =>
           /\ Touches(c, o.level, o.alarm)
           /\ verdictp' = [verdictp EXCEPT ![c] = o.level]
  BY <1>1, Handled
<1>3. CASE fingerprint_only
  BY <1>2, <1>3, JudgedPassive
<1>4. CASE ~fingerprint_only
  <2>1. Opened' /\ OnlyCrashesOrphan'
    BY <1>2, <1>4, OpenedStep
  <2>2. RowsExplainVerdicts'
    BY <1>2, <1>4, ExplainedStep
  <2>3. ASSUME NEW d \in Clients, NEW last \in LastRow(d)'
        PROVE  Follows(d, last)'
    <3>1. CASE d = c
      <4>1. last = n + 1
        BY <1>2, <3>1, LastRowStep
      <4>2. Follows(c, n + 1)'
        BY <1>2, <1>4, FollowsOwn
      <4>3. QED
        BY <3>1, <4>1, <4>2
    <3>2. CASE d # c
      <4>1. last \in LastRow(d)
        BY <1>2, <3>2, LastRowStep
      <4>2. QED
        BY <1>2, <1>4, <3>2, <4>1, FollowsOther
    <3>3. QED
      BY <3>1, <3>2
  <2>4. IncidentsFollowVerdicts'
    <3>1. ~fingerprint_only'
      BY <1>4
    <3>2. QED
      BY <2>3, <3>1 DEF IncidentsFollowVerdicts, Follows, Since
  <2>5. Passive'
    BY <1>4 DEF Passive
  <2>6. QED
    BY <2>1, <2>2, <2>4, <2>5 DEF Judged
<1>5. QED
  BY <1>3, <1>4

(* What is judged is judged well.                                           *)
LEMMA JudgedStep ==
  ASSUME TypeOK, TypeOK', Reading, Delivered, Judged, Next
  PROVE  Judged'
<1>1. ASSUME NEW c \in Clients, Forget, UNCHANGED fingerprint_only,
             NEW w \in Accumulator, w.entries \subseteq Id,
             NEW seen \in SUBSET Id, NEW o \in Outcomes, o.stage # "done",
             Persist(c, w, seen, o.level, o.alarm, o.stage)
      PROVE  Judged'
  <2>1. /\ Len(rows') \in {Len(rows), Len(rows) + 1}
        /\ \A i \in 1..Len(rows) : rows'[i] = rows[i]
        /\ Commits(o.stage) => Len(rows') = Len(rows) + 1
        /\ Len(rows') = Len(rows) + 1 =>
             rows'[Len(rows) + 1] = RowOf(c, w, seen, o.level, o.alarm)
    BY <1>1, RowsAfter
  <2>2. incidents' = incidents
    BY <1>1 DEF Persist
  <2>3. Len(rows') = Len(rows) + 1 =>
          /\ rows'[Len(rows) + 1].client = c
          /\ rows'[Len(rows) + 1].life = crashes
    BY <2>1 DEF RowOf
  <2>4. \/ verdictp' = verdictp
        \/ /\ ~fingerprint_only
           /\ Len(rows') = Len(rows) + 1
           /\ verdictp' = [verdictp EXCEPT ![c] = rows'[Len(rows) + 1].level]
    <3>1. CASE Publishes(o.stage)
      <4>1. /\ ~fingerprint_only /\ Len(rows') = Len(rows) + 1
            /\ verdictp' = [verdictp EXCEPT ![c] = o.level]
        BY <1>1, <2>1, <3>1 DEF Publishes, Commits, Persist
      <4>2. rows'[Len(rows) + 1].level = o.level
        BY <2>1, <4>1 DEF RowOf
      <4>3. QED
        BY <4>1, <4>2
    <3>2. CASE ~Publishes(o.stage)
      BY <1>1, <3>2 DEF Persist
    <3>3. QED
      BY <3>1, <3>2
  <2>5. QED
    BY <1>1, <2>1, <2>2, <2>3, <2>4, JudgedFailed
<1>2. ASSUME batch # <<>>, NEW o \in Outcomes, OnEventRolls(Head(batch), o)
      PROVE  Judged'
  <2> DEFINE id == Head(batch)
             c == stream[id].client
  <2>1. /\ c \in Clients /\ Seen(c, id) \in SUBSET Id
        /\ acc[c] \in Accumulator /\ acc[c].entries \subseteq Id
    BY <1>2, ClosesWindow DEF OnEventRolls
  <2>2. /\ o.stage = "done" /\ HandleClosedWindow(c, acc[c], Seen(c, id), o)
        /\ UNCHANGED <<fingerprint_only, crashes>>
    BY <1>2 DEF OnEventRolls
  <2>3. QED
    BY <2>1, <2>2, JudgedDone
<1>3. ASSUME batch # <<>>, NEW o \in Outcomes, OnEventFails(Head(batch), o)
      PROVE  Judged'
  <2> DEFINE id == Head(batch)
             c == stream[id].client
  <2>1. /\ c \in Clients /\ Seen(c, id) \in SUBSET Id
        /\ acc[c] \in Accumulator /\ acc[c].entries \subseteq Id
    BY <1>3, ClosesWindow DEF OnEventFails
  <2>2. /\ o.stage # "done" /\ Forget /\ UNCHANGED fingerprint_only
        /\ Persist(c, acc[c], Seen(c, id), o.level, o.alarm, o.stage)
    BY <1>3 DEF OnEventFails
  <2>3. QED
    BY <1>1, <2>1, <2>2
<1>4. ASSUME closing # <<>>, NEW o \in Outcomes, HandleSwept(o)
      PROVE  Judged'
  <2> DEFINE c == Head(closing).client
             w == Head(closing).window
  <2>1. /\ c \in Clients /\ w \in Accumulator /\ w.entries \subseteq Id
        /\ violations[c] \in SUBSET Id
    BY <1>4, SweptWindow
  <2>2. /\ o.stage = "done" /\ HandleClosedWindow(c, w, violations[c], o)
        /\ UNCHANGED <<fingerprint_only, crashes>>
    BY <1>4 DEF HandleSwept, history
  <2>3. QED
    BY <2>1, <2>2, JudgedDone
<1>5. ASSUME closing # <<>>, NEW o \in Outcomes, SweepFails(o)
      PROVE  Judged'
  <2> DEFINE c == Head(closing).client
             w == Head(closing).window
  <2>1. /\ c \in Clients /\ w \in Accumulator /\ w.entries \subseteq Id
        /\ violations[c] \in SUBSET Id
    BY <1>5, SweptWindow
  <2>2. /\ o.stage # "done" /\ Forget /\ UNCHANGED fingerprint_only
        /\ Persist(c, w, violations[c], o.level, o.alarm, o.stage)
    BY <1>5 DEF SweepFails
  <2>3. QED
    BY <1>1, <2>1, <2>2
<1>6. ASSUME UNCHANGED <<fingerprint_only, rows, incidents, verdictp,
                         open_ids, crashes>>
      PROVE  Judged'
  BY <1>6, JudgedKept
<1>7. ASSUME batch # <<>>, OnEvent(Head(batch))
      PROVE  Judged'
  BY <1>6, <1>7 DEF OnEvent, persisted
<1>8. ASSUME NEW order \in SetToSeqs(StaleClients), StartSweep(order)
      PROVE  Judged'
  BY <1>6, <1>8 DEF StartSweep, persisted, history
<1>9. ASSUME NEW c, NEW kind, Emit(c, kind)
      PROVE  Judged'
  BY <1>6, <1>9 DEF Emit, persisted, history
<1>10. CASE Advance \/ XReadGroup \/ ParseEntry \/ XAck
  BY <1>6, <1>10 DEF Advance, XReadGroup, ParseEntry, XAck, persisted, history
<1>11. CASE Crash
  <2>1. /\ Forget
        /\ UNCHANGED <<fingerprint_only, rows, incidents, verdictp>>
    BY <1>11 DEF Crash, persisted
  <2>2. Len(rows) \in Nat
    BY RowParts DEF Recorded
  <2>3. Len(rows') = Len(rows) /\ Len(rows') # Len(rows) + 1
    <3>1. \A n \in Nat : n # n + 1
      OBVIOUS
    <3>2. QED
      BY <2>1, <2>2, <3>1
  <2>4. \A i \in 1..Len(rows) : rows'[i] = rows[i]
    BY <2>1
  <2>5. QED
    BY <2>1, <2>3, <2>4, JudgedFailed
<1>12. QED
  BY <1>2, <1>3, <1>4, <1>5, <1>7, <1>8, <1>9, <1>10, <1>11 DEF Next

-----------------------------------------------------------------------------
(* The scores.                                                              *)

(* The order of the reader's entries: everything delivered before is less   *)
(* than what is read next.                                                  *)
LEMMA InOrderStep ==
  ASSUME TypeOK, Reading, InOrder, Next
  PROVE  InOrder'
<1>1. ASSUME UNCHANGED <<inbox, batch>>
      PROVE  InOrder'
  BY <1>1 DEF InOrder
<1>2. CASE XReadGroup
  <2>1. /\ delivered \in Nat /\ batch' = <<>>
        /\ Len(inbox') \in Nat
        /\ \A i \in 1..Len(inbox') : inbox'[i] = delivered + i
    <3>1. /\ Len(inbox') = BatchEnd - delivered /\ delivered < BatchEnd
          /\ BatchEnd \in Nat
          /\ \A i \in 1..Len(inbox') : inbox'[i] = delivered + i
      BY <1>2, ReadType
    <3>2. delivered \in Nat /\ batch' = <<>>
      BY <1>2, Types DEF XReadGroup, Reading
    <3>3. Len(inbox') \in Nat
      BY <3>1, <3>2
    <3>4. QED
      BY <3>1, <3>2, <3>3
  <2>2. \A i, j \in 1..Len(inbox') : i < j => inbox'[i] < inbox'[j]
    BY <2>1
  <2>3. QED
    BY <2>1, <2>2 DEF InOrder
<1>3. CASE ParseEntry
  <2>1. /\ inbox \in Seq(1..delivered) /\ inbox # <<>>
        /\ batch \in Seq(1..delivered) /\ delivered \in Nat
    BY <1>3, Types DEF ParseEntry
  <2>2. /\ inbox' = Tail(inbox) /\ Len(inbox) \in Nat \ {0}
        /\ Len(inbox') = Len(inbox) - 1
        /\ \A i \in 1..(Len(inbox) - 1) : inbox'[i] = inbox[i + 1]
        /\ Head(inbox) = inbox[1] /\ inbox[1] \in 1..delivered
    BY <1>3, <2>1, TailParts DEF ParseEntry
  <2>3. \A i \in 1..Len(inbox') : /\ i + 1 \in 1..Len(inbox)
                                  /\ 1 \in 1..Len(inbox) /\ 1 < i + 1
                                  /\ inbox'[i] = inbox[i + 1]
    BY <2>2
  <2>4. \A i, j \in 1..Len(inbox') : i < j => inbox'[i] < inbox'[j]
    <3>1. TAKE i, j \in 1..Len(inbox')
    <3>2. HAVE i < j
    <3>3. i + 1 < j + 1
      BY <3>2
    <3>4. QED
      BY <2>3, <3>3 DEF InOrder
  <2>5. \A i \in 1..Len(inbox') : inbox[1] < inbox'[i]
    BY <2>3 DEF InOrder
  <2>6. \A i \in 1..Len(batch) : batch[i] < inbox[1]
    <3>1. 1 \in 1..Len(inbox)
      BY <2>2
    <3>2. QED
      BY <3>1 DEF InOrder
  <2>7. \A i \in 1..Len(batch), j \in 1..Len(inbox') : batch[i] < inbox'[j]
    BY <2>3 DEF InOrder
  <2>8. CASE batch' = batch
    BY <2>4, <2>7, <2>8 DEF InOrder
  <2>9. CASE batch' = Append(batch, inbox[1])
    <3>1. /\ Len(batch) \in Nat /\ Len(batch') = Len(batch) + 1
          /\ \A i \in 1..Len(batch) : batch'[i] = batch[i]
          /\ batch'[Len(batch) + 1] = inbox[1]
      BY <2>1, <2>2, <2>9, AppendParts
    <3>2. /\ \A i \in 1..Len(batch') :
               i \in 1..Len(batch) \/ i = Len(batch) + 1
          /\ \A i, j \in 1..Len(batch') : i < j => i \in 1..Len(batch)
      BY <3>1
    <3>3. \A i, j \in 1..Len(batch') : i < j => batch'[i] < batch'[j]
      <4>1. TAKE i, j \in 1..Len(batch')
      <4>2. HAVE i < j
      <4>3. i \in 1..Len(batch) /\ batch'[i] = batch[i]
        BY <3>1, <3>2, <4>2
      <4>4. CASE j \in 1..Len(batch)
        BY <3>1, <4>2, <4>3, <4>4 DEF InOrder
      <4>5. CASE j = Len(batch) + 1
        BY <2>6, <3>1, <4>3, <4>5
      <4>6. QED
        BY <3>2, <4>4, <4>5
    <3>4. \A i \in 1..Len(batch'), j \in 1..Len(inbox') : batch'[i] < inbox'[j]
      BY <2>5, <2>7, <3>1, <3>2
    <3>5. QED
      BY <2>4, <3>3, <3>4 DEF InOrder
  <2>10. QED
    BY <1>3, <2>2, <2>8, <2>9 DEF ParseEntry
<1>4. CASE XAck
  BY <1>4, <1>1 DEF XAck
<1>5. ASSUME Forget PROVE InOrder'
  BY <1>5 DEF InOrder, Forget
<1>6. ASSUME batch # <<>>, Consume, UNCHANGED inbox PROVE InOrder'
  <2>1. /\ batch' = Tail(batch) /\ Len(batch) \in Nat \ {0}
        /\ Len(batch') = Len(batch) - 1
        /\ \A i \in 1..(Len(batch) - 1) : batch'[i] = batch[i + 1]
    BY <1>6, NextEntry DEF Consume
  <2>2. \A i \in 1..Len(batch') : /\ i + 1 \in 1..Len(batch)
                                  /\ batch'[i] = batch[i + 1]
    BY <2>1
  <2>3. \A i, j \in 1..Len(batch') : i < j => batch'[i] < batch'[j]
    <3>1. TAKE i, j \in 1..Len(batch')
    <3>2. HAVE i < j
    <3>3. i + 1 < j + 1
      BY <3>2
    <3>4. QED
      BY <2>2, <3>3 DEF InOrder
  <2>4. QED
    BY <1>6, <2>2, <2>3 DEF InOrder
<1>7. ASSUME batch # <<>>, OnEvent(Head(batch)) PROVE InOrder'
  BY <1>6, <1>7 DEF OnEvent
<1>8. ASSUME batch # <<>>, NEW o \in Outcomes, OnEventRolls(Head(batch), o)
      PROVE  InOrder'
  BY <1>6, <1>8 DEF OnEventRolls
<1>9. ASSUME NEW o \in Outcomes, OnEventFails(Head(batch), o) \/ SweepFails(o)
      PROVE  InOrder'
  BY <1>5, <1>9 DEF OnEventFails, SweepFails
<1>10. ASSUME NEW order \in SetToSeqs(StaleClients), StartSweep(order)
       PROVE  InOrder'
  BY <1>1, <1>10 DEF StartSweep, reader
<1>11. ASSUME NEW o \in Outcomes, HandleSwept(o) PROVE InOrder'
  BY <1>1, <1>11 DEF HandleSwept, reader
<1>12. ASSUME NEW c, NEW kind, Emit(c, kind) PROVE InOrder'
  BY <1>1, <1>12 DEF Emit, reader
<1>13. CASE Advance \/ Crash
  BY <1>1, <1>5, <1>13 DEF Advance, Crash, reader
<1>14. QED
  BY <1>2, <1>3, <1>4, <1>7, <1>8, <1>9, <1>10, <1>11, <1>12, <1>13 DEF Next

(* The row a window becomes, by what it scores.                             *)
Adds(w, seen) ==
  /\ Len(rows) \in Nat /\ Len(rows') \in {Len(rows), Len(rows) + 1}
  /\ DOMAIN rows = 1..Len(rows) /\ DOMAIN rows' = 1..Len(rows')
  /\ \A i \in 1..Len(rows) : rows'[i] = rows[i]
  /\ Len(rows') = Len(rows) + 1 =>
       /\ rows'[Len(rows) + 1].entries = w.entries
       /\ rows'[Len(rows) + 1].violations = seen

(* The row that handling a window may add has its entries and scores.       *)
LEMMA PersistAdds ==
  ASSUME TypeOK, NEW c \in Clients, NEW w \in Accumulator,
         NEW seen \in SUBSET Id, NEW o \in Outcomes, w.entries \subseteq Id,
         Persist(c, w, seen, o.level, o.alarm, o.stage)
  PROVE  Adds(w, seen)
<1>1. /\ Len(rows) \in Nat /\ Len(rows') \in {Len(rows), Len(rows) + 1}
      /\ DOMAIN rows = 1..Len(rows) /\ DOMAIN rows' = 1..Len(rows')
      /\ \A i \in 1..Len(rows) : rows'[i] = rows[i]
      /\ Len(rows') = Len(rows) + 1 =>
           rows'[Len(rows) + 1] = RowOf(c, w, seen, o.level, o.alarm)
  BY RowsAfter
<1>2. /\ RowOf(c, w, seen, o.level, o.alarm).entries = w.entries
      /\ RowOf(c, w, seen, o.level, o.alarm).violations = seen
  BY DEF RowOf
<1>3. QED
  BY <1>1, <1>2 DEF Adds

(* It is a fair one.                                                        *)
Fair(w, seen) ==
  /\ \A x \in seen, i \in 1..Len(rows) : x \notin rows[i].violations
  /\ \A x \in seen \ w.entries :
       /\ seen \ w.entries = {x}
       /\ \A e \in w.entries : e < x

(* Then all rows are.                                                       *)
LEMMA FairRows ==
  ASSUME ScoredOnce, AtMostOneStray, NEW w, NEW seen, Adds(w, seen),
         Fair(w, seen)
  PROVE  ScoredOnce' /\ AtMostOneStray'
<1>1. PICK n : n = Len(rows)
  OBVIOUS
<1>2. PICK p : p = Len(rows')
  OBVIOUS
<1>3. /\ n \in Nat /\ p \in {n, n + 1}
      /\ DOMAIN rows = 1..n /\ DOMAIN rows' = 1..p
      /\ \A i \in 1..n : rows'[i] = rows[i]
      /\ p = n + 1 => /\ rows'[n + 1].entries = w.entries
                      /\ rows'[n + 1].violations = seen
  BY <1>1, <1>2 DEF Adds
<1>4. \A i \in 1..p : i \in 1..n \/ (i = n + 1 /\ p = n + 1)
  BY <1>3, OneMore
<1>5. /\ \A i, j \in 1..n :
           rows[i].violations \cap rows[j].violations # {} => i = j
      /\ \A x \in seen, i \in 1..n : x \notin rows[i].violations
  BY <1>1 DEF ScoredOnce, Fair
<1>6. \A i, j \in 1..p :
        rows'[i].violations \cap rows'[j].violations # {} => i = j
  <2>1. TAKE i, j \in 1..p
  <2>2. CASE i \in 1..n /\ j \in 1..n
    BY <1>3, <1>5, <2>2
  <2>3. CASE i \in 1..n /\ j = n + 1 /\ p = n + 1
    BY <1>3, <1>5, <2>3
  <2>4. CASE i = n + 1 /\ p = n + 1 /\ j \in 1..n
    BY <1>3, <1>5, <2>4
  <2>5. CASE i = n + 1 /\ j = n + 1
    BY <2>5
  <2>6. QED
    BY <1>4, <2>2, <2>3, <2>4, <2>5
<1>7. ScoredOnce'
  BY <1>2, <1>6 DEF ScoredOnce
<1>8. ASSUME NEW i \in 1..p, NEW x \in rows'[i].violations \ rows'[i].entries
      PROVE  /\ rows'[i].violations \ rows'[i].entries = {x}
             /\ \A e \in rows'[i].entries : e < x
  <2>1. CASE i \in 1..n
    BY <1>3, <1>8, <2>1 DEF AtMostOneStray
  <2>2. CASE i = n + 1 /\ p = n + 1
    BY <1>3, <1>8, <2>2 DEF Fair
  <2>3. QED
    BY <1>4, <2>1, <2>2
<1>9. AtMostOneStray'
  <2>1. ASSUME NEW i \in 1..p, NEW x \in rows'[i].violations, NEW j \in 1..p,
               x \in rows'[j].violations
        PROVE  j = i
    BY <1>6, <2>1
  <2>2. QED
    BY <1>3, <1>8, <2>1 DEF AtMostOneStray
<1>10. QED
  BY <1>7, <1>9

(* What rows score has been routed.                                         *)
LEMMA RoutedRows ==
  ASSUME NEW w, NEW seen, Adds(w, seen), \A x \in seen : Routed(x)',
         \A i \in 1..Len(rows) : \A x \in rows[i].violations : Routed(x)'
  PROVE  \A i \in 1..Len(rows') : \A x \in rows'[i].violations : Routed(x)'
<1>1. PICK n : n = Len(rows)
  OBVIOUS
<1>2. PICK p : p = Len(rows')
  OBVIOUS
<1>3. /\ n \in Nat /\ p \in {n, n + 1}
      /\ \A i \in 1..n : rows'[i] = rows[i]
      /\ p = n + 1 => rows'[n + 1].violations = seen
  BY <1>1, <1>2 DEF Adds
<1>4. \A i \in 1..p : i \in 1..n \/ (i = n + 1 /\ p = n + 1)
  BY <1>3, OneMore
<1>5. \A i \in 1..n : \A x \in rows'[i].violations : Routed(x)'
  BY <1>1, <1>3
<1>6. p = n + 1 => \A x \in rows'[n + 1].violations : Routed(x)'
  BY <1>3
<1>7. \A i \in 1..p : \A x \in rows'[i].violations : Routed(x)'
  BY <1>4, <1>5, <1>6
<1>8. QED
  BY <1>2, <1>7

(* The next entry of the batch is routed before all others that are left.   *)
LEMMA NextRouted ==
  ASSUME TypeOK, Reading, InOrder, batch # <<>>, UNCHANGED inbox,
         batch' = Tail(batch), ingest # "read", NEW id, id = Head(batch)
  PROVE  /\ Routed(id)'
         /\ \A x \in 1..delivered : Routed(x) => Routed(x)' /\ x < id
<1>1. /\ batch' = Tail(batch) /\ Len(batch) \in Nat \ {0}
      /\ Head(batch) = batch[1] /\ Len(batch') = Len(batch) - 1
      /\ \A i \in 1..(Len(batch) - 1) : batch'[i] = batch[i + 1]
  BY NextEntry
<1>2. inbox = <<>> /\ inbox' = <<>>
  BY DEF Reading
<1>3. \A i \in 1..Len(batch') : /\ i + 1 \in 1..Len(batch) /\ 1 < i + 1
                                /\ 1 \in 1..Len(batch)
                                /\ batch'[i] = batch[i + 1]
  BY <1>1
<1>4. Routed(id)'
  <2>1. \A i \in 1..Len(batch') : batch[1] < batch'[i]
    BY <1>3 DEF InOrder
  <2>2. \A i \in 1..Len(batch') : id < batch'[i]
    BY <1>1, <2>1
  <2>3. QED
    BY <1>2, <2>2 DEF Routed
<1>5. \A x \in 1..delivered : Routed(x) => Routed(x)'
  BY <1>2, <1>3 DEF Routed
<1>6. 1 \in 1..Len(batch)
  BY <1>1
<1>7. \A x \in 1..delivered : Routed(x) => x < id
  BY <1>1, <1>6 DEF Routed
<1>8. QED
  BY <1>4, <1>5, <1>7

(* Reading and parsing leave in front what has been routed.                 *)
LEMMA StaysRouted ==
  ASSUME TypeOK, Reading, XReadGroup \/ ParseEntry, NEW x \in 1..delivered,
         Routed(x)
  PROVE  Routed(x)'
<1>1. CASE XReadGroup
  <2>1. /\ \A i \in 1..Len(inbox') : inbox'[i] = delivered + i
        /\ Len(inbox') = BatchEnd - delivered /\ BatchEnd \in Nat
    BY <1>1, ReadType
  <2>2. delivered \in Nat /\ batch' = <<>>
    BY <1>1, Types DEF XReadGroup, Reading
  <2>3. Len(inbox') \in Int
    BY <2>1, <2>2
  <2>4. \A i \in 1..Len(inbox') : x < inbox'[i]
    BY <2>1, <2>2, <2>3
  <2>5. QED
    BY <2>2, <2>4 DEF Routed
<1>2. CASE ParseEntry
  <2>1. /\ inbox \in Seq(1..delivered) /\ inbox # <<>>
        /\ batch \in Seq(1..delivered) /\ delivered \in Nat
    BY <1>2, Types DEF ParseEntry
  <2>2. /\ inbox' = Tail(inbox) /\ Len(inbox) \in Nat \ {0}
        /\ Len(inbox') = Len(inbox) - 1
        /\ \A i \in 1..(Len(inbox) - 1) : inbox'[i] = inbox[i + 1]
        /\ Head(inbox) = inbox[1] /\ inbox[1] \in 1..delivered
    BY <1>2, <2>1, TailParts DEF ParseEntry
  <2>3. /\ \A i \in 1..Len(inbox') : /\ i + 1 \in 1..Len(inbox)
                                     /\ inbox'[i] = inbox[i + 1]
        /\ 1 \in 1..Len(inbox)
    BY <2>2
  <2>4. \A i \in 1..Len(inbox') : x < inbox'[i]
    BY <2>3 DEF Routed
  <2>5. \A i \in 1..Len(batch') : x < batch'[i]
    <3>1. CASE batch' = batch
      BY <3>1 DEF Routed
    <3>2. CASE batch' = Append(batch, inbox[1])
      <4>1. /\ Len(batch) \in Nat /\ Len(batch') = Len(batch) + 1
            /\ \A i \in 1..Len(batch) : batch'[i] = batch[i]
            /\ batch'[Len(batch) + 1] = inbox[1]
        BY <2>1, <2>2, <3>2, AppendParts
      <4>2. x < inbox[1]
        BY <2>3 DEF Routed
      <4>3. \A i \in 1..Len(batch) : x < batch'[i]
        BY <4>1 DEF Routed
      <4>4. \A i \in 1..Len(batch') :
              i \in 1..Len(batch) \/ i = Len(batch) + 1
        BY <4>1
      <4>5. QED
        BY <4>1, <4>2, <4>3, <4>4
    <3>3. QED
      BY <1>2, <2>2, <3>1, <3>2 DEF ParseEntry
  <2>6. QED
    BY <2>4, <2>5 DEF Routed
<1>3. QED
  BY <1>1, <1>2

(* Only what has been routed is in windows, buffers and scores.             *)
LEMMA RoutedFirstStep ==
  ASSUME TypeOK, Reading, Delivered, InOrder, RoutedFirst, Next
  PROVE  RoutedFirst'
<1>1. /\ \A c \in Clients : acc[c] # NoWindow =>
           \A x \in acc[c].entries : Routed(x) /\ x \in 1..delivered
      /\ \A c \in Clients : \A x \in violations[c] :
           Routed(x) /\ x \in 1..delivered
      /\ \A i \in 1..Len(rows) : \A x \in rows[i].violations :
           Routed(x) /\ x \in 1..delivered
  BY Types DEF RoutedFirst, Delivered
<1>2. ASSUME \A x \in 1..delivered : Routed(x) => Routed(x)',
             UNCHANGED <<acc, violations, rows>>
      PROVE  RoutedFirst'
  BY <1>1, <1>2 DEF RoutedFirst
<1>3. ASSUME UNCHANGED <<inbox, batch>>
      PROVE  \A x \in 1..delivered : Routed(x) => Routed(x)'
  BY <1>3 DEF Routed
<1>4. CASE XReadGroup \/ ParseEntry
  <2>1. UNCHANGED <<acc, violations, rows>>
    BY <1>4 DEF XReadGroup, ParseEntry, scoring, persisted
  <2>2. QED
    BY <1>2, <1>4, <2>1, StaysRouted
<1>5. CASE XAck
  BY <1>2, <1>3, <1>5 DEF XAck, scoring, persisted
<1>6. ASSUME batch # <<>>, NEW c, NEW id, Routes(c, id), Consume,
             UNCHANGED inbox, ingest # "read",
             violations' \in {[violations EXCEPT ![c] = Seen(c, id)],
                             [violations EXCEPT ![c] = {}]},
             \/ rows' = rows
             \/ Adds(acc[c], Seen(c, id))
      PROVE  RoutedFirst'
  <2>1. id = Head(batch) /\ batch' = Tail(batch)
    BY <1>6 DEF Routes, Consume
  <2>2. Routed(id)' /\ \A x \in 1..delivered : Routed(x) => Routed(x)'
    BY <1>6, <2>1, NextRouted
  <2>3. /\ c \in Clients
        /\ \A d \in Clients : d # c => acc'[d] = acc[d]
        /\ \A x \in acc'[c].entries :
             x = id \/ (acc[c] # NoWindow /\ x \in acc[c].entries)
    BY <1>6, RoutedParts
  <2>4. \A d \in Clients : acc'[d] # NoWindow =>
          \A x \in acc'[d].entries : Routed(x)'
    BY <1>1, <2>2, <2>3
  <2>5. \A x \in Seen(c, id) : Routed(x)'
    BY <1>1, <2>2, <2>3 DEF Seen
  <2>6. \A d \in Clients : \A x \in violations'[d] : Routed(x)'
    <3>1. /\ \A d \in Clients : d # c => violations'[d] = violations[d]
          /\ violations'[c] \in {Seen(c, id), {}}
      BY <1>6, <2>3, Types
    <3>2. QED
      BY <1>1, <2>2, <2>5, <3>1
  <2>7. \A i \in 1..Len(rows) : \A x \in rows[i].violations : Routed(x)'
    BY <1>1, <2>2
  <2>8. \A i \in 1..Len(rows') : \A x \in rows'[i].violations : Routed(x)'
    <3>1. CASE rows' = rows
      BY <2>7, <3>1
    <3>2. CASE Adds(acc[c], Seen(c, id))
      BY <2>5, <2>7, <3>2, RoutedRows
    <3>3. QED
      BY <1>6, <3>1, <3>2
  <2>9. QED
    BY <2>4, <2>6, <2>8 DEF RoutedFirst
<1>7. ASSUME batch # <<>>, OnEvent(Head(batch)) PROVE RoutedFirst'
  <2>1. PICK id : id = Head(batch)
    OBVIOUS
  <2>2. PICK c : c = stream[id].client
    OBVIOUS
  <2>3. /\ Routes(c, id) /\ Consume /\ UNCHANGED inbox /\ ingest # "read"
        /\ violations' = [violations EXCEPT ![c] = Seen(c, id)]
        /\ rows' = rows
    BY <1>7, <2>1, <2>2 DEF OnEvent, TakeNext, Routes, persisted
  <2>4. QED
    BY <1>6, <1>7, <2>3
<1>8. ASSUME batch # <<>>, NEW o \in Outcomes, OnEventRolls(Head(batch), o)
       PROVE  RoutedFirst'
  <2>1. PICK id : id = Head(batch)
    OBVIOUS
  <2>2. PICK c : c = stream[id].client
    OBVIOUS
  <2>3. /\ Routes(c, id) /\ Consume /\ UNCHANGED inbox /\ ingest # "read"
        /\ violations' = [violations EXCEPT ![c] = {}]
        /\ Rolls(acc[c], stream[id].ts)
        /\ Persist(c, acc[c], Seen(c, id), o.level, o.alarm, o.stage)
    BY <1>8, <2>1, <2>2
       DEF OnEventRolls, TakeNext, Routes, HandleClosedWindow, BufferPopped
  <2>4. /\ c \in Clients /\ Seen(c, id) \in SUBSET Id
        /\ acc[c] \in Accumulator /\ acc[c].entries \subseteq Id
    BY <1>8, <2>1, <2>2, <2>3, ClosesWindow
  <2>5. Adds(acc[c], Seen(c, id))
    BY <2>3, <2>4, PersistAdds
  <2>6. QED
    BY <1>6, <1>8, <2>3, <2>5
<1>9. ASSUME NEW o \in Outcomes, OnEventFails(Head(batch), o) \/ SweepFails(o)
       PROVE  RoutedFirst'
  <2>1. \A x : Routed(x)'
    BY <1>9 DEF OnEventFails, SweepFails, Forget, Routed
  <2>2. QED
    BY <2>1 DEF RoutedFirst
<1>10. CASE Crash
  <2>1. \A x : Routed(x)'
    BY <1>10 DEF Crash, Forget, Routed
  <2>2. QED
    BY <2>1 DEF RoutedFirst
<1>11. ASSUME NEW order \in SetToSeqs(StaleClients), StartSweep(order)
       PROVE  RoutedFirst'
  <2>1. /\ UNCHANGED <<inbox, batch, violations, rows>>
        /\ acc' = [c \in Clients |->
                     IF c \in StaleClients THEN NoWindow ELSE acc[c]]
    BY <1>11 DEF StartSweep, reader, persisted
  <2>2. \A x \in 1..delivered : Routed(x) => Routed(x)'
    BY <1>3, <2>1
  <2>3. QED
    BY <1>1, <2>1, <2>2 DEF RoutedFirst
<1>12. ASSUME closing # <<>>, NEW o \in Outcomes, HandleSwept(o)
       PROVE  RoutedFirst'
  <2>1. PICK c : c = Head(closing).client
    OBVIOUS
  <2>2. PICK w : w = Head(closing).window
    OBVIOUS
  <2>3. /\ c \in Clients /\ w \in Accumulator /\ w.entries \subseteq Id
        /\ violations[c] \in SUBSET Id
    BY <1>12, <2>1, <2>2, SweptWindow
  <2>4. /\ UNCHANGED <<inbox, batch, acc>>
        /\ violations' = [violations EXCEPT ![c] = {}]
        /\ Persist(c, w, violations[c], o.level, o.alarm, o.stage)
    BY <1>12, <2>1, <2>2
       DEF HandleSwept, HandleClosedWindow, BufferPopped, reader
  <2>5. Adds(w, violations[c])
    BY <2>3, <2>4, PersistAdds
  <2>6. \A x \in 1..delivered : Routed(x) => Routed(x)'
    BY <1>3, <2>4
  <2>7. PICK seen : seen = violations[c]
    OBVIOUS
  <2>8. \A i \in 1..Len(rows') : \A x \in rows'[i].violations : Routed(x)'
    <3>1. \A x \in seen : Routed(x)'
      BY <1>1, <2>3, <2>6, <2>7
    <3>2. \A i \in 1..Len(rows) : \A x \in rows[i].violations : Routed(x)'
      BY <1>1, <2>6
    <3>3. Adds(w, seen)
      BY <2>5, <2>7
    <3>4. QED
      BY <3>1, <3>2, <3>3, RoutedRows
  <2>9. \A d \in Clients : \A x \in violations'[d] : Routed(x)'
    <3>1. /\ \A d \in Clients : d # c => violations'[d] = violations[d]
          /\ violations'[c] = {}
      BY <2>3, <2>4, Types
    <3>2. QED
      BY <1>1, <2>6, <3>1
  <2>10. QED
    BY <1>1, <2>4, <2>6, <2>8, <2>9 DEF RoutedFirst
<1>13. ASSUME NEW c, NEW kind, Emit(c, kind) PROVE RoutedFirst'
  BY <1>2, <1>3, <1>13 DEF Emit, reader, scoring, persisted
<1>14. CASE Advance
  BY <1>2, <1>3, <1>14 DEF Advance, reader, scoring, persisted
<1>15. QED
  BY <1>4, <1>5, <1>7, <1>8, <1>9, <1>10, <1>11, <1>12, <1>13, <1>14
     DEF Next

(* The windows the sweep closed stay apart.                                 *)
LEMMA SweptOnceStep ==
  ASSUME TypeOK, Reading, Delivered, SweptOnce, Next
  PROVE  SweptOnce'
<1>1. ASSUME UNCHANGED <<acc, closing>> PROVE SweptOnce'
  BY <1>1 DEF SweptOnce
<1>2. ASSUME closing' = <<>> PROVE SweptOnce'
  BY <1>2 DEF SweptOnce
<1>3. ASSUME NEW order \in SetToSeqs(StaleClients), StartSweep(order)
      PROVE  SweptOnce'
  <2>1. /\ closing = <<>>
        /\ acc' = [c \in Clients |->
                     IF c \in StaleClients THEN NoWindow ELSE acc[c]]
    BY <1>3 DEF StartSweep
  <2>2. /\ \A i \in 1..Len(closing') : closing'[i].client \in StaleClients
        /\ \A i, j \in 1..Len(closing') :
              closing'[i].client = closing'[j].client => i = j
    BY <1>3, <2>1, SweptParts
  <2>3. \A c \in StaleClients : c \in Clients /\ acc'[c] = NoWindow
    BY <2>1 DEF StaleClients
  <2>4. QED
    BY <2>2, <2>3 DEF SweptOnce
<1>4. ASSUME closing # <<>>, NEW o \in Outcomes, HandleSwept(o)
      PROVE  SweptOnce'
  <2>1. /\ Len(closing) \in Nat \ {0}
        /\ Len(Tail(closing)) = Len(closing) - 1
        /\ \A i \in 1..(Len(closing) - 1) : Tail(closing)[i] = closing[i + 1]
    BY <1>4, SweptWindow
  <2>2. closing' = Tail(closing) /\ acc' = acc
    BY <1>4 DEF HandleSwept
  <2>3. \A i \in 1..Len(closing') : /\ i + 1 \in 1..Len(closing) /\ i \in Int
                                    /\ closing'[i] = closing[i + 1]
    BY <2>1, <2>2
  <2>4. \A i, j \in Int : i + 1 = j + 1 => i = j
    OBVIOUS
  <2>5. QED
    BY <2>2, <2>3, <2>4 DEF SweptOnce
<1>5. ASSUME NEW o \in Outcomes, OnEventFails(Head(batch), o) \/ SweepFails(o)
      PROVE  SweptOnce'
  BY <1>2, <1>5 DEF OnEventFails, SweepFails, Forget
<1>6. CASE Crash
  BY <1>2, <1>6 DEF Crash, Forget
<1>7. ASSUME batch # <<>>, OnEvent(Head(batch)) PROVE SweptOnce'
  BY <1>2, <1>7 DEF OnEvent, TakeNext
<1>8. ASSUME batch # <<>>, NEW o \in Outcomes, OnEventRolls(Head(batch), o)
      PROVE  SweptOnce'
  BY <1>2, <1>8 DEF OnEventRolls, TakeNext
<1>9. ASSUME NEW c, NEW kind, Emit(c, kind) PROVE SweptOnce'
  BY <1>1, <1>9 DEF Emit, scoring
<1>10. CASE Advance \/ XReadGroup \/ ParseEntry \/ XAck
  BY <1>1, <1>10 DEF Advance, XReadGroup, ParseEntry, XAck, scoring
<1>11. QED
  BY <1>3, <1>4, <1>5, <1>6, <1>7, <1>8, <1>9, <1>10 DEF Next

(* An event's window is judged by its own events and this one.              *)
LEMMA EventFair ==
  ASSUME TypeOK, Reading, Delivered, InOrder, RoutedFirst, Buffered,
         batch # <<>>, NEW c, NEW id, id = Head(batch),
         c = stream[id].client, TakeNext(id)
  PROVE  /\ \A x \in violations[c] : acc[c] # NoWindow /\ x \in acc[c].entries
         /\ \A x \in Seen(c, id), i \in 1..Len(rows) :
              x \notin rows[i].violations
         /\ \A x \in Seen(c, id) : stream[x].client = c
         /\ acc[c] # NoWindow => Fair(acc[c], Seen(c, id))
<1>1. /\ c \in Clients /\ id \in 1..delivered /\ id = batch[1]
      /\ 1 \in 1..Len(batch)
  BY NextEntry
<1>2. closing = <<>>
  BY DEF TakeNext
<1>3. \A x \in violations[c] :
        /\ stream[x].client = c
        /\ acc[c] # NoWindow /\ x \in acc[c].entries
        /\ \A i \in 1..Len(rows) : x \notin rows[i].violations
  BY <1>1, <1>2 DEF Buffered
<1>4. \A x \in Seen(c, id) : x \in violations[c] \/ x = id
  BY DEF Seen
<1>5. /\ \A i \in 1..Len(rows) : \A x \in rows[i].violations : x < id
      /\ acc[c] # NoWindow => \A x \in acc[c].entries : x < id
  BY <1>1 DEF RoutedFirst, Routed
<1>6. ~(id < id)
  BY <1>1
<1>7. \A x \in Seen(c, id), i \in 1..Len(rows) : x \notin rows[i].violations
  BY <1>3, <1>4, <1>5, <1>6
<1>8. acc[c] # NoWindow => Fair(acc[c], Seen(c, id))
  <2>1. \A x \in Seen(c, id) \ acc[c].entries : x = id
    BY <1>3, <1>4
  <2>2. QED
    BY <1>5, <1>7, <2>1 DEF Fair
<1>9. QED
  BY <1>3, <1>4, <1>7, <1>8

(* A window of the sweep by its own.                                        *)
LEMMA SweptFair ==
  ASSUME TypeOK, Reading, Delivered, SweptOnce, Buffered, closing # <<>>,
         NEW c, NEW w, c = Head(closing).client, w = Head(closing).window
  PROVE  /\ Fair(w, violations[c])
         /\ \A x \in violations[c] : stream[x].client = c
<1>1. /\ Head(closing) = closing[1] /\ c \in Clients /\ 1 \in 1..Len(closing)
  BY SweptWindow
<1>2. /\ acc[c] = NoWindow
      /\ \A i \in 1..Len(closing) : closing[i].client = c => i = 1
  BY <1>1 DEF SweptOnce
<1>3. \A x \in violations[c] :
        /\ stream[x].client = c
        /\ x \in w.entries
        /\ \A i \in 1..Len(rows) : x \notin rows[i].violations
  BY <1>1, <1>2 DEF Buffered
<1>4. QED
  BY <1>3 DEF Fair

(* No row takes more than one event that is not its own.                    *)
LEMMA RowsScoredStep ==
  ASSUME TypeOK, Reading, Delivered, InOrder, RoutedFirst, SweptOnce,
         Buffered, ScoredOnce, AtMostOneStray, Next
  PROVE  ScoredOnce' /\ AtMostOneStray'
<1>1. ASSUME rows' = rows PROVE ScoredOnce' /\ AtMostOneStray'
  BY <1>1 DEF ScoredOnce, AtMostOneStray
<1>2. ASSUME NEW o \in Outcomes, batch # <<>>,
             OnEventRolls(Head(batch), o) \/ OnEventFails(Head(batch), o)
      PROVE  ScoredOnce' /\ AtMostOneStray'
  <2>1. PICK id : id = Head(batch)
    OBVIOUS
  <2>2. PICK c : c = stream[id].client
    OBVIOUS
  <2>3. /\ TakeNext(id) /\ Rolls(acc[c], stream[id].ts)
        /\ Persist(c, acc[c], Seen(c, id), o.level, o.alarm, o.stage)
    BY <1>2, <2>1, <2>2 DEF OnEventRolls, OnEventFails, HandleClosedWindow
  <2>4. /\ c \in Clients /\ Seen(c, id) \in SUBSET Id /\ acc[c] # NoWindow
        /\ acc[c] \in Accumulator /\ acc[c].entries \subseteq Id
    BY <1>2, <2>1, <2>2, <2>3, ClosesWindow
  <2>5. Adds(acc[c], Seen(c, id))
    BY <2>3, <2>4, PersistAdds
  <2>6. Fair(acc[c], Seen(c, id))
    BY <1>2, <2>1, <2>2, <2>3, <2>4, EventFair
  <2>7. QED
    BY <2>5, <2>6, FairRows
<1>3. ASSUME closing # <<>>, NEW o \in Outcomes,
             HandleSwept(o) \/ SweepFails(o)
      PROVE  ScoredOnce' /\ AtMostOneStray'
  <2>1. PICK c : c = Head(closing).client
    OBVIOUS
  <2>2. PICK w : w = Head(closing).window
    OBVIOUS
  <2>3. /\ c \in Clients /\ w \in Accumulator /\ w.entries \subseteq Id
        /\ violations[c] \in SUBSET Id
    BY <1>3, <2>1, <2>2, SweptWindow
  <2>4. Persist(c, w, violations[c], o.level, o.alarm, o.stage)
    BY <1>3, <2>1, <2>2 DEF HandleSwept, SweepFails, HandleClosedWindow
  <2>5. Adds(w, violations[c])
    BY <2>3, <2>4, PersistAdds
  <2>6. Fair(w, violations[c])
    BY <1>3, <2>1, <2>2, SweptFair
  <2>7. QED
    BY <2>5, <2>6, FairRows
<1>4. ASSUME batch # <<>>, OnEvent(Head(batch))
      PROVE  ScoredOnce' /\ AtMostOneStray'
  BY <1>1, <1>4 DEF OnEvent, persisted
<1>5. ASSUME NEW order \in SetToSeqs(StaleClients), StartSweep(order)
      PROVE  ScoredOnce' /\ AtMostOneStray'
  BY <1>1, <1>5 DEF StartSweep, persisted
<1>6. ASSUME NEW c, NEW kind, Emit(c, kind)
      PROVE  ScoredOnce' /\ AtMostOneStray'
  BY <1>1, <1>6 DEF Emit, persisted
<1>7. CASE Advance \/ Crash \/ XReadGroup \/ ParseEntry \/ XAck
  BY <1>1, <1>7 DEF Advance, Crash, XReadGroup, ParseEntry, XAck, persisted
<1>8. QED
  BY <1>2, <1>3, <1>4, <1>5, <1>6, <1>7 DEF Next

(* What a buffer's events are, when rows take others.                       *)
LEMMA UnscoredKept ==
  ASSUME NEW w, NEW seen, NEW x, Adds(w, seen), x \notin seen,
         \A i \in 1..Len(rows) : x \notin rows[i].violations
  PROVE  \A i \in 1..Len(rows') : x \notin rows'[i].violations
<1>1. \A i \in 1..Len(rows') :
        i \in 1..Len(rows) \/ (i = Len(rows) + 1 /\ Len(rows') = Len(rows) + 1)
  BY OneMore DEF Adds
<1>2. \A i \in 1..Len(rows) : x \notin rows'[i].violations
  BY DEF Adds
<1>3. Len(rows') = Len(rows) + 1 => x \notin rows'[Len(rows) + 1].violations
  BY DEF Adds
<1>4. QED
  BY <1>1, <1>2, <1>3

(* Buffers go on scoring their own windows.                                 *)
LEMMA BufferedStep ==
  ASSUME TypeOK, Reading, Delivered, InOrder, RoutedFirst, SweptOnce,
         Buffered, Next
  PROVE  Buffered'
<1>1. ASSUME UNCHANGED <<stream, acc, violations, closing, rows>>
      PROVE  Buffered'
  BY <1>1 DEF Buffered
<1>2. ASSUME Forget PROVE Buffered'
  <2>1. \A c \in Clients : violations'[c] = {}
    BY <1>2 DEF Forget
  <2>2. QED
    BY <2>1 DEF Buffered
<1>3. ASSUME NEW d \in Clients \cup {NoClient}, NEW kind \in Kinds,
             Emit(d, kind)
      PROVE  Buffered'
  <2> DEFINE e == [client |-> d, ts |-> now, kind |-> kind]
  <2>1. e \in Entry /\ stream \in Seq(Entry)
    BY Types DEF Entry
  <2>2. /\ stream' = Append(stream, e)
        /\ UNCHANGED <<acc, violations, closing, rows>>
    BY <1>3 DEF Emit, scoring, persisted
  <2> HIDE DEF e
  <2>3. \A i \in 1..Len(stream) : stream'[i] = stream[i]
    BY <2>1, <2>2, AppendParts
  <2>4. \A c \in Clients : \A x \in violations[c] : x \in 1..Len(stream)
    BY Types
  <2>5. QED
    BY <2>2, <2>3, <2>4 DEF Buffered
<1>4. ASSUME batch # <<>>, OnEvent(Head(batch)) PROVE Buffered'
  <2>1. PICK id : id = Head(batch)
    OBVIOUS
  <2>2. PICK c : c = stream[id].client
    OBVIOUS
  <2>3. /\ TakeNext(id) /\ Routes(c, id) /\ ~Rolls(acc[c], stream[id].ts)
        /\ violations' = [violations EXCEPT ![c] = Seen(c, id)]
        /\ UNCHANGED <<stream, closing, rows>>
    BY <1>4, <2>1, <2>2 DEF OnEvent, Routes, persisted
  <2>4. /\ c \in Clients /\ id \in Nat /\ stream[id].ts \in Nat
        /\ acc[c] \in Accumulator \cup {NoWindow}
        /\ acc'[c] = AfterEvent(acc[c], id, stream[id].ts)
        /\ \A d \in Clients : d # c => acc'[d] = acc[d]
    BY <1>4, <2>3, RoutedParts
  <2>5. /\ violations'[c] = Seen(c, id)
        /\ \A d \in Clients : d # c => violations'[d] = violations[d]
    BY <2>3, <2>4, Types
  <2>6. /\ \A x \in violations[c] :
             acc[c] # NoWindow /\ x \in acc[c].entries
        /\ \A x \in Seen(c, id), i \in 1..Len(rows) :
             x \notin rows[i].violations
        /\ \A x \in Seen(c, id) : stream[x].client = c
    BY <1>4, <2>1, <2>2, <2>3, EventFair
  <2>7. /\ acc'[c] # NoWindow /\ id \in acc'[c].entries
        /\ acc[c] # NoWindow => acc[c].entries \subseteq acc'[c].entries
    <3> DEFINE w == acc[c]
               ts == stream[id].ts
    <3>1. /\ w \in Accumulator \cup {NoWindow} /\ id \in Nat /\ ts \in Nat
          /\ ~Rolls(w, ts)
      BY <2>3, <2>4
    <3> HIDE DEF w, ts
    <3>2. /\ AfterEvent(w, id, ts) # NoWindow
          /\ id \in AfterEvent(w, id, ts).entries
          /\ w # NoWindow =>
               w.entries \subseteq AfterEvent(w, id, ts).entries
      BY <3>1, AfterEventParts
    <3>3. QED
      BY <2>4, <3>2 DEF w, ts
  <2>8. \A x \in Seen(c, id) : x = id \/ x \in violations[c]
    BY DEF Seen
  <2>9. \A x \in Seen(c, id) : x \in acc'[c].entries
    BY <2>6, <2>7, <2>8
  <2>10. ASSUME NEW d \in Clients, NEW x \in violations'[d]
         PROVE  /\ stream[x].client = d
                /\ \/ acc'[d] # NoWindow /\ x \in acc'[d].entries
                   \/ \E i \in 1..Len(closing) :
                        /\ closing[i].client = d
                        /\ x \in closing[i].window.entries
                /\ \A i \in 1..Len(rows) : x \notin rows[i].violations
    <3>1. CASE d = c
      BY <2>5, <2>6, <2>7, <2>9, <2>10, <3>1
    <3>2. CASE d # c
      BY <2>4, <2>5, <2>10, <3>2 DEF Buffered
    <3>3. QED
      BY <3>1, <3>2
  <2>11. QED
    BY <2>3, <2>10 DEF Buffered
<1>5. ASSUME batch # <<>>, NEW o \in Outcomes, OnEventRolls(Head(batch), o)
      PROVE  Buffered'
  <2>1. PICK id : id = Head(batch)
    OBVIOUS
  <2>2. PICK c : c = stream[id].client
    OBVIOUS
  <2>3. /\ TakeNext(id) /\ Routes(c, id) /\ Rolls(acc[c], stream[id].ts)
        /\ violations' = [violations EXCEPT ![c] = {}]
        /\ Persist(c, acc[c], Seen(c, id), o.level, o.alarm, o.stage)
        /\ UNCHANGED <<stream, closing>>
    BY <1>5, <2>1, <2>2
       DEF OnEventRolls, Routes, HandleClosedWindow, BufferPopped
  <2>4. /\ c \in Clients /\ Seen(c, id) \in SUBSET Id
        /\ acc[c] \in Accumulator /\ acc[c].entries \subseteq Id
    BY <1>5, <2>1, <2>2, <2>3, ClosesWindow
  <2>5. PICK seen : seen = Seen(c, id)
    OBVIOUS
  <2>6. PICK w : w = acc[c]
    OBVIOUS
  <2>7. Adds(w, seen)
    BY <2>3, <2>4, <2>5, <2>6, PersistAdds
  <2>8. \A x \in seen : stream[x].client = c
    BY <1>5, <2>1, <2>2, <2>3, <2>5, EventFair
  <2>9. /\ violations'[c] = {}
        /\ \A d \in Clients : d # c => violations'[d] = violations[d]
    BY <2>3, <2>4, Types
  <2>10. \A d \in Clients : d # c => acc'[d] = acc[d]
    BY <1>5, <2>3, RoutedParts
  <2>11. ASSUME NEW d \in Clients, NEW x \in violations'[d]
         PROVE  /\ stream[x].client = d
                /\ \/ acc'[d] # NoWindow /\ x \in acc'[d].entries
                   \/ \E i \in 1..Len(closing) :
                        /\ closing[i].client = d
                        /\ x \in closing[i].window.entries
                /\ \A i \in 1..Len(rows') : x \notin rows'[i].violations
    <3>1. d # c /\ x \in violations[d] /\ acc'[d] = acc[d]
      BY <2>9, <2>10, <2>11
    <3>2. /\ stream[x].client = d
          /\ \/ acc[d] # NoWindow /\ x \in acc[d].entries
             \/ \E i \in 1..Len(closing) :
                  /\ closing[i].client = d
                  /\ x \in closing[i].window.entries
          /\ \A i \in 1..Len(rows) : x \notin rows[i].violations
      BY <3>1 DEF Buffered
    <3>3. x \notin seen
      BY <2>8, <3>1, <3>2
    <3>4. \A i \in 1..Len(rows') : x \notin rows'[i].violations
      BY <2>7, <3>2, <3>3, UnscoredKept
    <3>5. QED
      BY <3>1, <3>2, <3>4
  <2>12. QED
    BY <2>3, <2>11 DEF Buffered
<1>6. ASSUME NEW order \in SetToSeqs(StaleClients), StartSweep(order)
      PROVE  Buffered'
  <2>1. /\ closing = <<>> /\ UNCHANGED <<stream, violations, rows>>
        /\ acc' = [c \in Clients |->
                     IF c \in StaleClients THEN NoWindow ELSE acc[c]]
    BY <1>6 DEF StartSweep, persisted
  <2>2. /\ \A c \in StaleClients :
             \E i \in 1..Len(closing') : closing'[i].client = c
        /\ \A i \in 1..Len(closing') :
             closing'[i].window = acc[closing'[i].client]
    BY <1>6, <2>1, SweptParts
  <2>3. ASSUME NEW d \in Clients, NEW x \in violations[d]
        PROVE  \/ acc'[d] # NoWindow /\ x \in acc'[d].entries
               \/ \E i \in 1..Len(closing') :
                    /\ closing'[i].client = d
                    /\ x \in closing'[i].window.entries
    <3>1. acc[d] # NoWindow /\ x \in acc[d].entries
      BY <2>1, <2>3 DEF Buffered
    <3>2. CASE d \in StaleClients
      BY <2>2, <3>1, <3>2
    <3>3. CASE d \notin StaleClients
      BY <2>1, <3>1, <3>3
    <3>4. QED
      BY <3>2, <3>3
  <2>4. QED
    BY <2>1, <2>3 DEF Buffered
<1>7. ASSUME closing # <<>>, NEW o \in Outcomes, HandleSwept(o)
      PROVE  Buffered'
  <2>1. PICK c : c = Head(closing).client
    OBVIOUS
  <2>2. PICK w : w = Head(closing).window
    OBVIOUS
  <2>3. PICK seen : seen = violations[c]
    OBVIOUS
  <2>4. /\ c \in Clients /\ w \in Accumulator /\ w.entries \subseteq Id
        /\ seen \in SUBSET Id /\ Head(closing) = closing[1]
        /\ Len(closing) \in Nat \ {0}
        /\ Len(Tail(closing)) = Len(closing) - 1
        /\ \A i \in 1..(Len(closing) - 1) : Tail(closing)[i] = closing[i + 1]
    BY <1>7, <2>1, <2>2, <2>3, SweptWindow
  <2>5. /\ UNCHANGED <<stream, acc>> /\ closing' = Tail(closing)
        /\ violations' = [violations EXCEPT ![c] = {}]
        /\ Persist(c, w, seen, o.level, o.alarm, o.stage)
    BY <1>7, <2>1, <2>2, <2>3
       DEF HandleSwept, HandleClosedWindow, BufferPopped
  <2>6. Adds(w, seen)
    BY <2>4, <2>5, PersistAdds
  <2>7. \A x \in seen : stream[x].client = c
    BY <1>7, <2>1, <2>2, <2>3, SweptFair
  <2>8. /\ violations'[c] = {}
        /\ \A d \in Clients : d # c => violations'[d] = violations[d]
    BY <2>4, <2>5, Types
  <2>9. \A i \in 1..Len(closing) : i # 1 =>
          /\ i - 1 \in 1..Len(closing')
          /\ closing'[i - 1] = closing[i]
    <3>1. TAKE i \in 1..Len(closing)
    <3>2. HAVE i # 1
    <3>3. i - 1 \in 1..(Len(closing) - 1) /\ (i - 1) + 1 = i
      BY <2>4, <3>2
    <3>4. QED
      BY <2>4, <2>5, <3>3
  <2>10. ASSUME NEW d \in Clients, NEW x \in violations'[d]
         PROVE  /\ stream[x].client = d
                /\ \/ acc[d] # NoWindow /\ x \in acc[d].entries
                   \/ \E i \in 1..Len(closing') :
                        /\ closing'[i].client = d
                        /\ x \in closing'[i].window.entries
                /\ \A i \in 1..Len(rows') : x \notin rows'[i].violations
    <3>1. d # c /\ x \in violations[d]
      BY <2>8, <2>10
    <3>2. /\ stream[x].client = d
          /\ \/ acc[d] # NoWindow /\ x \in acc[d].entries
             \/ \E i \in 1..Len(closing) :
                  /\ closing[i].client = d
                  /\ x \in closing[i].window.entries
          /\ \A i \in 1..Len(rows) : x \notin rows[i].violations
      BY <3>1 DEF Buffered
    <3>3. x \notin seen
      BY <2>7, <3>1, <3>2
    <3>4. \A i \in 1..Len(rows') : x \notin rows'[i].violations
      BY <2>6, <3>2, <3>3, UnscoredKept
    <3>5. ASSUME NEW i \in 1..Len(closing), closing[i].client = d,
                 x \in closing[i].window.entries
          PROVE  \E j \in 1..Len(closing') :
                   /\ closing'[j].client = d
                   /\ x \in closing'[j].window.entries
      <4>1. i # 1
        BY <2>1, <2>4, <3>1, <3>5
      <4>2. i - 1 \in 1..Len(closing') /\ closing'[i - 1] = closing[i]
        BY <2>9, <4>1
      <4>3. QED
        BY <3>5, <4>2
    <3>6. QED
      BY <3>2, <3>4, <3>5
  <2>11. QED
    BY <2>5, <2>10 DEF Buffered
<1>8. ASSUME NEW o \in Outcomes, OnEventFails(Head(batch), o) \/ SweepFails(o)
      PROVE  Buffered'
  BY <1>2, <1>8 DEF OnEventFails, SweepFails
<1>9. CASE Crash
  BY <1>2, <1>9 DEF Crash
<1>10. CASE Advance \/ XReadGroup \/ ParseEntry \/ XAck
  BY <1>1, <1>10
     DEF Advance, XReadGroup, ParseEntry, XAck, scoring, persisted
<1>11. QED
  BY <1>3, <1>4, <1>5, <1>6, <1>7, <1>8, <1>9, <1>10 DEF Next

-----------------------------------------------------------------------------
(* The places.                                                              *)

(* What the places of an entry say of the set of them.                      *)
LEMMA PlacesParts ==
  ASSUME TypeOK, NEW id
  PROVE  /\ Alone(id) => Cardinality(Places(id)) <= 1
         /\ Somewhere(id) => Places(id) # {}
<1>1. /\ DOMAIN inbox = 1..Len(inbox) /\ DOMAIN batch = 1..Len(batch)
      /\ DOMAIN closing = 1..Len(closing) /\ DOMAIN rows = 1..Len(rows)
  BY Types, ElementParts
<1>2. ASSUME NEW p \in Places(id)
      PROVE  \E k, x : /\ InPlace(k, x, id)
                       /\ p = IF k = "dead" THEN <<"dead">> ELSE <<k, x>>
  <2>1. CASE p \in {<<"dead">> : x \in dead \cap {id}}
    <3>1. InPlace("dead", 0, id) /\ p = <<"dead">>
      BY <2>1 DEF InPlace
    <3>2. QED
      BY <3>1
  <2>2. CASE p \in {<<"inbox", i>> : i \in {j \in DOMAIN inbox :
                                             inbox[j] = id}}
    <3>1. PICK i \in DOMAIN inbox : inbox[i] = id /\ p = <<"inbox", i>>
      BY <2>2
    <3>2. InPlace("inbox", i, id) /\ "inbox" # "dead"
      BY <1>1, <3>1 DEF InPlace
    <3>3. QED
      BY <3>1, <3>2
  <2>3. CASE p \in {<<"batch", i>> : i \in {j \in DOMAIN batch :
                                             batch[j] = id}}
    <3>1. PICK i \in DOMAIN batch : batch[i] = id /\ p = <<"batch", i>>
      BY <2>3
    <3>2. InPlace("batch", i, id) /\ "batch" # "dead"
      BY <1>1, <3>1 DEF InPlace
    <3>3. QED
      BY <3>1, <3>2
  <2>4. CASE p \in {<<"open", c>> : c \in {d \in Clients :
                      acc[d] # NoWindow /\ id \in acc[d].entries}}
    <3>1. PICK c \in Clients : /\ acc[c] # NoWindow /\ id \in acc[c].entries
                               /\ p = <<"open", c>>
      BY <2>4
    <3>2. InPlace("open", c, id) /\ "open" # "dead"
      BY <3>1 DEF InPlace
    <3>3. QED
      BY <3>1, <3>2
  <2>5. CASE p \in {<<"closing", i>> : i \in {j \in DOMAIN closing :
                      id \in closing[j].window.entries}}
    <3>1. PICK i \in DOMAIN closing : /\ id \in closing[i].window.entries
                                      /\ p = <<"closing", i>>
      BY <2>5
    <3>2. InPlace("closing", i, id) /\ "closing" # "dead"
      BY <1>1, <3>1 DEF InPlace
    <3>3. QED
      BY <3>1, <3>2
  <2>6. CASE p \in {<<"row", i>> : i \in {j \in DOMAIN rows :
                      id \in rows[j].entries}}
    <3>1. PICK i \in DOMAIN rows : id \in rows[i].entries /\ p = <<"row", i>>
      BY <2>6
    <3>2. InPlace("row", i, id) /\ "row" # "dead"
      BY <1>1, <3>1 DEF InPlace
    <3>3. QED
      BY <3>1, <3>2
  <2>7. QED
    BY <2>1, <2>2, <2>3, <2>4, <2>5, <2>6 DEF Places
<1>3. ASSUME Alone(id) PROVE Cardinality(Places(id)) <= 1
  <2>1. \A p, q \in Places(id) : p = q
    BY <1>2, <1>3 DEF Alone
  <2>2. CASE Places(id) = {}
    BY <2>2, FS_EmptySet
  <2>3. CASE Places(id) # {}
    <3>1. PICK p \in Places(id) : TRUE
      BY <2>3
    <3>2. Places(id) = {p}
      BY <2>1, <3>1
    <3>3. Cardinality({p}) = 1
      BY FS_Singleton
    <3>4. QED
      BY <3>2, <3>3
  <2>4. QED
    BY <2>2, <2>3
<1>4. ASSUME Somewhere(id) PROVE Places(id) # {}
  <2>1. PICK k, x : InPlace(k, x, id)
    BY <1>4 DEF Somewhere
  <2>2. CASE k = "dead"
    <3>1. <<"dead">> \in Places(id)
      BY <2>1, <2>2 DEF InPlace, Places
    <3>2. QED
      BY <3>1
  <2>3. CASE k = "inbox"
    <3>1. <<"inbox", x>> \in Places(id)
      BY <1>1, <2>1, <2>3 DEF InPlace, Places
    <3>2. QED
      BY <3>1
  <2>4. CASE k = "batch"
    <3>1. <<"batch", x>> \in Places(id)
      BY <1>1, <2>1, <2>4 DEF InPlace, Places
    <3>2. QED
      BY <3>1
  <2>5. CASE k = "open"
    <3>1. <<"open", x>> \in Places(id)
      BY <2>1, <2>5 DEF InPlace, Places
    <3>2. QED
      BY <3>1
  <2>6. CASE k = "closing"
    <3>1. <<"closing", x>> \in Places(id)
      BY <1>1, <2>1, <2>6 DEF InPlace, Places
    <3>2. QED
      BY <3>1
  <2>7. CASE k = "row"
    <3>1. <<"row", x>> \in Places(id)
      BY <1>1, <2>1, <2>7 DEF InPlace, Places
    <3>2. QED
      BY <3>1
  <2>8. QED
    BY <2>1, <2>2, <2>3, <2>4, <2>5, <2>6, <2>7 DEF InPlace
<1>5. QED
  BY <1>3, <1>4

(* Nothing moves.                                                           *)
LEMMA PlacedKept ==
  ASSUME UNCHANGED <<dead, inbox, batch, acc, closing, rows>>, NEW id
  PROVE  /\ Alone(id) => Alone(id)'
         /\ Somewhere(id) => Somewhere(id)'
<1>1. \A k, x : InPlace(k, x, id)' <=> InPlace(k, x, id)
  BY DEF InPlace
<1>2. QED
  BY <1>1 DEF Alone, Somewhere

(* Entries are read.                                                        *)
LEMMA PlacedRead ==
  ASSUME TypeOK, Reading, Delivered, Unique, XReadGroup
  PROVE  /\ Unique'
         /\ (\A id \in 1..delivered : Somewhere(id))
              => \A id \in 1..delivered' : Somewhere(id)'
<1>1. /\ delivered \in Nat /\ BatchEnd \in Nat /\ delivered < BatchEnd
      /\ delivered' = BatchEnd /\ Len(inbox') = BatchEnd - delivered
      /\ \A i \in 1..Len(inbox') : inbox'[i] = delivered + i
  BY ReadType, Types
<1>2. /\ UNCHANGED <<dead, batch, acc, closing, rows>>
      /\ inbox = <<>> /\ batch = <<>>
  BY DEF XReadGroup, Reading, scoring, persisted
<1>3. dead \subseteq 1..delivered
  BY DEF TypeOK
<1>4. ASSUME NEW id \in 1..delivered, NEW k, NEW x
      PROVE  InPlace(k, x, id)' <=> InPlace(k, x, id)
  <2>1. \A i \in 1..Len(inbox') : inbox'[i] # id
    BY <1>1
  <2>2. QED
    BY <1>2, <2>1 DEF InPlace
<1>5. ASSUME NEW id \in 1..delivered', id \notin 1..delivered, NEW k, NEW x
      PROVE  InPlace(k, x, id)' <=>
               k = "inbox" /\ x \in 1..Len(inbox') /\ inbox'[x] = id
  BY <1>2, <1>3, <1>5 DEF InPlace, Delivered
<1>6. ASSUME NEW id \in 1..delivered', id \notin 1..delivered
      PROVE  Alone(id)' /\ Somewhere(id)'
  <2>1. /\ id - delivered \in 1..Len(inbox')
        /\ inbox'[id - delivered] = id
    BY <1>1, <1>6
  <2>2. \A x, y \in 1..Len(inbox') : inbox'[x] = inbox'[y] => x = y
    BY <1>1
  <2>3. Alone(id)'
    BY <1>5, <1>6, <2>2 DEF Alone
  <2>4. PICK x : x = id - delivered
    OBVIOUS
  <2>5. InPlace("inbox", x, id)'
    BY <1>5, <1>6, <2>1, <2>4
  <2>6. QED
    BY <2>3, <2>5 DEF Somewhere
<1>7. \A id \in 1..delivered :
        Alone(id)' /\ (Somewhere(id) => Somewhere(id)')
  BY <1>4 DEF Unique, Alone, Somewhere
<1>8. QED
  BY <1>6, <1>7 DEF Unique

(* The first entry read becomes the last of the batch, or a dead letter.    *)
LEMMA PlacedParse ==
  ASSUME TypeOK, ParseEntry, NEW id \in 1..delivered, Alone(id)
  PROVE  Alone(id)' /\ (Somewhere(id) => Somewhere(id)')
<1>1. PICK h : h = Head(inbox)
  OBVIOUS
<1>2. PICK n : n = Len(batch)
  OBVIOUS
<1>3. /\ inbox' = Tail(inbox) /\ Len(inbox) \in Nat \ {0}
      /\ Len(inbox') = Len(inbox) - 1
      /\ \A i \in 1..(Len(inbox) - 1) : inbox'[i] = inbox[i + 1]
      /\ h = inbox[1] /\ h \in 1..delivered
      /\ UNCHANGED <<acc, closing, rows>>
      /\ \/ dead' = dead \cup {h} /\ batch' = batch
         \/ dead' = dead /\ batch' = Append(batch, h)
  <2>1. inbox \in Seq(1..delivered) /\ inbox # <<>>
    BY Types DEF ParseEntry
  <2>2. /\ Len(inbox) \in Nat \ {0} /\ Len(Tail(inbox)) = Len(inbox) - 1
        /\ \A i \in 1..(Len(inbox) - 1) : Tail(inbox)[i] = inbox[i + 1]
        /\ Head(inbox) = inbox[1] /\ inbox[1] \in 1..delivered
    BY <2>1, TailParts
  <2>3. QED
    BY <1>1, <2>2 DEF ParseEntry, scoring, persisted
<1>4. /\ \A i \in 1..Len(inbox') : /\ i + 1 \in 1..Len(inbox) /\ i # 0
                                   /\ inbox'[i] = inbox[i + 1]
      /\ \A i \in 1..Len(inbox) : i # 1 =>
           /\ i - 1 \in 1..Len(inbox') /\ inbox'[i - 1] = inbox[i]
      /\ 1 \in 1..Len(inbox)
  <2>1. PICK m : m = Len(inbox)
    OBVIOUS
  <2>2. PICK p : p = Len(inbox')
    OBVIOUS
  <2>3. m \in Nat \ {0} /\ p = m - 1
    BY <1>3, <2>1, <2>2
  <2>4. /\ \A i \in 1..p : i + 1 \in 1..m /\ i # 0 /\ i \in 1..(m - 1)
        /\ \A i \in 1..m : i # 1 =>
             i - 1 \in 1..p /\ i - 1 \in 1..(m - 1) /\ (i - 1) + 1 = i
        /\ 1 \in 1..m
    BY <2>3
  <2>5. QED
    BY <1>3, <2>1, <2>2, <2>4
<1>5. CASE dead' = dead \cup {h} /\ batch' = batch
  <2> DEFINE From(k, x) ==
        \/ k = "inbox" /\ x \in 1..Len(inbox') /\ InPlace("inbox", x + 1, id)
        \/ k = "dead" /\ x = 0 /\ InPlace("inbox", 1, id)
        \/ k # "inbox" /\ InPlace(k, x, id)
  <2>1. ASSUME NEW k, NEW x, InPlace(k, x, id)' PROVE From(k, x)
    BY <1>3, <1>4, <1>5, <2>1 DEF InPlace
  <2>2. ASSUME NEW j, NEW k, NEW x, NEW y, From(j, x), From(k, y)
        PROVE  j = k /\ x = y
    <3>1. \A i \in 1..Len(inbox') : i \in Int /\ i + 1 # 1
      BY <1>3
    <3>2. \A u, v \in Int : u + 1 = v + 1 => u = v
      OBVIOUS
    <3>3. QED
      BY <2>2, <3>1, <3>2 DEF Alone
  <2>3. Alone(id)'
    BY <2>1, <2>2 DEF Alone
  <2>4. ASSUME NEW k, NEW x, InPlace(k, x, id) PROVE Somewhere(id)'
    <3>1. CASE k = "inbox" /\ x # 1
      <4>1. InPlace("inbox", x - 1, id)'
        BY <1>4, <2>4, <3>1 DEF InPlace
      <4>2. QED
        BY <4>1 DEF Somewhere
    <3>2. CASE k = "inbox" /\ x = 1
      <4>1. InPlace("dead", 0, id)'
        BY <1>3, <1>5, <2>4, <3>2 DEF InPlace
      <4>2. QED
        BY <4>1 DEF Somewhere
    <3>3. CASE k # "inbox"
      <4>1. InPlace(k, x, id)'
        BY <1>3, <1>5, <2>4, <3>3 DEF InPlace
      <4>2. QED
        BY <4>1 DEF Somewhere
    <3>4. QED
      BY <3>1, <3>2, <3>3
  <2>5. QED
    BY <2>3, <2>4 DEF Somewhere
<1>6. CASE dead' = dead /\ batch' = Append(batch, h)
  <2>1. /\ n \in Nat /\ Len(batch') = n + 1
        /\ \A i \in 1..n : batch'[i] = batch[i] /\ i \in 1..(n + 1)
        /\ batch'[n + 1] = h /\ n + 1 \in 1..(n + 1)
        /\ \A i \in 1..(n + 1) : i \in 1..n \/ i = n + 1
    <3>1. batch \in Seq(1..delivered)
      BY Types
    <3>2. /\ n \in Nat /\ Len(batch') = n + 1
          /\ \A i \in 1..n : batch'[i] = batch[i]
          /\ batch'[n + 1] = h
      BY <1>2, <1>3, <1>6, <3>1, AppendParts
    <3>3. QED
      BY <3>2
  <2> DEFINE From(k, x) ==
        \/ k = "inbox" /\ x \in 1..Len(inbox') /\ InPlace("inbox", x + 1, id)
        \/ k = "batch" /\ x = n + 1 /\ InPlace("inbox", 1, id)
        \/ k # "inbox" /\ InPlace(k, x, id)
  <2>2. ASSUME NEW k, NEW x, InPlace(k, x, id)' PROVE From(k, x)
    <3>1. CASE k = "inbox"
      BY <1>4, <2>2, <3>1 DEF InPlace
    <3>2. CASE k = "batch"
      BY <1>2, <1>3, <1>4, <2>1, <2>2, <3>2 DEF InPlace
    <3>3. CASE k \notin {"inbox", "batch"}
      BY <1>3, <1>6, <2>2, <3>3 DEF InPlace
    <3>4. QED
      BY <3>1, <3>2, <3>3
  <2>3. ASSUME NEW j, NEW k, NEW x, NEW y, From(j, x), From(k, y)
        PROVE  j = k /\ x = y
    <3>1. \A i \in 1..Len(inbox') : i \in Int /\ i + 1 # 1
      BY <1>3
    <3>2. \A u, v \in Int : u + 1 = v + 1 => u = v
      OBVIOUS
    <3>3. QED
      BY <2>3, <3>1, <3>2 DEF Alone
  <2>4. Alone(id)'
    BY <2>2, <2>3 DEF Alone
  <2>5. ASSUME NEW k, NEW x, InPlace(k, x, id) PROVE Somewhere(id)'
    <3>1. CASE k = "inbox" /\ x # 1
      <4>1. InPlace("inbox", x - 1, id)'
        BY <1>4, <2>5, <3>1 DEF InPlace
      <4>2. QED
        BY <4>1 DEF Somewhere
    <3>2. CASE k = "inbox" /\ x = 1
      <4>1. h = id
        BY <1>3, <2>5, <3>2 DEF InPlace
      <4>2. InPlace("batch", n + 1, id)'
        BY <2>1, <4>1 DEF InPlace
      <4>3. QED
        BY <4>2 DEF Somewhere
    <3>3. CASE k # "inbox"
      <4>1. InPlace(k, x, id)'
        BY <1>2, <1>3, <1>6, <2>1, <2>5, <3>3 DEF InPlace
      <4>2. QED
        BY <4>1 DEF Somewhere
    <3>4. QED
      BY <3>1, <3>2, <3>3
  <2>6. QED
    BY <2>4, <2>5 DEF Somewhere
<1>7. QED
  BY <1>3, <1>5, <1>6

(* The batch without its first entry.                                       *)
LEMMA NextShift ==
  ASSUME TypeOK, Reading, batch # <<>>, batch' = Tail(batch),
         NEW h, h = Head(batch)
  PROVE  /\ h = batch[1] /\ 1 \in 1..Len(batch)
         /\ \A i \in 1..Len(batch') : /\ i + 1 \in 1..Len(batch)
                                      /\ i \in Int /\ i + 1 # 1
                                      /\ batch'[i] = batch[i + 1]
         /\ \A i \in 1..Len(batch) : i # 1 =>
              i - 1 \in 1..Len(batch') /\ batch'[i - 1] = batch[i]
         /\ \A u, v \in Int : u + 1 = v + 1 => u = v
<1>1. /\ h = batch[1] /\ Len(batch) \in Nat \ {0}
      /\ Len(batch') = Len(batch) - 1
      /\ \A i \in 1..(Len(batch) - 1) : batch'[i] = batch[i + 1]
  BY NextEntry
<1>2. PICK m : m = Len(batch)
  OBVIOUS
<1>3. PICK p : p = Len(batch')
  OBVIOUS
<1>4. m \in Nat \ {0} /\ p = m - 1
  BY <1>1, <1>2, <1>3
<1>5. /\ \A i \in 1..p : /\ i + 1 \in 1..m /\ i \in Int /\ i + 1 # 1
                         /\ i \in 1..(m - 1)
      /\ \A i \in 1..m : i # 1 =>
           i - 1 \in 1..p /\ i - 1 \in 1..(m - 1) /\ (i - 1) + 1 = i
      /\ 1 \in 1..m
      /\ \A u, v \in Int : u + 1 = v + 1 => u = v
  BY <1>4
<1>6. QED
  BY <1>1, <1>2, <1>3, <1>5

(* The first entry of the batch goes into the open window of its client.    *)
LEMMA PlacedEvent ==
  ASSUME TypeOK, Reading, Delivered, batch # <<>>, OnEvent(Head(batch)),
         NEW id \in 1..delivered, Alone(id)
  PROVE  Alone(id)' /\ (Somewhere(id) => Somewhere(id)')
<1>1. PICK h : h = Head(batch)
  OBVIOUS
<1>2. PICK c : c = stream[h].client
  OBVIOUS
<1>3. /\ Routes(c, h) /\ ~Rolls(acc[c], stream[h].ts)
      /\ batch' = Tail(batch)
      /\ UNCHANGED <<dead, inbox, closing, rows>>
  BY <1>1, <1>2 DEF OnEvent, Routes, Consume, persisted
<1>4. /\ h = batch[1] /\ 1 \in 1..Len(batch)
      /\ \A i \in 1..Len(batch') : /\ i + 1 \in 1..Len(batch)
                                   /\ i \in Int /\ i + 1 # 1
                                   /\ batch'[i] = batch[i + 1]
      /\ \A i \in 1..Len(batch) : i # 1 =>
           i - 1 \in 1..Len(batch') /\ batch'[i - 1] = batch[i]
      /\ \A u, v \in Int : u + 1 = v + 1 => u = v
  BY <1>1, <1>3, NextShift
<1>5. /\ c \in Clients /\ acc'[c] # NoWindow /\ h \in acc'[c].entries
      /\ acc[c] # NoWindow => acc[c].entries \subseteq acc'[c].entries
      /\ \A x \in acc'[c].entries :
           x = h \/ (acc[c] # NoWindow /\ x \in acc[c].entries)
      /\ \A d \in Clients : d # c => acc'[d] = acc[d]
  <2> DEFINE w == acc[c]
             ts == stream[h].ts
  <2>1. /\ c \in Clients /\ h \in Nat /\ ts \in Nat
        /\ w \in Accumulator \cup {NoWindow} /\ ~Rolls(w, ts)
        /\ acc'[c] = AfterEvent(w, h, ts)
        /\ \A d \in Clients : d # c => acc'[d] = acc[d]
        /\ \A x \in acc'[c].entries :
             x = h \/ (w # NoWindow /\ x \in w.entries)
    BY <1>3, RoutedParts
  <2> HIDE DEF w, ts
  <2>2. /\ AfterEvent(w, h, ts) # NoWindow
        /\ h \in AfterEvent(w, h, ts).entries
        /\ w # NoWindow => w.entries \subseteq AfterEvent(w, h, ts).entries
    BY <2>1, AfterEventParts
  <2>3. QED
    BY <2>1, <2>2 DEF w
<1> DEFINE From(k, x) ==
      \/ k = "batch" /\ x \in 1..Len(batch') /\ InPlace("batch", x + 1, id)
      \/ k = "open" /\ x = c /\ InPlace("batch", 1, id)
      \/ k # "batch" /\ InPlace(k, x, id)
<1>6. ASSUME NEW k, NEW x, InPlace(k, x, id)' PROVE From(k, x)
  <2>1. CASE k = "batch"
    BY <1>4, <1>6, <2>1 DEF InPlace
  <2>2. CASE k = "open"
    BY <1>4, <1>5, <1>6, <2>2 DEF InPlace
  <2>3. CASE k \notin {"batch", "open"}
    BY <1>3, <1>6, <2>3 DEF InPlace
  <2>4. QED
    BY <2>1, <2>2, <2>3
<1>7. ASSUME NEW j, NEW k, NEW x, NEW y, From(j, x), From(k, y)
      PROVE  j = k /\ x = y
  BY <1>4, <1>7 DEF Alone
<1>8. Alone(id)'
  BY <1>6, <1>7 DEF Alone
<1>9. ASSUME NEW k, NEW x, InPlace(k, x, id) PROVE Somewhere(id)'
  <2>1. CASE k = "batch" /\ x # 1
    <3>1. InPlace("batch", x - 1, id)'
      BY <1>4, <1>9, <2>1 DEF InPlace
    <3>2. QED
      BY <3>1 DEF Somewhere
  <2>2. CASE k = "batch" /\ x = 1
    <3>1. h = id
      BY <1>4, <1>9, <2>2 DEF InPlace
    <3>2. InPlace("open", c, id)'
      BY <1>5, <3>1 DEF InPlace
    <3>3. QED
      BY <3>2 DEF Somewhere
  <2>3. CASE k = "open"
    <3>1. InPlace("open", x, id)'
      BY <1>5, <1>9, <2>3 DEF InPlace
    <3>2. QED
      BY <3>1 DEF Somewhere
  <2>4. CASE k \notin {"batch", "open"}
    <3>1. InPlace(k, x, id)'
      BY <1>3, <1>9, <2>4 DEF InPlace
    <3>2. QED
      BY <3>1 DEF Somewhere
  <2>5. QED
    BY <2>1, <2>2, <2>3, <2>4
<1>10. QED
  BY <1>8, <1>9 DEF Somewhere

(* The places among the rows when one may have been added.                  *)
LEMMA RowPlaces ==
  ASSUME NEW w, NEW seen, Adds(w, seen), NEW id, NEW n, n = Len(rows) + 1
  PROVE  /\ \A x : InPlace("row", x, id)' =>
              \/ x # n /\ InPlace("row", x, id)
              \/ x = n /\ id \in w.entries
         /\ \A x : InPlace("row", x, id) => x # n /\ InPlace("row", x, id)'
         /\ Len(rows') = n /\ id \in w.entries => InPlace("row", n, id)'
<1>1. PICK m : m = Len(rows)
  OBVIOUS
<1>2. PICK p : p = Len(rows')
  OBVIOUS
<1>3. /\ m \in Nat /\ n = m + 1 /\ p \in {m, m + 1}
      /\ \A i \in 1..m : rows'[i] = rows[i]
      /\ p = m + 1 => rows'[m + 1].entries = w.entries
  BY <1>1, <1>2 DEF Adds
<1>4. /\ \A j \in 1..m : j # m + 1 /\ j \in 1..p
      /\ \A j \in 1..p : j \in 1..m \/ (j = m + 1 /\ p = m + 1)
      /\ p = m + 1 => m + 1 \in 1..p
  BY <1>3, OneMore
<1>5. /\ \A x : InPlace("row", x, id) <=> x \in 1..m /\ id \in rows[x].entries
      /\ \A x : InPlace("row", x, id)' <=>
           x \in 1..p /\ id \in rows'[x].entries
  BY <1>1, <1>2 DEF InPlace
<1>6. QED
  BY <1>2, <1>3, <1>4, <1>5

(* The first entry of the batch closes the window of its client, which      *)
(* becomes a row, and is the first of the next window.                      *)
LEMMA PlacedRolls ==
  ASSUME TypeOK, Reading, Delivered, batch # <<>>, NEW o \in Outcomes,
         OnEventRolls(Head(batch), o), NEW id \in 1..delivered, Alone(id)
  PROVE  Alone(id)' /\ (Somewhere(id) => Somewhere(id)')
<1>1. PICK h : h = Head(batch)
  OBVIOUS
<1>2. PICK c : c = stream[h].client
  OBVIOUS
<1>3. PICK n : n = Len(rows) + 1
  OBVIOUS
<1>4. /\ Routes(c, h) /\ Rolls(acc[c], stream[h].ts)
      /\ batch' = Tail(batch)
      /\ UNCHANGED <<dead, inbox, closing>>
      /\ Persist(c, acc[c], Seen(c, h), o.level, o.alarm, o.stage)
      /\ Commits(o.stage)
  BY <1>1, <1>2
     DEF OnEventRolls, Routes, Consume, HandleClosedWindow, Commits
<1>5. /\ h = batch[1] /\ 1 \in 1..Len(batch)
      /\ \A i \in 1..Len(batch') : /\ i + 1 \in 1..Len(batch)
                                   /\ i \in Int /\ i + 1 # 1
                                   /\ batch'[i] = batch[i + 1]
      /\ \A i \in 1..Len(batch) : i # 1 =>
           i - 1 \in 1..Len(batch') /\ batch'[i - 1] = batch[i]
      /\ \A u, v \in Int : u + 1 = v + 1 => u = v
  BY <1>1, <1>4, NextShift
<1>6. /\ c \in Clients /\ acc[c] # NoWindow
      /\ acc'[c] # NoWindow /\ acc'[c].entries = {h}
      /\ \A d \in Clients : d # c => acc'[d] = acc[d]
  <2> DEFINE w == acc[c]
             ts == stream[h].ts
  <2>1. /\ c \in Clients /\ h \in Nat /\ ts \in Nat
        /\ w \in Accumulator \cup {NoWindow} /\ Rolls(w, ts)
        /\ acc'[c] = AfterEvent(w, h, ts)
        /\ \A d \in Clients : d # c => acc'[d] = acc[d]
    BY <1>4, RoutedParts
  <2> HIDE DEF w, ts
  <2>2. /\ AfterEvent(w, h, ts) # NoWindow
        /\ AfterEvent(w, h, ts).entries = {h}
    BY <2>1, AfterEventParts
  <2>3. w # NoWindow
    BY <2>1 DEF Rolls
  <2>4. QED
    BY <2>1, <2>2, <2>3 DEF w
<1>7. /\ Adds(acc[c], Seen(c, h)) /\ Len(rows') = n
  <2> DEFINE w == acc[c]
             seen == Seen(c, h)
  <2>1. /\ w \in Accumulator /\ w.entries \subseteq Id
        /\ seen \in SUBSET Id /\ c \in Clients
        /\ Persist(c, w, seen, o.level, o.alarm, o.stage)
    BY <1>1, <1>2, <1>4, ClosesWindow
  <2> HIDE DEF w, seen
  <2>2. Adds(w, seen)
    BY <2>1, PersistAdds
  <2>3. Len(rows') = Len(rows) + 1
    BY <1>4, <2>1, RowsAfter
  <2>4. QED
    BY <1>3, <2>2, <2>3 DEF w, seen
<1>8. /\ \A x : InPlace("row", x, id)' =>
           \/ x # n /\ InPlace("row", x, id)
           \/ x = n /\ id \in acc[c].entries
      /\ \A x : InPlace("row", x, id) => x # n /\ InPlace("row", x, id)'
      /\ id \in acc[c].entries => InPlace("row", n, id)'
  <2> DEFINE w == acc[c]
             seen == Seen(c, h)
  <2>1. Adds(w, seen)
    BY <1>7
  <2> HIDE DEF w, seen
  <2>2. /\ \A x : InPlace("row", x, id)' =>
             \/ x # n /\ InPlace("row", x, id)
             \/ x = n /\ id \in w.entries
        /\ \A x : InPlace("row", x, id) => x # n /\ InPlace("row", x, id)'
        /\ Len(rows') = n /\ id \in w.entries => InPlace("row", n, id)'
    BY <1>3, <2>1, RowPlaces
  <2>3. QED
    BY <1>7, <2>2 DEF w
<1>9. id \in acc[c].entries <=> InPlace("open", c, id)
  BY <1>6 DEF InPlace
<1> DEFINE From(k, x) ==
      \/ k = "batch" /\ x \in 1..Len(batch') /\ InPlace("batch", x + 1, id)
      \/ k = "open" /\ x = c /\ InPlace("batch", 1, id)
      \/ k = "row" /\ x = n /\ InPlace("open", c, id)
      \/ k = "row" /\ x # n /\ InPlace(k, x, id)
      \/ k = "open" /\ x # c /\ InPlace(k, x, id)
      \/ k \notin {"batch", "open", "row"} /\ InPlace(k, x, id)
<1>10. ASSUME NEW k, NEW x, InPlace(k, x, id)' PROVE From(k, x)
  <2>1. CASE k = "batch"
    BY <1>5, <1>10, <2>1 DEF InPlace
  <2>2. CASE k = "open"
    BY <1>5, <1>6, <1>10, <2>2 DEF InPlace
  <2>3. CASE k = "row"
    BY <1>8, <1>9, <1>10, <2>3
  <2>4. CASE k \notin {"batch", "open", "row"}
    BY <1>4, <1>10, <2>4 DEF InPlace
  <2>5. QED
    BY <2>1, <2>2, <2>3, <2>4
<1>11. ASSUME NEW j, NEW k, NEW x, NEW y, From(j, x), From(k, y)
       PROVE  j = k /\ x = y
  BY <1>5, <1>11 DEF Alone
<1>12. Alone(id)'
  BY <1>10, <1>11 DEF Alone
<1>13. ASSUME NEW k, NEW x, InPlace(k, x, id) PROVE Somewhere(id)'
  <2>1. CASE k = "batch" /\ x # 1
    <3>1. InPlace("batch", x - 1, id)'
      BY <1>5, <1>13, <2>1 DEF InPlace
    <3>2. QED
      BY <3>1 DEF Somewhere
  <2>2. CASE k = "batch" /\ x = 1
    <3>1. h = id
      BY <1>5, <1>13, <2>2 DEF InPlace
    <3>2. InPlace("open", c, id)'
      BY <1>6, <3>1 DEF InPlace
    <3>3. QED
      BY <3>2 DEF Somewhere
  <2>3. CASE k = "open" /\ x # c
    <3>1. InPlace("open", x, id)'
      BY <1>6, <1>13, <2>3 DEF InPlace
    <3>2. QED
      BY <3>1 DEF Somewhere
  <2>4. CASE k = "open" /\ x = c
    <3>1. InPlace("row", n, id)'
      BY <1>8, <1>9, <1>13, <2>4
    <3>2. QED
      BY <3>1 DEF Somewhere
  <2>5. CASE k = "row"
    <3>1. InPlace("row", x, id)'
      BY <1>8, <1>13, <2>5
    <3>2. QED
      BY <3>1 DEF Somewhere
  <2>6. CASE k \notin {"batch", "open", "row"}
    <3>1. InPlace(k, x, id)'
      BY <1>4, <1>13, <2>6 DEF InPlace
    <3>2. QED
      BY <3>1 DEF Somewhere
  <2>7. QED
    BY <2>1, <2>2, <2>3, <2>4, <2>5, <2>6
<1>14. QED
  BY <1>12, <1>13 DEF Somewhere

(* A process that ends keeps the dead letters and the rows, one of which it *)
(* may have made of the window it was handling.                             *)
LEMMA PlacedForgotten ==
  ASSUME TypeOK, Forget, dead' = dead, NEW id, Alone(id),
         NEW k0, NEW x0, k0 \in {"open", "closing"},
         NEW w, NEW seen, Adds(w, seen),
         id \in w.entries => InPlace(k0, x0, id)
  PROVE  Alone(id)'
<1>1. PICK n : n = Len(rows) + 1
  OBVIOUS
<1>2. \A x : InPlace("row", x, id)' =>
         \/ x # n /\ InPlace("row", x, id)
         \/ x = n /\ InPlace(k0, x0, id)
  BY <1>1, RowPlaces
<1>3. /\ Len(inbox') = 0 /\ Len(batch') = 0 /\ Len(closing') = 0
      /\ \A d \in Clients : acc'[d] = NoWindow
  BY DEF Forget
<1>4. 1..0 = {}
  OBVIOUS
<1> DEFINE From(k, x) ==
      \/ k = "row" /\ x = n /\ InPlace(k0, x0, id)
      \/ k = "row" /\ x # n /\ InPlace(k, x, id)
      \/ k = "dead" /\ InPlace(k, x, id)
<1>5. ASSUME NEW k, NEW x, InPlace(k, x, id)' PROVE From(k, x)
  <2>1. CASE k = "row"
    BY <1>2, <1>5, <2>1
  <2>2. CASE k = "dead"
    BY <1>5, <2>2 DEF InPlace
  <2>3. CASE k \notin {"row", "dead"}
    BY <1>3, <1>4, <1>5, <2>3 DEF InPlace
  <2>4. QED
    BY <2>1, <2>2, <2>3
<1>6. ASSUME NEW j, NEW k, NEW x, NEW y, From(j, x), From(k, y)
      PROVE  j = k /\ x = y
  BY <1>6 DEF Alone
<1>7. QED
  BY <1>5, <1>6 DEF Alone

(* However it ends.                                                         *)
LEMMA PlacedFails ==
  ASSUME TypeOK, Reading, Delivered, NEW id, Alone(id),
         \/ Crash
         \/ batch # <<>> /\ \E o \in Outcomes : OnEventFails(Head(batch), o)
         \/ closing # <<>> /\ \E o \in Outcomes : SweepFails(o)
  PROVE  Alone(id)'
<1>1. CASE Crash
  <2>1. PICK w : w = [entries |-> {}]
    OBVIOUS
  <2>2. PICK n : n = Len(rows)
    OBVIOUS
  <2>3. /\ Forget /\ dead' = dead /\ rows' = rows
        /\ n \in Nat /\ DOMAIN rows = 1..n /\ n # n + 1
    <3>1. Len(rows) \in Nat /\ DOMAIN rows = 1..Len(rows)
      BY Types, ElementParts
    <3>2. QED
      BY <1>1, <2>2, <3>1 DEF Crash, persisted
  <2>4. Adds(w, {})
    BY <2>2, <2>3 DEF Adds
  <2>5. id \in w.entries => InPlace("open", NoClient, id)
    BY <2>1
  <2>6. QED
    BY <2>3, <2>4, <2>5, PlacedForgotten
<1>2. CASE batch # <<>> /\ \E o \in Outcomes : OnEventFails(Head(batch), o)
  <2>1. PICK o \in Outcomes : OnEventFails(Head(batch), o)
    BY <1>2
  <2>2. PICK h : h = Head(batch)
    OBVIOUS
  <2>3. PICK c : c = stream[h].client
    OBVIOUS
  <2> DEFINE w == acc[c]
             seen == Seen(c, h)
  <2>4. /\ w \in Accumulator /\ w # NoWindow /\ w.entries \subseteq Id
        /\ seen \in SUBSET Id /\ c \in Clients
    BY <1>2, <2>1, <2>2, <2>3, ClosesWindow DEF OnEventFails
  <2>5. /\ Persist(c, w, seen, o.level, o.alarm, o.stage)
        /\ Forget /\ dead' = dead
    BY <2>1, <2>2, <2>3 DEF OnEventFails
  <2>6. id \in w.entries => InPlace("open", c, id)
    BY <2>4 DEF InPlace
  <2> HIDE DEF w, seen
  <2>7. Adds(w, seen)
    BY <2>4, <2>5, PersistAdds
  <2>8. QED
    BY <2>5, <2>6, <2>7, PlacedForgotten
<1>3. CASE closing # <<>> /\ \E o \in Outcomes : SweepFails(o)
  <2>1. PICK o \in Outcomes : SweepFails(o)
    BY <1>3
  <2> DEFINE c == Head(closing).client
             w == Head(closing).window
             seen == violations[c]
  <2>2. /\ w \in Accumulator /\ w.entries \subseteq Id
        /\ seen \in SUBSET Id /\ c \in Clients
        /\ w = closing[1].window /\ Len(closing) \in Nat \ {0}
    BY <1>3, SweptWindow
  <2>3. /\ Persist(c, w, seen, o.level, o.alarm, o.stage)
        /\ Forget /\ dead' = dead
    BY <2>1 DEF SweepFails
  <2>4. id \in w.entries => InPlace("closing", 1, id)
    <3>1. 1 \in 1..Len(closing)
      BY <2>2
    <3>2. QED
      BY <2>2, <3>1 DEF InPlace
  <2> HIDE DEF c, w, seen
  <2>5. Adds(w, seen)
    BY <2>2, <2>3, PersistAdds
  <2>6. QED
    BY <2>3, <2>4, <2>5, PlacedForgotten
<1>4. QED
  BY <1>1, <1>2, <1>3

(* The sweep takes the windows it closes out of the table.                  *)
LEMMA PlacedSweep ==
  ASSUME TypeOK, NEW order \in SetToSeqs(StaleClients), StartSweep(order),
         NEW id, Alone(id)
  PROVE  Alone(id)' /\ (Somewhere(id) => Somewhere(id)')
<1>1. /\ closing = <<>> /\ UNCHANGED <<dead, inbox, batch, rows>>
      /\ acc' = [c \in Clients |-> IF c \in StaleClients THEN NoWindow
                                                         ELSE acc[c]]
  BY DEF StartSweep, reader, persisted
<1>2. /\ \A i \in 1..Len(closing') :
           /\ closing'[i].client \in StaleClients
           /\ closing'[i].window = acc[closing'[i].client]
      /\ \A i, j \in 1..Len(closing') :
           closing'[i].client = closing'[j].client => i = j
      /\ \A c \in StaleClients :
           \E i \in 1..Len(closing') : closing'[i].client = c
  BY <1>1, SweptParts
<1>3. \A c \in StaleClients : c \in Clients /\ acc[c] # NoWindow
  BY DEF StaleClients, Stale
<1>4. ASSUME NEW x PROVE ~InPlace("closing", x, id)
  <2>1. Len(closing) = 0 /\ 1..0 = {}
    BY <1>1
  <2>2. QED
    BY <2>1 DEF InPlace
<1> DEFINE From(k, x) ==
      \/ /\ k = "closing" /\ x \in 1..Len(closing')
         /\ InPlace("open", closing'[x].client, id)
      \/ k = "open" /\ x \notin StaleClients /\ InPlace(k, x, id)
      \/ k \notin {"open", "closing"} /\ InPlace(k, x, id)
<1>5. ASSUME NEW k, NEW x, InPlace(k, x, id)' PROVE From(k, x)
  <2>1. CASE k = "closing"
    BY <1>2, <1>3, <1>5, <2>1 DEF InPlace
  <2>2. CASE k = "open"
    BY <1>1, <1>5, <2>2 DEF InPlace
  <2>3. CASE k \notin {"open", "closing"}
    BY <1>1, <1>5, <2>3 DEF InPlace
  <2>4. QED
    BY <2>1, <2>2, <2>3
<1>6. ASSUME NEW j, NEW k, NEW x, NEW y, From(j, x), From(k, y)
      PROVE  j = k /\ x = y
  <2>1. ASSUME NEW u, NEW v, NEW p, NEW q, InPlace(u, p, id),
               InPlace(v, q, id)
        PROVE  u = v /\ p = q
    BY <2>1 DEF Alone
  <2>2. CASE j = "closing" /\ k = "closing"
    <3>1. closing'[x].client = closing'[y].client
      BY <1>6, <2>1, <2>2
    <3>2. QED
      BY <1>2, <1>6, <2>2, <3>1
  <2>3. CASE j = "closing" /\ k # "closing"
    <3>1. /\ InPlace("open", closing'[x].client, id) /\ InPlace(k, y, id)
          /\ closing'[x].client \in StaleClients
      BY <1>2, <1>6, <2>3
    <3>2. k = "open" /\ y = closing'[x].client
      BY <2>1, <3>1
    <3>3. QED
      BY <1>6, <3>1, <3>2
  <2>4. CASE j # "closing" /\ k = "closing"
    <3>1. /\ InPlace("open", closing'[y].client, id) /\ InPlace(j, x, id)
          /\ closing'[y].client \in StaleClients
      BY <1>2, <1>6, <2>4
    <3>2. j = "open" /\ x = closing'[y].client
      BY <2>1, <3>1
    <3>3. QED
      BY <1>6, <3>1, <3>2
  <2>5. CASE j # "closing" /\ k # "closing"
    BY <1>6, <2>1, <2>5
  <2>6. QED
    BY <2>2, <2>3, <2>4, <2>5
<1> HIDE DEF From
<1>7. Alone(id)'
  BY <1>5, <1>6 DEF Alone
<1>8. ASSUME NEW k, NEW x, InPlace(k, x, id) PROVE Somewhere(id)'
  <2>1. CASE k = "open" /\ x \in StaleClients
    <3>1. PICK i \in 1..Len(closing') : closing'[i].client = x
      BY <1>2, <2>1
    <3>2. InPlace("closing", i, id)'
      BY <1>2, <1>8, <2>1, <3>1 DEF InPlace
    <3>3. QED
      BY <3>2 DEF Somewhere
  <2>2. CASE k = "open" /\ x \notin StaleClients
    <3>1. InPlace("open", x, id)'
      BY <1>1, <1>8, <2>2 DEF InPlace
    <3>2. QED
      BY <3>1 DEF Somewhere
  <2>3. CASE k \notin {"open", "closing"}
    <3>1. InPlace(k, x, id)'
      BY <1>1, <1>8, <2>3 DEF InPlace
    <3>2. QED
      BY <3>1 DEF Somewhere
  <2>4. QED
    BY <1>4, <1>8, <2>1, <2>2, <2>3
<1>9. QED
  BY <1>7, <1>8 DEF Somewhere

(* Its first window becomes a row.                                          *)
LEMMA PlacedSwept ==
  ASSUME TypeOK, Reading, Delivered, closing # <<>>, NEW o \in Outcomes,
         HandleSwept(o), NEW id, Alone(id)
  PROVE  Alone(id)' /\ (Somewhere(id) => Somewhere(id)')
<1>1. PICK n : n = Len(rows) + 1
  OBVIOUS
<1>2. PICK w : w = closing[1].window
  OBVIOUS
<1>3. /\ UNCHANGED <<dead, inbox, batch, acc>>
      /\ closing' = Tail(closing)
      /\ Persist(Head(closing).client, w, violations[Head(closing).client],
                 o.level, o.alarm, o.stage)
      /\ Commits(o.stage)
      /\ Len(closing) \in Nat \ {0} /\ Len(closing') = Len(closing) - 1
      /\ \A i \in 1..(Len(closing) - 1) : closing'[i] = closing[i + 1]
  BY <1>2, SweptWindow DEF HandleSwept, HandleClosedWindow, Commits, reader
<1>4. /\ \A i \in 1..Len(closing') : /\ i + 1 \in 1..Len(closing)
                                     /\ i \in Int /\ i + 1 # 1
                                     /\ closing'[i] = closing[i + 1]
      /\ \A i \in 1..Len(closing) : i # 1 =>
           i - 1 \in 1..Len(closing') /\ closing'[i - 1] = closing[i]
      /\ 1 \in 1..Len(closing)
      /\ \A u, v \in Int : u + 1 = v + 1 => u = v
  <2>1. PICK m : m = Len(closing)
    OBVIOUS
  <2>2. PICK p : p = Len(closing')
    OBVIOUS
  <2>3. m \in Nat \ {0} /\ p = m - 1
    BY <1>3, <2>1, <2>2
  <2>4. /\ \A i \in 1..p : /\ i + 1 \in 1..m /\ i \in Int /\ i + 1 # 1
                           /\ i \in 1..(m - 1)
        /\ \A i \in 1..m : i # 1 =>
             i - 1 \in 1..p /\ i - 1 \in 1..(m - 1) /\ (i - 1) + 1 = i
        /\ 1 \in 1..m
        /\ \A u, v \in Int : u + 1 = v + 1 => u = v
    BY <2>3
  <2>5. QED
    BY <1>3, <2>1, <2>2, <2>4
<1>5. PICK seen : Adds(w, seen) /\ Len(rows') = n
  <2> DEFINE c == Head(closing).client
             s == violations[c]
  <2>1. /\ w \in Accumulator /\ w.entries \subseteq Id
        /\ s \in SUBSET Id /\ c \in Clients
        /\ Persist(c, w, s, o.level, o.alarm, o.stage)
    BY <1>2, <1>3, SweptWindow
  <2> HIDE DEF c, s
  <2>2. Adds(w, s)
    BY <2>1, PersistAdds
  <2>3. Len(rows') = Len(rows) + 1
    BY <1>3, <2>1, RowsAfter
  <2>4. QED
    BY <1>1, <2>2, <2>3
<1>6. /\ \A x : InPlace("row", x, id)' =>
           \/ x # n /\ InPlace("row", x, id)
           \/ x = n /\ id \in w.entries
      /\ \A x : InPlace("row", x, id) => x # n /\ InPlace("row", x, id)'
      /\ id \in w.entries => InPlace("row", n, id)'
  BY <1>1, <1>5, RowPlaces
<1>7. id \in w.entries <=> InPlace("closing", 1, id)
  BY <1>2, <1>4 DEF InPlace
<1> DEFINE From(k, x) ==
      \/ /\ k = "closing" /\ x \in 1..Len(closing')
         /\ InPlace("closing", x + 1, id)
      \/ k = "row" /\ x = n /\ InPlace("closing", 1, id)
      \/ k = "row" /\ x # n /\ InPlace(k, x, id)
      \/ k \notin {"closing", "row"} /\ InPlace(k, x, id)
<1>8. ASSUME NEW k, NEW x, InPlace(k, x, id)' PROVE From(k, x)
  <2>1. CASE k = "closing"
    BY <1>4, <1>8, <2>1 DEF InPlace
  <2>2. CASE k = "row"
    BY <1>6, <1>7, <1>8, <2>2
  <2>3. CASE k \notin {"closing", "row"}
    BY <1>3, <1>8, <2>3 DEF InPlace
  <2>4. QED
    BY <2>1, <2>2, <2>3
<1>9. ASSUME NEW j, NEW k, NEW x, NEW y, From(j, x), From(k, y)
      PROVE  j = k /\ x = y
  BY <1>4, <1>9 DEF Alone
<1>10. Alone(id)'
  BY <1>8, <1>9 DEF Alone
<1>11. ASSUME NEW k, NEW x, InPlace(k, x, id) PROVE Somewhere(id)'
  <2>1. CASE k = "closing" /\ x # 1
    <3>1. InPlace("closing", x - 1, id)'
      BY <1>4, <1>11, <2>1 DEF InPlace
    <3>2. QED
      BY <3>1 DEF Somewhere
  <2>2. CASE k = "closing" /\ x = 1
    <3>1. InPlace("row", n, id)'
      BY <1>6, <1>7, <1>11, <2>2
    <3>2. QED
      BY <3>1 DEF Somewhere
  <2>3. CASE k = "row"
    <3>1. InPlace("row", x, id)'
      BY <1>6, <1>11, <2>3
    <3>2. QED
      BY <3>1 DEF Somewhere
  <2>4. CASE k \notin {"closing", "row"}
    <3>1. InPlace(k, x, id)'
      BY <1>3, <1>11, <2>4 DEF InPlace
    <3>2. QED
      BY <3>1 DEF Somewhere
  <2>5. QED
    BY <2>1, <2>2, <2>3, <2>4
<1>12. QED
  BY <1>10, <1>11 DEF Somewhere

-----------------------------------------------------------------------------
(* The invariant.                                                           *)

(* Every step keeps the types.                                              *)
LEMMA TypeStep ==
  ASSUME TypeOK, Reading, Delivered, Next
  PROVE  TypeOK'
<1>1. CASE Advance \/ Crash
  BY <1>1, AdvanceType, CrashType
<1>2. CASE \E c \in Clients \cup {NoClient}, kind \in Kinds : Emit(c, kind)
  BY <1>2, EmitType
<1>3. CASE XReadGroup
  BY <1>3, ReadType
<1>4. CASE ParseEntry \/ XAck
  BY <1>4, ParseType
<1>5. CASE batch # <<>> /\ OnEvent(Head(batch))
  BY <1>5, EventType
<1>6. CASE batch # <<>> /\ \E o \in Outcomes : OnEventRolls(Head(batch), o)
  BY <1>6, RollsType
<1>7. CASE batch # <<>> /\ \E o \in Outcomes : OnEventFails(Head(batch), o)
  BY <1>7, EventFailsType
<1>8. CASE \E order \in SetToSeqs(StaleClients) : StartSweep(order)
  BY <1>8, SweepType
<1>9. CASE /\ closing # <<>>
           /\ \E o \in Outcomes : HandleSwept(o) \/ SweepFails(o)
  BY <1>9, SweptType
<1>10. QED
  BY <1>1, <1>2, <1>3, <1>4, <1>5, <1>6, <1>7, <1>8, <1>9 DEF Next

(* Entries stay where they alone are, and somewhere unless a process ends.  *)
LEMMA PlacedStep ==
  ASSUME TypeOK, Reading, Delivered, Unique, NotLost, Next
  PROVE  Unique' /\ NotLost'
<1>1. crashes \in Nat /\ \A n \in Nat : n + 1 # 0
  BY Types
<1>2. ASSUME UNCHANGED <<delivered, crashes>>,
             \A id \in 1..delivered :
               Alone(id)' /\ (Somewhere(id) => Somewhere(id)')
      PROVE  Unique' /\ NotLost'
  BY <1>2 DEF Unique, NotLost
<1>3. ASSUME UNCHANGED <<dead, inbox, batch, acc, closing, rows>>,
             UNCHANGED <<delivered, crashes>>
      PROVE  Unique' /\ NotLost'
  <2>1. \A id \in 1..delivered :
          Alone(id)' /\ (Somewhere(id) => Somewhere(id)')
    BY <1>3, PlacedKept DEF Unique
  <2>2. QED
    BY <1>2, <1>3, <2>1
<1>4. CASE Advance \/ XAck
  BY <1>3, <1>4
     DEF Advance, XAck, group, reader, scoring, persisted, history
<1>5. CASE \E c \in Clients \cup {NoClient}, kind \in Kinds : Emit(c, kind)
  BY <1>3, <1>5 DEF Emit, group, reader, scoring, persisted, history
<1>6. CASE XReadGroup
  <2>1. /\ Unique' /\ crashes' = crashes
        /\ (\A id \in 1..delivered : Somewhere(id))
             => \A id \in 1..delivered' : Somewhere(id)'
    BY <1>6, PlacedRead DEF XReadGroup, history
  <2>2. QED
    BY <2>1 DEF NotLost
<1>7. CASE ParseEntry
  <2>1. UNCHANGED <<delivered, crashes>>
    BY <1>7 DEF ParseEntry, group, history
  <2>2. QED
    BY <1>2, <1>7, <2>1, PlacedParse DEF Unique
<1>8. CASE batch # <<>> /\ OnEvent(Head(batch))
  <2>1. UNCHANGED <<delivered, crashes>>
    BY <1>8 DEF OnEvent, group
  <2>2. QED
    BY <1>2, <1>8, <2>1, PlacedEvent DEF Unique
<1>9. CASE batch # <<>> /\ \E o \in Outcomes : OnEventRolls(Head(batch), o)
  <2>1. UNCHANGED <<delivered, crashes>>
    BY <1>9 DEF OnEventRolls, group
  <2>2. QED
    BY <1>2, <1>9, <2>1, PlacedRolls DEF Unique
<1>10. CASE \E order \in SetToSeqs(StaleClients) : StartSweep(order)
  <2>1. UNCHANGED <<delivered, crashes>>
    BY <1>10 DEF StartSweep, group, history
  <2>2. QED
    BY <1>2, <1>10, <2>1, PlacedSweep DEF Unique
<1>11. CASE closing # <<>> /\ \E o \in Outcomes : HandleSwept(o)
  <2>1. UNCHANGED <<delivered, crashes>>
    BY <1>11 DEF HandleSwept, group, history
  <2>2. QED
    BY <1>2, <1>11, <2>1, PlacedSwept DEF Unique
<1>12. CASE \/ Crash
            \/ /\ batch # <<>>
               /\ \E o \in Outcomes : OnEventFails(Head(batch), o)
            \/ closing # <<>> /\ \E o \in Outcomes : SweepFails(o)
  <2>1. delivered' = delivered /\ crashes' = crashes + 1
    BY <1>12 DEF Crash, OnEventFails, SweepFails, Forget, group
  <2>2. \A id \in 1..delivered : Alone(id)'
    BY <1>12, PlacedFails DEF Unique
  <2>3. QED
    BY <1>1, <2>1, <2>2 DEF Unique, NotLost
<1>13. QED
  BY <1>4, <1>5, <1>6, <1>7, <1>8, <1>9, <1>10, <1>11, <1>12 DEF Next

(* Before the first step nothing is anywhere.                               *)
LEMMA InitInv ==
  ASSUME Init
  PROVE  IInv
<1>1. /\ 1..0 = {} /\ Len(stream) = 0 /\ Len(inbox) = 0 /\ Len(batch) = 0
      /\ Len(closing) = 0 /\ Len(rows) = 0 /\ Len(incidents) = 0
      /\ DOMAIN rows = {} /\ DOMAIN incidents = {}
  <2>1. /\ stream = <<>> /\ inbox = <<>> /\ batch = <<>> /\ closing = <<>>
        /\ rows = <<>> /\ incidents = <<>>
    BY DEF Init
  <2>2. QED
    BY <2>1
<1>2. \A c \in Clients : /\ acc[c] = NoWindow /\ open_ids[c] = 0
                         /\ violations[c] = {} /\ verdictp[c] = NoVerdict
                         /\ LastRow(c) = {}
  BY <1>1 DEF Init, LastRow
<1>3. TypeOK
  BY WorkerAssumption DEF TypeOK, Init, Id
<1>4. Reading
  BY <1>1, WorkerAssumption DEF Init, Reading
<1>5. Placed
  BY <1>1, <1>2 DEF Init, Placed, Delivered, Unique, NotLost
<1>6. Clocks
  BY <1>1, <1>2, WorkerAssumption DEF Init, Clocks
<1>7. Judged
  BY <1>1, <1>2 DEF Judged, Opened, Passive, OnlyCrashesOrphan,
                    RowsExplainVerdicts, IncidentsFollowVerdicts
<1>8. Scored
  BY <1>1, <1>2 DEF Scored, InOrder, RoutedFirst, SweptOnce, Buffered,
                    ScoredOnce, AtMostOneStray
<1>9. QED
  BY <1>3, <1>4, <1>5, <1>6, <1>7, <1>8 DEF IInv

(* A step that changes nothing keeps everything.                            *)
LEMMA Stutter ==
  ASSUME IInv, UNCHANGED vars
  PROVE  IInv'
<1>1. UNCHANGED <<fingerprint_only, now, stream, delivered, pel, dead, ingest,
                  ack_ids, inbox, batch, acc, known, violations, closing,
                  open_ids, rows, incidents, verdictp, last_sweep, crashes,
                  routed_at>>
  BY DEF vars, group, reader, scoring, persisted, history
<1>2. TypeOK'
  BY <1>1 DEF IInv, TypeOK
<1>3. Reading' /\ Clocks'
  BY <1>1 DEF IInv, Reading, Clocks
<1>4. Placed'
  BY <1>1 DEF IInv, Placed, Delivered, Unique, NotLost, Alone, Somewhere,
              InPlace
<1>5. Judged'
  BY <1>1, <1>2, JudgedKept DEF IInv
<1>6. Scored'
  BY <1>1 DEF IInv, Scored, InOrder, RoutedFirst, Routed, SweptOnce, Buffered,
              ScoredOnce, AtMostOneStray
<1>7. QED
  BY <1>2, <1>3, <1>4, <1>5, <1>6 DEF IInv

(* The invariant holds in every state the worker can be in, with what it    *)
(* needs to hold together: each part on those before it.                    *)
THEOREM Invariant == Spec => []IInv
<1>1. IInv /\ [Next]_vars => IInv'
  <2> SUFFICES ASSUME IInv, [Next]_vars PROVE IInv'
    OBVIOUS
  <2>1. ASSUME Next PROVE IInv'
    <3>1. /\ TypeOK /\ Reading /\ Delivered /\ Unique /\ NotLost /\ Clocks
          /\ Judged /\ InOrder /\ RoutedFirst /\ SweptOnce /\ Buffered
          /\ ScoredOnce /\ AtMostOneStray
      BY DEF IInv, Placed, Scored
    <3>2. TypeOK' /\ Reading' /\ Delivered'
      BY <2>1, <3>1, TypeStep, ReadingStep, DeliveredStep
    <3>3. Unique' /\ NotLost'
      BY <2>1, <3>1, PlacedStep
    <3>4. Clocks'
      BY <2>1, <3>1, ClocksStep
    <3>5. Judged'
      BY <2>1, <3>1, <3>2, JudgedStep
    <3>6. InOrder' /\ RoutedFirst' /\ SweptOnce'
      BY <2>1, <3>1, InOrderStep, RoutedFirstStep, SweptOnceStep
    <3>7. Buffered'
      BY <2>1, <3>1, BufferedStep
    <3>8. ScoredOnce' /\ AtMostOneStray'
      BY <2>1, <3>1, RowsScoredStep
    <3>9. QED
      BY <3>2, <3>3, <3>4, <3>5, <3>6, <3>7, <3>8 DEF IInv, Placed, Scored
  <2>2. CASE UNCHANGED vars
    BY <2>2, Stutter
  <2>3. QED
    BY <2>1, <2>2
<1>2. QED
  BY InitInv, <1>1, PTL DEF Spec

-----------------------------------------------------------------------------
(* The properties.                                                          *)

(* The variables keep their types.                                          *)
THEOREM TypeCorrect == Spec => []TypeOK
<1>1. IInv => TypeOK
  BY DEF IInv
<1>2. QED
  BY <1>1, Invariant, PTL

(* Whatever restarts come in between, an entry of the stream is counted in  *)
(* one window at most, or dead-lettered: it is acknowledged before it is    *)
(* routed, and a new process asks for new entries only.                     *)
THEOREM EntriesCountedOnce == Spec => []CountedOnce
<1>1. IInv => CountedOnce
  BY PlacesParts DEF IInv, Placed, Unique, CountedOnce
<1>2. QED
  BY <1>1, Invariant, PTL

(* And while the process lives none is lost between the thread that reads,  *)
(* the batch, the windows and the rows.                                     *)
THEOREM OnlyCrashesLoseEntries == Spec => []OnlyCrashesLose
<1>1. IInv => OnlyCrashesLose
  BY PlacesParts DEF IInv, Placed, NotLost, OnlyCrashesLose
<1>2. QED
  BY <1>1, Invariant, PTL

(* An event is out of its open window within the window's length, the grace *)
(* and a period of the sweep, whatever the client does afterwards.          *)
THEOREM EventsScoredInTime == Spec => []ScoredInTime
<1>1. IInv => ScoredInTime
  BY InTime DEF IInv, Placed
<1>2. QED
  BY <1>1, Invariant, PTL

(* A window is judged by the violations of its own events, but for one.     *)
THEOREM StraysBounded == Spec => []AtMostOneStray
<1>1. IInv => AtMostOneStray
  BY DEF IInv, Scored
<1>2. QED
  BY <1>1, Invariant, PTL

(* A verdict in Redis is that of the client's last row, or of as many rows  *)
(* before it as processes ended between the commit and the write.           *)
THEOREM VerdictsExplained == Spec => []RowsExplainVerdicts
<1>1. IInv => RowsExplainVerdicts
  BY DEF IInv, Judged
<1>2. QED
  BY <1>1, Invariant, PTL

(* The incident a process has open for a client records its last windows.   *)
THEOREM IncidentsFollow == Spec => []IncidentsFollowVerdicts
<1>1. IInv => IncidentsFollowVerdicts
  BY DEF IInv, Judged
<1>2. QED
  BY <1>1, Invariant, PTL

(* An open incident nobody knows was left by an earlier process.            *)
THEOREM OrphansOfCrashes == Spec => []OnlyCrashesOrphan
<1>1. IInv => OnlyCrashesOrphan
  BY DEF IInv, Judged
<1>2. QED
  BY <1>1, Invariant, PTL

-----------------------------------------------------------------------------
(* The worker keeps a log of windows.                                       *)

(* Windows are never empty and hold entries of their client; those of a     *)
(* sweep precede what is not routed yet.                                    *)
Whole(c, w) == w.entries # {} /\ \A id \in w.entries : stream[id].client = c

WholeWindows ==
  /\ \A c \in Clients : acc[c] # NoWindow => Whole(c, acc[c])
  /\ \A i \in 1..Len(closing) :
       /\ Whole(closing[i].client, closing[i].window)
       /\ \A id \in closing[i].window.entries : Routed(id)

(* Where an entry is held.                                                  *)
InInbox(id) == \E i \in 1..Len(inbox) : inbox[i] = id
InBatch(id) == \E i \in 1..Len(batch) : batch[i] = id
InWindow(c, id) == acc[c] # NoWindow /\ id \in acc[c].entries
InSwept(c, id) ==
  \E i \in 1..Len(closing) :
    closing[i].client = c /\ id \in closing[i].window.entries

Holds(c, id) ==
  /\ stream[id].client = c
  /\ InInbox(id) \/ InBatch(id) \/ InWindow(c, id) \/ InSwept(c, id)

Parted ==
  /\ HeldOf = [c \in Clients |-> HeldOf[c]]
  /\ \A c \in Clients : \A id : id \in HeldOf[c] <=> Holds(c, id)

LEMMA HeldParts ==
  ASSUME TypeOK, WholeWindows
  PROVE  Parted
<1>1. /\ DOMAIN inbox = 1..Len(inbox) /\ DOMAIN batch = 1..Len(batch)
      /\ DOMAIN closing = 1..Len(closing)
  BY Types, ElementParts
<1>2. \A c \in Clients : HeldOf[c] = {id \in InProcess : stream[id].client = c}
  BY DEF HeldOf
<1>3. ASSUME NEW id
      PROVE  id \in InProcess <=>
               \/ InInbox(id) \/ InBatch(id)
               \/ \E c \in Clients : InWindow(c, id)
               \/ \E c : InSwept(c, id)
  <2>1. /\ id \in Positions(inbox) <=> InInbox(id)
        /\ id \in Positions(batch) <=> InBatch(id)
    BY <1>1 DEF Positions, InInbox, InBatch
  <2>2. (\E c : InSwept(c, id)) <=>
          \E i \in DOMAIN closing : id \in closing[i].window.entries
    BY <1>1 DEF InSwept
  <2>3. QED
    BY <2>1, <2>2 DEF InProcess, InWindow
<1>4. \A c, id : /\ c \in Clients /\ InWindow(c, id) => stream[id].client = c
                 /\ InSwept(c, id) => stream[id].client = c
  BY DEF WholeWindows, Whole, InWindow, InSwept
<1>5. ASSUME NEW c \in Clients, NEW id
      PROVE  id \in HeldOf[c] <=> Holds(c, id)
  BY <1>2, <1>3, <1>4 DEF Holds
<1>6. QED
  BY <1>5 DEF Parted, HeldOf

LEMMA HeldPartsNext == TypeOK' /\ WholeWindows' => Parted'
<1>1. TypeOK /\ WholeWindows => Parted
  BY HeldParts
<1>2. QED
  BY <1>1, PTL

(* Held entries are delivered, and none is in a row.                        *)
LEMMA HeldDelivered ==
  ASSUME TypeOK, Delivered, NEW c \in Clients, NEW id, Holds(c, id)
  PROVE  id \in 1..delivered
<1>1. /\ \A i \in 1..Len(inbox) : inbox[i] \in 1..delivered
      /\ \A i \in 1..Len(batch) : batch[i] \in 1..delivered
  BY Types, ElementParts
<1>2. QED
  BY <1>1 DEF Holds, InInbox, InBatch, InWindow, InSwept, Delivered

(* The rows, as windows judged.                                             *)
Shown(s) ==
  [i \in DOMAIN s |-> [client |-> s[i].client, entries |-> s[i].entries]]

LEMMA SequenceFunction ==
  ASSUME NEW S, NEW s \in Seq(S)
  PROVE  s \in [1..Len(s) -> S]
OBVIOUS

LEMMA ShownAppend ==
  ASSUME NEW s \in Seq(Row), NEW r \in Row
  PROVE  Shown(Append(s, r)) =
           Append(Shown(s), [client |-> r.client, entries |-> r.entries])
<1> DEFINE W == [client : Clients, entries : SUBSET Id]
           e == [client |-> r.client, entries |-> r.entries]
<1>1. PICK n \in Nat : n = Len(s) /\ DOMAIN s = 1..n
  BY ElementParts
<1>2. /\ DOMAIN Append(s, r) = 1..(n + 1) /\ Append(s, r)[n + 1] = r
      /\ \A i \in 1..n : Append(s, r)[i] = s[i]
  BY <1>1
<1>3. Shown(s) \in [1..n -> W] /\ e \in W
  <2>1. \A i \in 1..n : s[i] \in Row
    BY <1>1
  <2>2. QED
    BY <1>1, <2>1 DEF Shown, Row
<1> HIDE DEF W, e
<1>4. Shown(s) \in Seq(W) /\ Len(Shown(s)) = n
  BY <1>3, FunctionParts
<1>5. /\ Append(Shown(s), e) \in Seq(W) /\ Len(Append(Shown(s), e)) = n + 1
      /\ \A i \in 1..n : Append(Shown(s), e)[i] = Shown(s)[i]
      /\ Append(Shown(s), e)[n + 1] = e
  BY <1>3, <1>4, AppendParts
<1>6. DOMAIN Append(Shown(s), e) = 1..(n + 1)
  BY <1>5, ElementParts
<1>7. ASSUME NEW i \in 1..(n + 1)
      PROVE  Shown(Append(s, r))[i] = Append(Shown(s), e)[i]
  <2>1. CASE i = n + 1
    BY <1>2, <1>5, <2>1 DEF Shown, e
  <2>2. CASE i \in 1..n
    BY <1>1, <1>2, <1>5, <2>2 DEF Shown
  <2>3. i = n + 1 \/ i \in 1..n
    BY <1>7
  <2>4. QED
    BY <2>1, <2>2, <2>3
<1>8. Append(s, r) \in Seq(Row)
  BY AppendParts
<1>9. Shown(Append(s, r)) \in [1..(n + 1) -> W]
  <2>1. \A i \in 1..(n + 1) : Append(s, r)[i] \in Row
    BY <1>2, <1>8, ElementParts
  <2>2. QED
    BY <1>2, <2>1 DEF Shown, Row, W
<1>10. Append(Shown(s), e) \in [1..(n + 1) -> W]
  BY <1>5, SequenceFunction
<1>11. Shown(Append(s, r)) = Append(Shown(s), e)
  BY <1>7, <1>9, <1>10
<1>12. QED
  BY <1>11 DEF e

LEMMA RowJudged ==
  ASSUME TypeOK, NEW c \in Clients, NEW w \in Accumulator,
         NEW seen \in SUBSET Id, NEW o \in Outcomes, w.entries \subseteq Id,
         Persist(c, w, seen, o.level, o.alarm, o.stage)
  PROVE  JudgedWindows' =
           IF Commits(o.stage)
           THEN Append(JudgedWindows, [client |-> c, entries |-> w.entries])
           ELSE JudgedWindows
<1> DEFINE r == RowOf(c, w, seen, o.level, o.alarm)
<1>1. r \in Row /\ rows \in Seq(Row) /\ r.client = c /\ r.entries = w.entries
  BY DEF RowOf, Row, Accumulator, Outcomes, TypeOK
<1>2. rows' = IF Commits(o.stage) THEN Append(rows, r) ELSE rows
  BY DEF Persist
<1>3. JudgedWindows = Shown(rows) /\ JudgedWindows' = Shown(rows')
  BY DEF JudgedWindows, Shown
<1> HIDE DEF r
<1>4. QED
  BY <1>1, <1>2, <1>3, ShownAppend

(* Windows stay whole.                                                      *)
LEMMA WholeWindowsStep ==
  ASSUME TypeOK, Reading, Delivered, InOrder, RoutedFirst, WholeWindows, Next
  PROVE  WholeWindows'
<1>1. /\ \A c \in Clients : acc[c] # NoWindow =>
           /\ acc[c].entries # {}
           /\ \A id \in acc[c].entries : /\ stream[id].client = c
                                         /\ Routed(id) /\ id \in 1..delivered
      /\ \A i \in 1..Len(closing) :
           /\ closing[i].window.entries # {}
           /\ \A id \in closing[i].window.entries :
                /\ stream[id].client = closing[i].client
                /\ Routed(id) /\ id \in 1..delivered
  BY Types DEF WholeWindows, Whole, RoutedFirst, Delivered
<1>2. ASSUME UNCHANGED <<acc, closing>>,
             \A id \in 1..delivered :
               /\ stream'[id].client = stream[id].client
               /\ Routed(id) => Routed(id)'
      PROVE  WholeWindows'
  <2>1. ASSUME NEW c \in Clients, acc[c] # NoWindow
        PROVE  Whole(c, acc[c])'
    BY <1>1, <1>2, <2>1 DEF Whole
  <2>2. ASSUME NEW i \in 1..Len(closing)
        PROVE  /\ Whole(closing[i].client, closing[i].window)'
               /\ \A id \in closing[i].window.entries : Routed(id)'
    BY <1>1, <1>2, <2>2 DEF Whole
  <2>3. QED
    BY <1>2, <2>1, <2>2 DEF WholeWindows
<1>3. ASSUME UNCHANGED <<inbox, batch>>
      PROVE  \A id : Routed(id) => Routed(id)'
  BY <1>3 DEF Routed
<1>4. CASE Advance \/ XAck
  BY <1>2, <1>3, <1>4 DEF Advance, XAck, reader, scoring
<1>5. ASSUME NEW c, NEW kind, Emit(c, kind) PROVE WholeWindows'
  <2>1. \A id \in 1..delivered : stream'[id] = stream[id]
    BY <1>5, Types DEF Emit
  <2>2. QED
    BY <1>2, <1>3, <1>5, <2>1 DEF Emit, reader, scoring
<1>6. CASE XReadGroup \/ ParseEntry
  <2>1. UNCHANGED <<acc, closing, stream>>
    BY <1>6 DEF XReadGroup, ParseEntry, scoring
  <2>2. QED
    BY <1>2, <1>6, <2>1, StaysRouted
<1>7. ASSUME closing' = <<>>, \A c \in Clients : acc'[c] = NoWindow
      PROVE  WholeWindows'
  BY <1>7 DEF WholeWindows
<1>8. ASSUME NEW o \in Outcomes, OnEventFails(Head(batch), o) \/ SweepFails(o)
      PROVE  WholeWindows'
  BY <1>7, <1>8 DEF OnEventFails, SweepFails, Forget
<1>9. CASE Crash
  BY <1>7, <1>9 DEF Crash, Forget
<1>10. ASSUME batch # <<>>, NEW c, NEW id, Routes(c, id),
              UNCHANGED <<closing, stream>>, closing = <<>>
       PROVE  WholeWindows'
  <2> DEFINE w  == acc[c]
             ts == stream[id].ts
  <2>1. /\ c \in Clients /\ id \in Nat /\ ts \in Nat
        /\ w \in Accumulator \cup {NoWindow}
        /\ acc'[c] = AfterEvent(w, id, ts)
        /\ \A d \in Clients : d # c => acc'[d] = acc[d]
        /\ \A x \in acc'[c].entries :
             x = id \/ (w # NoWindow /\ x \in w.entries)
    BY <1>10, RoutedParts
  <2>2. stream[id].client = c
    BY <1>10 DEF Routes
  <2> HIDE DEF w, ts
  <2>3. id \in AfterEvent(w, id, ts).entries
    BY <2>1, AfterEventParts
  <2>4. \A x \in acc'[c].entries : stream[x].client = c
    BY <1>1, <2>1, <2>2 DEF w
  <2>5. ASSUME NEW d \in Clients, acc'[d] # NoWindow
        PROVE  Whole(d, acc[d])'
    <3>1. CASE d = c
      BY <1>10, <2>1, <2>3, <2>4, <3>1 DEF Whole
    <3>2. CASE d # c
      BY <1>1, <1>10, <2>1, <2>5, <3>2 DEF Whole
    <3>3. QED
      BY <3>1, <3>2
  <2>6. Len(closing') = 0 /\ 1..0 = {}
    BY <1>10
  <2>7. QED
    BY <2>5, <2>6 DEF WholeWindows
<1>11. ASSUME batch # <<>>, OnEvent(Head(batch)) PROVE WholeWindows'
  <2>1. /\ Routes(stream[Head(batch)].client, Head(batch)) /\ closing = <<>>
        /\ UNCHANGED <<closing, stream>>
    BY <1>11 DEF OnEvent, TakeNext, Routes
  <2>2. QED
    BY <1>10, <1>11, <2>1
<1>12. ASSUME batch # <<>>, NEW o \in Outcomes, OnEventRolls(Head(batch), o)
       PROVE  WholeWindows'
  <2>1. /\ Routes(stream[Head(batch)].client, Head(batch)) /\ closing = <<>>
        /\ UNCHANGED <<closing, stream>>
    BY <1>12 DEF OnEventRolls, TakeNext, Routes
  <2>2. QED
    BY <1>10, <1>12, <2>1
<1>13. ASSUME NEW order \in SetToSeqs(StaleClients), StartSweep(order)
       PROVE  WholeWindows'
  <2>1. /\ closing = <<>> /\ UNCHANGED <<inbox, batch, stream>>
        /\ acc' = [c \in Clients |->
                     IF c \in StaleClients THEN NoWindow ELSE acc[c]]
    BY <1>13 DEF StartSweep, reader
  <2>2. /\ \A i \in 1..Len(closing') :
             /\ closing'[i].client \in StaleClients
             /\ closing'[i].window = acc[closing'[i].client]
        /\ \A c \in StaleClients : c \in Clients /\ acc[c] # NoWindow
    BY <1>13, <2>1, SweptParts DEF StaleClients, Stale
  <2>3. \A id : Routed(id) => Routed(id)'
    BY <1>3, <2>1
  <2>4. \A c \in Clients : acc[c] # NoWindow =>
          Whole(c, acc[c]) /\ \A id \in acc[c].entries : Routed(id)'
    BY <1>1, <2>3 DEF Whole
  <2>5. \A c, w : Whole(c, w) => Whole(c, w)'
    BY <2>1 DEF Whole
  <2>6. ASSUME NEW i \in 1..Len(closing')
        PROVE  /\ Whole(closing[i].client, closing[i].window)'
               /\ \A id \in closing'[i].window.entries : Routed(id)'
    <3>1. PICK c : c = closing'[i].client /\ closing'[i].window = acc[c]
                   /\ c \in Clients /\ acc[c] # NoWindow
      BY <2>2
    <3>2. Whole(c, acc[c]) /\ \A id \in acc[c].entries : Routed(id)'
      BY <2>4, <3>1
    <3>3. QED
      BY <2>1, <3>1, <3>2 DEF Whole
  <2>7. ASSUME NEW c \in Clients, acc'[c] # NoWindow
        PROVE  Whole(c, acc[c])'
    BY <2>1, <2>4, <2>7 DEF Whole
  <2>8. QED
    BY <2>6, <2>7 DEF WholeWindows
<1>14. ASSUME closing # <<>>, NEW o \in Outcomes, HandleSwept(o)
       PROVE  WholeWindows'
  <2>1. /\ closing' = Tail(closing)
        /\ UNCHANGED <<inbox, batch, stream, acc>>
    BY <1>14 DEF HandleSwept, reader
  <2>2. \A i \in 1..Len(closing') : /\ i + 1 \in 1..Len(closing)
                                    /\ closing'[i] = closing[i + 1]
    BY <1>14, <2>1, SweptWindow
  <2>3. \A id : Routed(id) => Routed(id)'
    BY <1>3, <2>1
  <2>4. ASSUME NEW i \in 1..Len(closing')
        PROVE  /\ Whole(closing[i].client, closing[i].window)'
               /\ \A id \in closing'[i].window.entries : Routed(id)'
    BY <1>1, <2>1, <2>2, <2>3 DEF Whole
  <2>5. ASSUME NEW c \in Clients, acc'[c] # NoWindow
        PROVE  Whole(c, acc[c])'
    BY <1>1, <2>1, <2>5 DEF Whole
  <2>6. QED
    BY <2>4, <2>5 DEF WholeWindows
<1>15. QED
  BY <1>4, <1>5, <1>6, <1>8, <1>9, <1>11, <1>12, <1>13, <1>14 DEF Next

(* What steps of the log look like, entry by entry.                         *)
LEMMA LogKept ==
  ASSUME Parted, Parted', UNCHANGED <<delivered, rows>>,
         \A c \in Clients : \A id : Holds(c, id)' <=> Holds(c, id)
  PROVE  UNCHANGED Log!vars
<1>1. \A c \in Clients : HeldOf'[c] = HeldOf[c]
  BY DEF Parted
<1>2. HeldOf' = HeldOf
  BY <1>1 DEF HeldOf
<1>3. JudgedWindows' = JudgedWindows
  BY DEF JudgedWindows
<1>4. QED
  BY <1>2, <1>3 DEF Log!vars

(* A window of all the client's entries up to some one.                     *)
Cuts(c, W) ==
  /\ c \in Clients
  /\ W # {}
  /\ \A x \in W : Holds(c, x)
  /\ \A x \in W : \A y : Holds(c, y) /\ y \notin W => x < y

LEMMA CutJudges ==
  ASSUME Parted, NEW c, NEW W, Cuts(c, W),
         JudgedWindows' =
           Append(JudgedWindows, [client |-> c, entries |-> W])
  PROVE  c \in Clients /\ W \in SUBSET HeldOf[c] /\ Log!Judges(c, W)
BY DEF Parted, Cuts, Log!Judges, Log!IsWindow

LEMMA LogJudges ==
  ASSUME Parted, Parted', delivered' = delivered, NEW c, NEW W, Cuts(c, W),
         \A d \in Clients : \A id :
           Holds(d, id)' <=> Holds(d, id) /\ ~(d = c /\ id \in W),
         JudgedWindows' =
           Append(JudgedWindows, [client |-> c, entries |-> W])
  PROVE  Log!Next
<1>1. c \in Clients /\ W \in SUBSET HeldOf[c] /\ Log!Judges(c, W)
  BY CutJudges
<1>2. \A d \in Clients :
        HeldOf'[d] = IF d = c THEN HeldOf[d] \ W ELSE HeldOf[d]
  BY DEF Parted
<1>3. /\ HeldOf = [d \in Clients |-> HeldOf[d]]
      /\ HeldOf' = [d \in Clients |-> HeldOf'[d]]
  BY DEF Parted
<1>4. HeldOf' = [HeldOf EXCEPT ![c] = @ \ W]
  BY <1>1, <1>2, <1>3
<1>5. Log!Judge
  BY <1>1, <1>4 DEF Log!Judge
<1>6. QED
  BY <1>5 DEF Log!Next

LEMMA LogLoses ==
  ASSUME Parted, Parted', delivered' = delivered,
         \A d \in Clients : \A id : ~Holds(d, id)',
         \/ JudgedWindows' = JudgedWindows
         \/ \E c, W : /\ Cuts(c, W)
                      /\ JudgedWindows' =
                           Append(JudgedWindows, [client |-> c, entries |-> W])
  PROVE  Log!Next
<1>1. \/ UNCHANGED JudgedWindows
      \/ \E c \in Clients : \E W \in SUBSET HeldOf[c] : Log!Judges(c, W)
  BY CutJudges
<1>2. HeldOf' = [d \in Clients |-> {}]
  <2>1. \A d \in Clients : HeldOf'[d] = {}
    BY DEF Parted
  <2>2. HeldOf' = [d \in Clients |-> HeldOf'[d]]
    BY DEF Parted
  <2>3. QED
    BY <2>1, <2>2
<1>3. Log!Lose
  BY <1>1, <1>2 DEF Log!Lose
<1>4. QED
  BY <1>3 DEF Log!Next

(* The window an event closes holds all that comes first of its client, and *)
(* so does the first one of a sweep.                                        *)
LEMMA WindowCut ==
  ASSUME TypeOK, RoutedFirst, WholeWindows, closing = <<>>,
         NEW c \in Clients, acc[c] # NoWindow
  PROVE  Cuts(c, acc[c].entries)
<1>1. \A x \in acc[c].entries : Routed(x) /\ stream[x].client = c
  BY DEF RoutedFirst, WholeWindows, Whole
<1>2. acc[c].entries # {}
  BY DEF WholeWindows, Whole
<1>3. ASSUME NEW x \in acc[c].entries PROVE Holds(c, x)
  BY <1>1, <1>3 DEF Holds, InWindow
<1>4. \A y : ~InSwept(c, y)
  BY DEF InSwept
<1>5. ASSUME NEW x \in acc[c].entries, NEW y, Holds(c, y),
             y \notin acc[c].entries
      PROVE  x < y
  <2>1. InInbox(y) \/ InBatch(y)
    BY <1>4, <1>5 DEF Holds, InWindow
  <2>2. QED
    BY <1>1, <1>5, <2>1 DEF Routed, InInbox, InBatch
<1>6. QED
  BY <1>2, <1>3, <1>5 DEF Cuts

LEMMA SweptCut ==
  ASSUME TypeOK, Reading, Delivered, SweptOnce, WholeWindows, closing # <<>>
  PROVE  Cuts(Head(closing).client, Head(closing).window.entries)
<1>1. PICK c, w : c = Head(closing).client /\ w = Head(closing).window
  OBVIOUS
<1>2. /\ 1 \in 1..Len(closing) /\ c \in Clients
      /\ closing[1].client = c /\ closing[1].window = w
  BY <1>1, SweptWindow
<1>3. /\ w.entries # {}
      /\ \A x \in w.entries : Routed(x) /\ stream[x].client = c
  BY <1>2 DEF WholeWindows, Whole
<1>4. ASSUME NEW x \in w.entries PROVE Holds(c, x)
  BY <1>2, <1>3, <1>4 DEF Holds, InSwept
<1>5. ASSUME NEW x \in w.entries, NEW y, Holds(c, y), y \notin w.entries
      PROVE  x < y
  <2>1. ~InWindow(c, y) /\ ~InSwept(c, y)
    BY <1>2, <1>5 DEF SweptOnce, InWindow, InSwept
  <2>2. InInbox(y) \/ InBatch(y)
    BY <1>5, <2>1 DEF Holds
  <2>3. QED
    BY <1>3, <1>5, <2>2 DEF Routed, InInbox, InBatch
<1>6. Cuts(c, w.entries)
  BY <1>2, <1>3, <1>4, <1>5 DEF Cuts
<1>7. QED
  BY <1>1, <1>6

(* A sequence is its head and the rest.                                     *)
Has(s, x) == \E i \in 1..Len(s) : s[i] = x

LEMMA HasTail ==
  ASSUME NEW S, NEW s \in Seq(S), s # <<>>, NEW x
  PROVE  Has(s, x) <=> x = Head(s) \/ Has(Tail(s), x)
<1>1. Len(s) \in Nat \ {0}
  BY TailParts
<1>2. PICK n \in Nat : n = Len(s) - 1
  BY <1>1
<1>3. /\ Len(s) = n + 1 /\ Len(Tail(s)) = n /\ Head(s) = s[1]
      /\ \A i \in 1..n : Tail(s)[i] = s[i + 1]
  BY <1>1, <1>2, TailParts
<1>4. ASSUME Has(s, x) PROVE x = Head(s) \/ Has(Tail(s), x)
  <2>1. PICK i \in 1..(n + 1) : s[i] = x
    BY <1>3, <1>4 DEF Has
  <2>2. i = 1 \/ (i - 1 \in 1..n /\ (i - 1) + 1 = i)
    OBVIOUS
  <2>3. QED
    BY <1>3, <2>1, <2>2 DEF Has
<1>5. ASSUME x = Head(s) PROVE Has(s, x)
  <2>1. 1 \in 1..(n + 1)
    OBVIOUS
  <2>2. QED
    BY <1>3, <1>5, <2>1 DEF Has
<1>6. ASSUME Has(Tail(s), x) PROVE Has(s, x)
  <2>1. PICK i \in 1..n : Tail(s)[i] = x
    BY <1>3, <1>6 DEF Has
  <2>2. i + 1 \in 1..(n + 1)
    OBVIOUS
  <2>3. QED
    BY <1>3, <2>1, <2>2 DEF Has
<1>7. QED
  BY <1>4, <1>5, <1>6

LEMMA HasAppend ==
  ASSUME NEW S, NEW s \in Seq(S), NEW e \in S, NEW x
  PROVE  Has(Append(s, e), x) <=> x = e \/ Has(s, x)
<1>1. PICK n \in Nat : n = Len(s)
  BY ElementParts
<1>2. /\ Len(Append(s, e)) = n + 1 /\ Append(s, e)[n + 1] = e
      /\ \A i \in 1..n : Append(s, e)[i] = s[i]
  BY <1>1, AppendParts
<1>3. \A i : i \in 1..(n + 1) <=> i \in 1..n \/ i = n + 1
  OBVIOUS
<1>4. QED
  BY <1>1, <1>2, <1>3 DEF Has

LEMMA BatchParts ==
  ASSUME TypeOK, batch # <<>>, batch' = Tail(batch)
  PROVE  \A x : InBatch(x) <=> x = Head(batch) \/ InBatch(x)'
<1>1. batch \in Seq(1..delivered)
  BY Types
<1>2. ASSUME NEW x PROVE InBatch(x) <=> x = Head(batch) \/ InBatch(x)'
  <2>1. Has(batch, x) <=> x = Head(batch) \/ Has(Tail(batch), x)
    BY <1>1, HasTail
  <2>2. InBatch(x) <=> Has(batch, x)
    BY DEF InBatch, Has
  <2>3. InBatch(x)' <=> Has(Tail(batch), x)
    BY DEF InBatch, Has
  <2>4. QED
    BY <2>1, <2>2, <2>3
<1>3. QED
  BY <1>2

(* Routing moves an entry from the batch to its client's window, and takes  *)
(* from what is held the window it closes.                                  *)
LEMMA EventHolds ==
  ASSUME TypeOK, Reading, RoutedFirst, WholeWindows, batch # <<>>,
         NEW c, NEW id, Routes(c, id), closing = <<>>,
         UNCHANGED <<closing, inbox, stream>>, batch' = Tail(batch),
         NEW W, W = IF Rolls(acc[c], stream[id].ts) THEN acc[c].entries ELSE {}
  PROVE  \A d \in Clients : \A x :
           Holds(d, x)' <=> Holds(d, x) /\ ~(d = c /\ x \in W)
<1> DEFINE w  == acc[c]
           ts == stream[id].ts
<1>1. /\ c \in Clients /\ id \in Nat /\ ts \in Nat
      /\ w \in Accumulator \cup {NoWindow}
      /\ acc'[c] = AfterEvent(w, id, ts)
      /\ \A d \in Clients : d # c => acc'[d] = acc[d]
  BY RoutedParts
<1>2. /\ stream[id].client = c
      /\ \A x : InBatch(x) <=> x = id \/ InBatch(x)'
  BY BatchParts DEF Routes
<1>3. /\ \A x : InInbox(x)' <=> InInbox(x)
      /\ \A d, x : ~InSwept(d, x) /\ ~InSwept(d, x)'
  BY DEF InInbox, InSwept
<1>4. ASSUME NEW d \in Clients, NEW x, d # c
      PROVE  Holds(d, x)' <=> Holds(d, x)
  <2>1. InWindow(d, x)' <=> InWindow(d, x)
    BY <1>1, <1>4 DEF InWindow
  <2>2. x = id => stream[x].client # d
    BY <1>2, <1>4
  <2>3. stream'[x].client = stream[x].client
    OBVIOUS
  <2>4. QED
    BY <1>2, <1>3, <2>1, <2>2, <2>3 DEF Holds
<1>5. \A x : w # NoWindow /\ x \in w.entries => ~InBatch(x) /\ ~InInbox(x)
  <2>1. ASSUME NEW x, w # NoWindow, x \in w.entries
        PROVE  ~InBatch(x) /\ ~InInbox(x)
    <3>1. Routed(x)
      BY <1>1, <2>1 DEF RoutedFirst
    <3>2. inbox \in Seq(1..delivered) /\ batch \in Seq(1..delivered)
          /\ delivered \in Nat
      BY Types
    <3>3. /\ \A i \in 1..Len(batch) : batch[i] \in Nat
          /\ \A i \in 1..Len(inbox) : inbox[i] \in Nat
      BY <3>2, ElementParts
    <3>4. \A n \in Nat : ~(n < n)
      OBVIOUS
    <3>5. QED
      BY <3>1, <3>3, <3>4 DEF Routed, InBatch, InInbox
  <2>2. QED
    BY <2>1
<1>6. CASE Rolls(w, ts)
  <2>1. /\ w # NoWindow /\ W = w.entries
        /\ \A x : InWindow(c, x)' <=> x = id
    BY <1>1, <1>6, AfterEventParts DEF Rolls, InWindow
  <2>2. ASSUME NEW x
        PROVE  Holds(c, x)' <=> Holds(c, x) /\ x \notin W
    BY <1>2, <1>3, <1>5, <2>1 DEF Holds, InWindow
  <2>3. QED
    BY <1>4, <2>2
<1>7. CASE ~Rolls(w, ts)
  <2>1. CASE w = NoWindow
    <3>1. AfterEvent(w, id, ts) = [window_start |-> ts, entries |-> {id}]
      BY <2>1 DEF AfterEvent
    <3>2. \A x : ~InWindow(c, x) /\ (InWindow(c, x)' <=> x = id)
      <4>1. acc'[c] # NoWindow
        BY <1>1, AfterEventParts
      <4>2. acc'[c].entries = {id}
        BY <1>1, <3>1
      <4>3. QED
        BY <2>1, <4>1, <4>2 DEF InWindow
    <3>3. W = {}
      BY <1>7
    <3>4. ASSUME NEW x PROVE Holds(c, x)' <=> Holds(c, x)
      BY <1>2, <1>3, <3>2 DEF Holds
    <3>5. QED
      BY <1>4, <3>3, <3>4
  <2>2. CASE w # NoWindow
    <3>1. \A x : InWindow(c, x)' <=> InWindow(c, x) \/ x = id
      BY <1>1, <1>7, <2>2, AfterEventParts DEF InWindow
    <3>2. W = {}
      BY <1>7
    <3>3. ASSUME NEW x PROVE Holds(c, x)' <=> Holds(c, x)
      BY <1>2, <1>3, <3>1 DEF Holds
    <3>4. QED
      BY <1>4, <3>2, <3>3
  <2>3. QED
    BY <2>1, <2>2
<1>8. QED
  BY <1>6, <1>7

(* Parsing moves an entry from the inbox to the batch, or drops one that no *)
(* client has.                                                              *)
LEMMA ParseHolds ==
  ASSUME TypeOK, Reading, ParseEntry
  PROVE  \A d \in Clients : \A x : Holds(d, x)' <=> Holds(d, x)
<1>1. /\ inbox \in Seq(1..delivered) /\ batch \in Seq(1..delivered)
      /\ inbox # <<>> /\ inbox' = Tail(inbox)
      /\ delivered \in Nat /\ Len(stream) \in Nat
      /\ delivered <= Len(stream)
      /\ UNCHANGED <<stream, acc, closing>>
  BY Types DEF ParseEntry, scoring
<1>2. Head(inbox) \in 1..delivered
  BY <1>1, TailParts
<1>3. \A x : Has(inbox, x) <=> x = Head(inbox) \/ Has(inbox', x)
  BY <1>1, HasTail
<1>4. ASSUME NEW x
      PROVE  /\ InInbox(x) <=> Has(inbox, x)
             /\ InInbox(x)' <=> Has(inbox', x)
             /\ InBatch(x) <=> Has(batch, x)
             /\ InBatch(x)' <=> Has(batch', x)
  BY DEF InInbox, InBatch, Has
<1>5. ASSUME NEW d, NEW x
      PROVE  /\ InWindow(d, x)' <=> InWindow(d, x)
             /\ InSwept(d, x)' <=> InSwept(d, x)
             /\ stream'[x] = stream[x]
  BY <1>1 DEF InWindow, InSwept
<1>6. CASE stream[Head(inbox)].kind = "malformed"
  <2>1. batch' = batch
    BY <1>6 DEF ParseEntry
  <2>2. stream[Head(inbox)].client \notin Clients
    BY <1>1, <1>2, <1>6, WorkerAssumption DEF Reading
  <2>3. ASSUME NEW d \in Clients, NEW x
        PROVE  Holds(d, x)' <=> Holds(d, x)
    BY <1>3, <1>4, <1>5, <2>1, <2>2 DEF Holds
  <2>4. QED
    BY <2>3
<1>7. CASE stream[Head(inbox)].kind # "malformed"
  <2>1. batch' = Append(batch, Head(inbox))
    BY <1>7 DEF ParseEntry
  <2>2. \A x : Has(batch', x) <=> x = Head(inbox) \/ Has(batch, x)
    BY <1>1, <1>2, <2>1, HasAppend
  <2>3. ASSUME NEW d \in Clients, NEW x
        PROVE  Holds(d, x)' <=> Holds(d, x)
    BY <1>3, <1>4, <1>5, <2>2 DEF Holds
  <2>4. QED
    BY <2>3
<1>8. QED
  BY <1>6, <1>7

(* A sweep moves windows, and handles the first.                            *)
LEMMA SweepHolds ==
  ASSUME TypeOK, NEW order \in SetToSeqs(StaleClients), StartSweep(order)
  PROVE  \A d \in Clients : \A x : Holds(d, x)' <=> Holds(d, x)
<1>1. /\ closing = <<>> /\ UNCHANGED <<inbox, batch, stream>>
      /\ acc' = [c \in Clients |->
                   IF c \in StaleClients THEN NoWindow ELSE acc[c]]
  BY DEF StartSweep, reader
<1>2. /\ \A i \in 1..Len(closing') :
           /\ closing'[i].client \in StaleClients
           /\ closing'[i].window = acc[closing'[i].client]
      /\ \A c \in StaleClients :
           \E i \in 1..Len(closing') : closing'[i].client = c
      /\ \A c \in StaleClients : c \in Clients /\ acc[c] # NoWindow
  BY <1>1, SweptParts DEF StaleClients, Stale
<1>3. /\ \A x : InInbox(x)' <=> InInbox(x)
      /\ \A x : InBatch(x)' <=> InBatch(x)
      /\ \A d, x : ~InSwept(d, x)
  BY <1>1 DEF InInbox, InBatch, InSwept
<1>4. ASSUME NEW d \in Clients, NEW x
      PROVE  InWindow(d, x)' \/ InSwept(d, x)' <=> InWindow(d, x)
  <2>1. CASE d \in StaleClients
    <3>1. ~InWindow(d, x)'
      BY <1>1, <2>1 DEF InWindow
    <3>2. InSwept(d, x)' <=> x \in acc[d].entries
      BY <1>2, <2>1 DEF InSwept
    <3>3. QED
      BY <1>2, <2>1, <3>1, <3>2 DEF InWindow
  <2>2. CASE d \notin StaleClients
    <3>1. InWindow(d, x)' <=> InWindow(d, x)
      BY <1>1, <2>2 DEF InWindow
    <3>2. ~InSwept(d, x)'
      BY <1>2, <2>2 DEF InSwept
    <3>3. QED
      BY <3>1, <3>2
  <2>3. QED
    BY <2>1, <2>2
<1>5. QED
  BY <1>1, <1>3, <1>4 DEF Holds

LEMMA HandleHolds ==
  ASSUME TypeOK, Reading, Delivered, SweptOnce, WholeWindows,
         closing # <<>>, NEW o, HandleSwept(o),
         NEW c, NEW W, c = Head(closing).client,
         W = Head(closing).window.entries
  PROVE  \A d \in Clients : \A x :
           Holds(d, x)' <=> Holds(d, x) /\ ~(d = c /\ x \in W)
<1>1. /\ closing' = Tail(closing)
      /\ UNCHANGED <<inbox, batch, stream, acc>>
  BY DEF HandleSwept, reader
<1>2. Len(closing) \in Nat \ {0}
  BY SweptWindow
<1>3. PICK n \in Nat : n = Len(closing) - 1
  BY <1>2
<1>4. /\ c \in Clients /\ closing[1].client = c
      /\ closing[1].window.entries = W
      /\ Len(closing) = n + 1 /\ Len(closing') = n
      /\ \A i \in 1..n : closing'[i] = closing[i + 1]
  BY <1>1, <1>3, <1>2, SweptWindow
<1>5. /\ \A i \in 1..n : i + 1 \in 1..(n + 1) /\ i + 1 # 1
      /\ \A i \in 1..(n + 1) :
           i = 1 \/ (i - 1 \in 1..n /\ (i - 1) + 1 = i)
      /\ 1 \in 1..(n + 1)
  OBVIOUS
<1>6. ASSUME NEW d \in Clients, NEW x
      PROVE  InSwept(d, x) <=> (d = c /\ x \in W) \/ InSwept(d, x)'
  <2>1. ASSUME InSwept(d, x) PROVE (d = c /\ x \in W) \/ InSwept(d, x)'
    <3>1. PICK i \in 1..(n + 1) : /\ closing[i].client = d
                                  /\ x \in closing[i].window.entries
      BY <1>4, <2>1 DEF InSwept
    <3>2. CASE i = 1
      BY <1>4, <3>1, <3>2
    <3>3. CASE i # 1
      <4>1. PICK j \in 1..n : j + 1 = i
        BY <1>5, <3>3
      <4>2. closing'[j] = closing[i]
        BY <1>4, <4>1
      <4>3. QED
        BY <1>4, <3>1, <4>1, <4>2 DEF InSwept
    <3>4. QED
      BY <3>2, <3>3
  <2>2. ASSUME InSwept(d, x)' PROVE InSwept(d, x)
    BY <1>4, <1>5, <2>2 DEF InSwept
  <2>3. ASSUME d = c, x \in W PROVE InSwept(d, x)
    BY <1>4, <1>5, <2>3 DEF InSwept
  <2>4. QED
    BY <2>1, <2>2, <2>3
<1>7. ASSUME NEW x \in W
      PROVE  ~InWindow(c, x) /\ ~InSwept(c, x)' /\ ~InBatch(x) /\ ~InInbox(x)
  <2>1. ~InWindow(c, x)
    BY <1>4, <1>5 DEF SweptOnce, InWindow
  <2>2. ~InSwept(c, x)'
    BY <1>4, <1>5 DEF SweptOnce, InSwept
  <2>3. Routed(x)
    BY <1>4, <1>5, <1>7 DEF WholeWindows
  <2>4. inbox \in Seq(1..delivered) /\ batch \in Seq(1..delivered)
        /\ delivered \in Nat
    BY Types
  <2>5. /\ \A i \in 1..Len(batch) : batch[i] \in Nat
        /\ \A i \in 1..Len(inbox) : inbox[i] \in Nat
    BY <2>4, ElementParts
  <2>6. \A k \in Nat : ~(k < k)
    OBVIOUS
  <2>7. QED
    BY <2>1, <2>2, <2>3, <2>5, <2>6 DEF Routed, InBatch, InInbox
<1>8. ASSUME NEW d, NEW x
      PROVE  /\ InInbox(x)' <=> InInbox(x)
             /\ InBatch(x)' <=> InBatch(x)
             /\ InWindow(d, x)' <=> InWindow(d, x)
             /\ stream'[x] = stream[x]
  BY <1>1 DEF InInbox, InBatch, InWindow
<1>9. ASSUME NEW d \in Clients, NEW x
      PROVE  Holds(d, x)' <=> Holds(d, x) /\ ~(d = c /\ x \in W)
  BY <1>6, <1>7, <1>8 DEF Holds
<1>10. QED
  BY <1>9

(* New entries are read into an empty inbox.                                *)
LEMMA LogTakes ==
  ASSUME TypeOK, Reading, Delivered, WholeWindows, Parted, Parted', XReadGroup
  PROVE  Log!Next
<1>1. /\ delivered \in Nat /\ BatchEnd \in Nat /\ delivered < BatchEnd
      /\ delivered' = BatchEnd /\ ReadFrom = delivered + 1
      /\ inbox' = [i \in 1..(BatchEnd - ReadFrom + 1) |-> ReadFrom + i - 1]
      /\ UNCHANGED <<stream, batch, acc, closing, rows>>
  BY Types, WorkerAssumption
     DEF XReadGroup, BatchEnd, ReadFrom, scoring, persisted
<1>2. inbox = <<>> /\ batch = <<>>
  BY DEF XReadGroup, Reading
<1>3. ASSUME NEW x
      PROVE  /\ InInbox(x)' <=> x \in (delivered + 1)..delivered'
             /\ ~InInbox(x) /\ ~InBatch(x) /\ ~InBatch(x)'
  <2>1. PICK n \in Nat : BatchEnd = delivered + n
    BY <1>1
  <2>2. inbox' = [i \in 1..n |-> delivered + i]
    BY <1>1, <2>1
  <2>3. Len(inbox') = n /\ \A i \in 1..n : inbox'[i] = delivered + i
    BY <1>1, <2>1, <2>2
  <2>4. InInbox(x)' <=> \E i \in 1..n : delivered + i = x
    BY <2>3 DEF InInbox
  <2>5. (\E i \in 1..n : delivered + i = x) <=>
          x \in (delivered + 1)..(delivered + n)
    <3>1. ASSUME x \in (delivered + 1)..(delivered + n)
          PROVE  x - delivered \in 1..n /\ delivered + (x - delivered) = x
      BY <1>1, <3>1
    <3>2. \A i \in 1..n : delivered + i \in (delivered + 1)..(delivered + n)
      BY <1>1
    <3>3. QED
      BY <3>1, <3>2
  <2>6. ~InInbox(x) /\ ~InBatch(x) /\ ~InBatch(x)'
    BY <1>1, <1>2 DEF InInbox, InBatch
  <2>7. QED
    BY <1>1, <2>1, <2>4, <2>5, <2>6
<1>4. ASSUME NEW d, NEW x
      PROVE  /\ InWindow(d, x)' <=> InWindow(d, x)
             /\ InSwept(d, x)' <=> InSwept(d, x)
             /\ stream'[x] = stream[x]
  BY <1>1 DEF InWindow, InSwept
<1>5. ASSUME NEW d \in Clients, NEW x
      PROVE  /\ Holds(d, x) => Holds(d, x)'
             /\ Holds(d, x)' /\ ~Holds(d, x) =>
                  x \in (delivered + 1)..delivered'
             /\ Holds(d, x)' => stream[x].client = d
  BY <1>3, <1>4 DEF Holds
<1>6. ASSUME NEW d \in Clients, NEW x
      PROVE  /\ x \in HeldOf[d] => x \in HeldOf'[d]
             /\ x \in HeldOf'[d] /\ x \notin HeldOf[d] =>
                  x \in (delivered + 1)..delivered'
             /\ x \in HeldOf'[d] => stream[x].client = d
  <2>1. x \in HeldOf[d] <=> Holds(d, x)
    BY DEF Parted
  <2>2. x \in HeldOf'[d] <=> Holds(d, x)'
    BY DEF Parted
  <2>3. QED
    BY <1>5, <2>1, <2>2
<1>7. ASSUME NEW d \in Clients
      PROVE  /\ HeldOf[d] \subseteq HeldOf'[d]
             /\ HeldOf'[d] \ HeldOf[d] \subseteq (delivered + 1)..delivered'
  BY <1>6
<1>8. ASSUME NEW c \in Clients, NEW d \in Clients, c # d
      PROVE  HeldOf'[c] \cap HeldOf'[d] = {}
  BY <1>6, <1>8
<1>9. UNCHANGED JudgedWindows
  BY <1>1 DEF JudgedWindows
<1>10. Log!Take
  BY <1>1, <1>7, <1>8, <1>9 DEF Log!Take
<1>11. QED
  BY <1>10 DEF Log!Next

(* Every step of the worker is one of the log, or none.                     *)
LEMMA LogStep ==
  ASSUME TypeOK, Reading, Delivered, InOrder, RoutedFirst, SweptOnce,
         WholeWindows, TypeOK', WholeWindows', Next
  PROVE  Log!Next \/ UNCHANGED Log!vars
<1>1. Parted /\ Parted'
  BY HeldParts, HeldPartsNext
<1>2. ASSUME UNCHANGED <<delivered, rows, inbox, batch, acc, closing>>,
             \A id \in 1..delivered : stream'[id] = stream[id]
      PROVE  UNCHANGED Log!vars
  <2>1. ASSUME NEW c \in Clients, NEW id
        PROVE  Holds(c, id)' <=> Holds(c, id)
    <3>1. /\ InInbox(id)' <=> InInbox(id)
          /\ InBatch(id)' <=> InBatch(id)
          /\ InWindow(c, id)' <=> InWindow(c, id)
          /\ InSwept(c, id)' <=> InSwept(c, id)
      BY <1>2 DEF InInbox, InBatch, InWindow, InSwept
    <3>2. InInbox(id) \/ InBatch(id) \/ InWindow(c, id) \/ InSwept(c, id)
            => id \in 1..delivered
      <4>1. inbox \in Seq(1..delivered) /\ batch \in Seq(1..delivered)
        BY Types
      <4>2. /\ \A i \in 1..Len(inbox) : inbox[i] \in 1..delivered
            /\ \A i \in 1..Len(batch) : batch[i] \in 1..delivered
        BY <4>1, ElementParts
      <4>3. QED
        BY <4>2 DEF InInbox, InBatch, InWindow, InSwept, Delivered
    <3>3. QED
      BY <1>2, <3>1, <3>2 DEF Holds
  <2>2. QED
    BY <1>1, <1>2, <2>1, LogKept
<1>3. CASE Advance \/ XAck
  BY <1>2, <1>3 DEF Advance, XAck, group, reader, scoring, persisted
<1>4. ASSUME NEW c, NEW kind, Emit(c, kind) PROVE UNCHANGED Log!vars
  <2>1. \A id \in 1..delivered : stream'[id] = stream[id]
    BY <1>4, Types DEF Emit
  <2>2. QED
    BY <1>2, <1>4, <2>1 DEF Emit, group, reader, scoring, persisted
<1>5. CASE XReadGroup
  BY <1>1, <1>5, LogTakes
<1>6. CASE ParseEntry
  BY <1>1, <1>6, ParseHolds, LogKept DEF ParseEntry, group, persisted
<1>7. ASSUME NEW order \in SetToSeqs(StaleClients), StartSweep(order)
      PROVE  UNCHANGED Log!vars
  BY <1>1, <1>7, SweepHolds, LogKept DEF StartSweep, group, persisted
<1>8. ASSUME batch # <<>>, OnEvent(Head(batch)) PROVE UNCHANGED Log!vars
  <2>1. PICK c, id : c = stream[id].client /\ id = Head(batch)
    OBVIOUS
  <2>2. /\ Routes(c, id) /\ closing = <<>> /\ batch' = Tail(batch)
        /\ UNCHANGED <<closing, inbox, stream, delivered, rows>>
        /\ ~Rolls(acc[c], stream[id].ts)
    BY <1>8, <2>1 DEF OnEvent, TakeNext, Consume, Routes, group, persisted
  <2>3. PICK W : W = IF Rolls(acc[c], stream[id].ts) THEN acc[c].entries
                                                     ELSE {}
    OBVIOUS
  <2>4. \A d \in Clients : \A x :
          Holds(d, x)' <=> Holds(d, x) /\ ~(d = c /\ x \in W)
    BY <1>8, <2>2, <2>3, EventHolds
  <2>5. W = {}
    BY <2>2, <2>3
  <2>6. \A d \in Clients : \A x : Holds(d, x)' <=> Holds(d, x)
    BY <2>4, <2>5
  <2>7. QED
    BY <1>1, <2>2, <2>6, LogKept
<1>9. ASSUME batch # <<>>, NEW o \in Outcomes, OnEventRolls(Head(batch), o)
      PROVE  Log!Next
  <2>1. PICK c, id : c = stream[id].client /\ id = Head(batch)
    OBVIOUS
  <2>2. /\ Routes(c, id) /\ closing = <<>> /\ batch' = Tail(batch)
        /\ UNCHANGED <<closing, inbox, stream, delivered>>
        /\ Rolls(acc[c], stream[id].ts) /\ acc[c] # NoWindow
        /\ o.stage = "done"
        /\ Persist(c, acc[c], Seen(c, id), o.level, o.alarm, o.stage)
    BY <1>9, <2>1 DEF OnEventRolls, TakeNext, Consume, Routes, group, Rolls,
                      HandleClosedWindow
  <2>3. c \in Clients /\ acc[c] \in Accumulator /\ acc[c].entries \subseteq Id
        /\ Seen(c, id) \in SUBSET Id
    BY <1>9, <2>1, <2>2, ClosesWindow
  <2>4. JudgedWindows' =
          Append(JudgedWindows, [client |-> c, entries |-> acc[c].entries])
    BY <2>2, <2>3, RowJudged DEF Commits
  <2>5. Cuts(c, acc[c].entries)
    BY <2>2, <2>3, WindowCut
  <2>6. PICK W : W = IF Rolls(acc[c], stream[id].ts) THEN acc[c].entries
                                                     ELSE {}
    OBVIOUS
  <2>7. W = acc[c].entries
    BY <2>2, <2>6
  <2>8. \A d \in Clients : \A x :
          Holds(d, x)' <=> Holds(d, x) /\ ~(d = c /\ x \in W)
    <3>1. /\ Routes(c, id) /\ closing = <<>> /\ batch' = Tail(batch)
          /\ UNCHANGED <<closing, inbox, stream>> /\ batch # <<>>
      BY <1>9, <2>2
    <3>2. QED
      BY <2>6, <3>1, EventHolds
  <2>9. QED
    BY <1>1, <2>2, <2>4, <2>5, <2>7, <2>8, LogJudges
<1>10. ASSUME closing # <<>>, NEW o \in Outcomes, HandleSwept(o)
       PROVE  Log!Next
  <2>1. PICK c, w : c = Head(closing).client /\ w = Head(closing).window
    OBVIOUS
  <2>2. /\ c \in Clients /\ w \in Accumulator /\ w.entries \subseteq Id
        /\ violations[c] \in SUBSET Id
    BY <1>10, <2>1, SweptWindow
  <2>3. /\ delivered' = delivered /\ o.stage = "done"
        /\ Persist(c, w, violations[c], o.level, o.alarm, o.stage)
    BY <1>10, <2>1 DEF HandleSwept, HandleClosedWindow, group
  <2>4. JudgedWindows' =
          Append(JudgedWindows, [client |-> c, entries |-> w.entries])
    BY <2>2, <2>3, RowJudged DEF Commits
  <2>5. Cuts(c, w.entries)
    BY <1>10, <2>1, SweptCut
  <2>6. \A d \in Clients : \A x :
          Holds(d, x)' <=> Holds(d, x) /\ ~(d = c /\ x \in w.entries)
    BY <1>10, <2>1, HandleHolds
  <2>7. QED
    BY <1>1, <2>3, <2>4, <2>5, <2>6, LogJudges
<1>11. ASSUME Forget PROVE \A d \in Clients : \A x : ~Holds(d, x)'
  <2>1. /\ inbox' = <<>> /\ batch' = <<>> /\ closing' = <<>>
        /\ acc' = [c \in Clients |-> NoWindow]
    BY <1>11 DEF Forget
  <2>2. ASSUME NEW d \in Clients, NEW x PROVE ~Holds(d, x)'
    BY <2>1 DEF Holds, InInbox, InBatch, InWindow, InSwept
  <2>3. QED
    BY <2>2
<1>12. CASE Crash
  <2>1. Forget /\ delivered' = delivered /\ rows' = rows
    BY <1>12 DEF Crash, group, persisted
  <2>2. JudgedWindows' = JudgedWindows
    BY <2>1 DEF JudgedWindows
  <2>3. QED
    BY <1>1, <1>11, <2>1, <2>2, LogLoses
<1>13. ASSUME batch # <<>>, NEW o \in Outcomes, OnEventFails(Head(batch), o)
       PROVE  Log!Next
  <2>1. PICK c, id : c = stream[id].client /\ id = Head(batch)
    OBVIOUS
  <2>2. /\ closing = <<>> /\ delivered' = delivered /\ Forget
        /\ Rolls(acc[c], stream[id].ts) /\ acc[c] # NoWindow
        /\ Persist(c, acc[c], Seen(c, id), o.level, o.alarm, o.stage)
    BY <1>13, <2>1 DEF OnEventFails, TakeNext, group, Rolls
  <2>3. c \in Clients /\ acc[c] \in Accumulator /\ acc[c].entries \subseteq Id
        /\ Seen(c, id) \in SUBSET Id
    BY <1>13, <2>1, <2>2, ClosesWindow
  <2>4. \/ JudgedWindows' = JudgedWindows
        \/ JudgedWindows' =
             Append(JudgedWindows, [client |-> c, entries |-> acc[c].entries])
    BY <2>2, <2>3, RowJudged
  <2>5. Cuts(c, acc[c].entries)
    BY <2>2, <2>3, WindowCut
  <2>6. QED
    BY <1>1, <1>11, <2>2, <2>4, <2>5, LogLoses
<1>14. ASSUME closing # <<>>, NEW o \in Outcomes, SweepFails(o)
       PROVE  Log!Next
  <2>1. PICK c, w : c = Head(closing).client /\ w = Head(closing).window
    OBVIOUS
  <2>2. /\ c \in Clients /\ w \in Accumulator /\ w.entries \subseteq Id
        /\ violations[c] \in SUBSET Id
    BY <1>14, <2>1, SweptWindow
  <2>3. /\ delivered' = delivered /\ Forget
        /\ Persist(c, w, violations[c], o.level, o.alarm, o.stage)
    BY <1>14, <2>1 DEF SweepFails, group
  <2>4. \/ JudgedWindows' = JudgedWindows
        \/ JudgedWindows' =
             Append(JudgedWindows, [client |-> c, entries |-> w.entries])
    BY <2>2, <2>3, RowJudged
  <2>5. Cuts(c, w.entries)
    BY <1>14, <2>1, SweptCut
  <2>6. QED
    BY <1>1, <1>11, <2>3, <2>4, <2>5, LogLoses
<1>15. QED
  BY <1>3, <1>4, <1>5, <1>6, <1>7, <1>8, <1>9, <1>10, <1>12, <1>13, <1>14
     DEF Next

(* What is judged comes before what is held, and in order.                  *)
LogTyped ==
  /\ delivered \in Nat
  /\ JudgedWindows \in Seq([client : Clients, entries : SUBSET Id])
  /\ \A c \in Clients : HeldOf[c] \subseteq 1..delivered

LogOrdered ==
  /\ \A i \in 1..Len(JudgedWindows) : \A x \in JudgedWindows[i].entries :
       /\ x \in 1..delivered
       /\ \A y \in HeldOf[JudgedWindows[i].client] : x < y
  /\ RowsInOrder

LEMMA LogTypes ==
  ASSUME TypeOK, Delivered, WholeWindows
  PROVE  LogTyped
<1>1. PICK n \in Nat : n = Len(rows) /\ DOMAIN rows = 1..n
  BY Types, ElementParts
<1>2. \A i \in 1..n : rows[i] \in Row
  BY <1>1, Types, ElementParts
<1>3. JudgedWindows \in [1..n -> [client : Clients, entries : SUBSET Id]]
  BY <1>1, <1>2 DEF JudgedWindows, Row
<1>4. JudgedWindows \in Seq([client : Clients, entries : SUBSET Id])
  BY <1>3, FunctionParts
<1>5. ASSUME NEW c \in Clients, NEW x \in HeldOf[c] PROVE x \in 1..delivered
  BY HeldParts, HeldDelivered DEF Parted
<1>6. QED
  BY <1>4, <1>5, Types DEF LogTyped

LEMMA LogTypesNext == TypeOK' /\ Delivered' /\ WholeWindows' => LogTyped'
<1>1. TypeOK /\ Delivered /\ WholeWindows => LogTyped
  BY LogTypes
<1>2. QED
  BY <1>1, PTL

LEMMA OrderJudged ==
  ASSUME LogTyped, LogOrdered, LogTyped', delivered' = delivered,
         NEW c \in Clients, NEW W \in SUBSET HeldOf[c], Log!Judges(c, W),
         \A d \in Clients : HeldOf'[d] \subseteq HeldOf[d],
         HeldOf'[c] \cap W = {}
  PROVE  LogOrdered'
<1> DEFINE T == [client : Clients, entries : SUBSET Id]
           e == [client |-> c, entries |-> W]
<1>1. /\ W \subseteq HeldOf[c] /\ \A x \in W, y \in HeldOf[c] \ W : x < y
      /\ JudgedWindows' = Append(JudgedWindows, e)
  BY DEF Log!Judges, Log!IsWindow
<1>2. JudgedWindows \in Seq(T) /\ JudgedWindows' \in Seq(T)
  BY DEF LogTyped
<1>3. PICK n \in Nat : n = Len(JudgedWindows)
  BY <1>2, ElementParts
<1>4. e \in T
  <2>1. JudgedWindows'[n + 1] \in T /\ JudgedWindows'[n + 1] = e
    <3>1. Len(JudgedWindows') = n + 1 /\ JudgedWindows'[n + 1] = e
      BY <1>1, <1>2, <1>3
    <3>2. n + 1 \in 1..(n + 1)
      OBVIOUS
    <3>3. QED
      BY <1>2, <3>1, <3>2, ElementParts
  <2>2. QED
    BY <2>1
<1>5. /\ Len(JudgedWindows') = n + 1 /\ JudgedWindows'[n + 1] = e
      /\ \A i \in 1..n : JudgedWindows'[i] = JudgedWindows[i]
  BY <1>1, <1>2, <1>3, <1>4, AppendParts
<1>6. \A i : i \in 1..(n + 1) <=> i \in 1..n \/ i = n + 1
  OBVIOUS
<1>7. \A i \in 1..n : JudgedWindows[i] \in T
  BY <1>2, <1>3, ElementParts
<1>8. /\ DOMAIN JudgedWindows = 1..n /\ DOMAIN JudgedWindows' = 1..(n + 1)
  BY <1>2, <1>3, <1>5, ElementParts
<1>9. ASSUME NEW i \in 1..n, NEW x \in JudgedWindows[i].entries
      PROVE  /\ x \in 1..delivered
             /\ \A y \in HeldOf[JudgedWindows[i].client] : x < y
  BY <1>3, <1>9 DEF LogOrdered
<1>10. ASSUME NEW i \in 1..(n + 1), NEW x \in JudgedWindows'[i].entries
       PROVE  /\ x \in 1..delivered'
              /\ \A y \in HeldOf'[JudgedWindows'[i].client] : x < y
  <2>1. CASE i \in 1..n
    <3>1. JudgedWindows'[i] = JudgedWindows[i]
          /\ JudgedWindows[i].client \in Clients
      BY <1>5, <1>7, <2>1
    <3>2. QED
      BY <1>9, <1>10, <2>1, <3>1
  <2>2. CASE i = n + 1
    <3>1. JudgedWindows'[i].client = c /\ x \in W
      BY <1>5, <1>10, <2>2
    <3>2. x \in 1..delivered
      BY <1>1, <3>1 DEF LogTyped
    <3>3. QED
      BY <1>1, <3>1, <3>2
  <2>3. QED
    BY <1>6, <2>1, <2>2
<1>11. ASSUME NEW i \in 1..(n + 1), NEW j \in 1..(n + 1), i < j,
              JudgedWindows'[i].client = JudgedWindows'[j].client,
              NEW x \in JudgedWindows'[i].entries,
              NEW y \in JudgedWindows'[j].entries
       PROVE  x < y
  <2>1. i \in 1..n /\ JudgedWindows'[i] = JudgedWindows[i]
    BY <1>5, <1>11
  <2>2. CASE j \in 1..n
    <3>1. JudgedWindows'[j] = JudgedWindows[j]
      BY <1>5, <2>2
    <3>2. QED
      BY <1>8, <1>11, <2>1, <2>2, <3>1
         DEF LogOrdered, RowsInOrder, Log!WindowsInOrder
  <2>3. CASE j = n + 1
    <3>1. JudgedWindows[i].client = c /\ y \in W
      BY <1>5, <1>11, <2>1, <2>3
    <3>2. QED
      BY <1>1, <1>9, <1>11, <2>1, <3>1
  <2>4. QED
    BY <1>6, <2>2, <2>3
<1>12. RowsInOrder'
  BY <1>8, <1>11 DEF RowsInOrder, Log!WindowsInOrder
<1>13. QED
  BY <1>5, <1>10, <1>12 DEF LogOrdered

LEMMA OrderStep ==
  ASSUME LogTyped, LogOrdered, LogTyped', Log!Next \/ UNCHANGED Log!vars
  PROVE  LogOrdered'
<1>1. \A i \in 1..Len(JudgedWindows) : JudgedWindows[i].client \in Clients
  <2>1. \A i \in 1..Len(JudgedWindows) :
          JudgedWindows[i] \in [client : Clients, entries : SUBSET Id]
    BY ElementParts DEF LogTyped
  <2>2. QED
    BY <2>1
<1>2. ASSUME JudgedWindows' = JudgedWindows,
             \A i \in 1..Len(JudgedWindows) :
               \A x \in JudgedWindows[i].entries :
                 /\ x \in 1..delivered'
                 /\ \A y \in HeldOf'[JudgedWindows[i].client] : x < y
      PROVE  LogOrdered'
  <2>1. RowsInOrder'
    BY <1>2 DEF LogOrdered, RowsInOrder, Log!WindowsInOrder
  <2>2. QED
    BY <1>2, <2>1 DEF LogOrdered
<1>3. ASSUME NEW i \in 1..Len(JudgedWindows),
             NEW x \in JudgedWindows[i].entries
      PROVE  /\ x \in 1..delivered
             /\ \A y \in HeldOf[JudgedWindows[i].client] : x < y
  BY <1>3 DEF LogOrdered
<1>4. CASE UNCHANGED Log!vars
  BY <1>2, <1>3, <1>4 DEF Log!vars
<1>5. CASE Log!Take
  <2>1. /\ JudgedWindows' = JudgedWindows /\ delivered \in Nat
        /\ delivered' \in Nat /\ delivered < delivered'
        /\ \A c \in Clients :
             HeldOf'[c] \ HeldOf[c] \subseteq (delivered + 1)..delivered'
    BY <1>5 DEF Log!Take, LogTyped
  <2>2. ASSUME NEW i \in 1..Len(JudgedWindows),
               NEW x \in JudgedWindows[i].entries
        PROVE  /\ x \in 1..delivered'
               /\ \A y \in HeldOf'[JudgedWindows[i].client] : x < y
    <3>1. JudgedWindows[i].client \in Clients /\ x \in 1..delivered
      BY <1>1, <1>3, <2>2
    <3>2. ASSUME NEW y \in HeldOf'[JudgedWindows[i].client]
          PROVE  x < y
      <4>1. CASE y \in HeldOf[JudgedWindows[i].client]
        BY <1>3, <2>2, <4>1
      <4>2. CASE y \notin HeldOf[JudgedWindows[i].client]
        <5>1. y \in (delivered + 1)..delivered'
          BY <2>1, <3>1, <3>2, <4>2
        <5>2. QED
          BY <2>1, <3>1, <5>1
      <4>3. QED
        BY <4>1, <4>2
    <3>3. QED
      BY <2>1, <3>1, <3>2
  <2>3. QED
    BY <1>2, <2>1, <2>2
<1>6. CASE Log!Judge
  <2>1. delivered' = delivered
    BY <1>6 DEF Log!Judge
  <2>2. PICK c \in Clients : \E W \in SUBSET HeldOf[c] :
          Log!Judges(c, W) /\ HeldOf' = [HeldOf EXCEPT ![c] = @ \ W]
    BY <1>6 DEF Log!Judge
  <2>3. PICK W \in SUBSET HeldOf[c] :
          Log!Judges(c, W) /\ HeldOf' = [HeldOf EXCEPT ![c] = @ \ W]
    BY <2>2
  <2>4. \A d \in Clients :
          HeldOf'[d] = IF d = c THEN HeldOf[d] \ W ELSE HeldOf[d]
    BY <2>3 DEF HeldOf
  <2>5. (\A d \in Clients : HeldOf'[d] \subseteq HeldOf[d])
        /\ HeldOf'[c] \cap W = {}
    BY <2>4
  <2>6. QED
    BY <2>3, <2>5, <2>1, OrderJudged
<1>7. CASE Log!Lose
  <2>1. \A d \in Clients : HeldOf'[d] = {}
    BY <1>7 DEF Log!Lose
  <2>2. delivered' = delivered
    BY <1>7 DEF Log!Lose
  <2>3. CASE JudgedWindows' = JudgedWindows
    BY <1>1, <1>2, <1>3, <2>1, <2>2, <2>3
  <2>4. CASE \E c \in Clients : \E W \in SUBSET HeldOf[c] : Log!Judges(c, W)
    <3>1. PICK c \in Clients : \E W \in SUBSET HeldOf[c] : Log!Judges(c, W)
      BY <2>4
    <3>2. PICK W \in SUBSET HeldOf[c] : Log!Judges(c, W)
      BY <3>1
    <3>3. QED
      BY <2>1, <2>2, <3>2, OrderJudged
  <2>5. QED
    BY <1>7, <2>3, <2>4 DEF Log!Lose
<1>8. QED
  BY <1>4, <1>5, <1>6, <1>7 DEF Log!Next

LogInv == IInv /\ WholeWindows /\ LogOrdered

LEMMA LogInit == Init => Log!Init /\ LogInv
<1> SUFFICES ASSUME Init PROVE Log!Init /\ LogInv
  OBVIOUS
<1>1. IInv
  BY InitInv
<1>2. /\ inbox = <<>> /\ batch = <<>> /\ closing = <<>> /\ rows = <<>>
      /\ delivered = 0 /\ \A c \in Clients : acc[c] = NoWindow
  BY DEF Init
<1>3. WholeWindows
  BY <1>2 DEF WholeWindows
<1>4. Parted
  BY <1>1, <1>3, HeldParts DEF IInv
<1>5. \A c \in Clients : HeldOf[c] = {}
  BY <1>2, <1>4 DEF Parted, Holds, InInbox, InBatch, InWindow, InSwept
<1>6. HeldOf = [c \in Clients |-> {}]
  BY <1>4, <1>5 DEF Parted
<1>7. JudgedWindows = <<>>
  BY <1>2 DEF JudgedWindows
<1>8. Log!Init
  BY <1>2, <1>6, <1>7 DEF Log!Init
<1>9. LogOrdered
  BY <1>7 DEF LogOrdered, RowsInOrder, Log!WindowsInOrder
<1>10. QED
  BY <1>1, <1>3, <1>8, <1>9 DEF LogInv

LEMMA LogInvStep ==
  ASSUME LogInv, IInv', [Next]_vars
  PROVE  LogInv' /\ (Log!Next \/ UNCHANGED Log!vars)
<1>1. /\ TypeOK /\ Reading /\ Delivered /\ InOrder /\ RoutedFirst
      /\ SweptOnce /\ WholeWindows /\ LogOrdered /\ TypeOK' /\ Delivered'
  BY DEF LogInv, IInv, Placed, Scored
<1>2. ASSUME Next
      PROVE  WholeWindows' /\ (Log!Next \/ UNCHANGED Log!vars)
  <2>1. WholeWindows'
    BY <1>1, <1>2, WholeWindowsStep
  <2>2. QED
    BY <1>1, <1>2, <2>1, LogStep
<1>3. ASSUME UNCHANGED vars
      PROVE  WholeWindows' /\ (Log!Next \/ UNCHANGED Log!vars)
  <2>1. /\ UNCHANGED <<inbox, batch, acc, closing, stream, rows, delivered>>
    BY <1>3 DEF vars, group, reader, scoring, persisted
  <2>2. WholeWindows'
    BY <1>1, <2>1 DEF WholeWindows, Whole, Routed
  <2>3. UNCHANGED Log!vars
    BY <2>1 DEF Log!vars, HeldOf, InProcess, Positions, JudgedWindows
  <2>4. QED
    BY <2>2, <2>3
<1>4. WholeWindows' /\ (Log!Next \/ UNCHANGED Log!vars)
  BY <1>2, <1>3
<1>5. LogOrdered'
  BY <1>1, <1>4, LogTypes, LogTypesNext, OrderStep
<1>6. QED
  BY <1>4, <1>5 DEF LogInv

(* Reader, batch, windows and sweep implement the log of windows: every     *)
(* step maps to taking entries, judging the window that comes next of a     *)
(* client, or losing with the process all that is held.                     *)
THEOREM KeepsWindowLog == Spec => ImplementsWindowLog
<1>1. Init => Log!Init /\ LogInv
  BY LogInit
<1>2. LogInv /\ IInv' /\ [Next]_vars =>
        LogInv' /\ (Log!Next \/ UNCHANGED Log!vars)
  BY LogInvStep
<1>3. LogInv /\ IInv' /\ [Next]_vars => LogInv' /\ [Log!Next]_(Log!vars)
  BY <1>2
<1>4. QED
  BY <1>1, <1>3, Invariant, PTL DEF Spec, ImplementsWindowLog, Log!Spec

(* The rows of a client are in the order of its events.                     *)
THEOREM RowsFollowEvents == Spec => []RowsInOrder
<1>1. Init => LogInv
  BY LogInit
<1>2. LogInv /\ IInv' /\ [Next]_vars => LogInv'
  BY LogInvStep
<1>3. LogInv => RowsInOrder
  BY DEF LogInv, LogOrdered
<1>4. QED
  BY <1>1, <1>2, <1>3, Invariant, PTL DEF Spec

=============================================================================
