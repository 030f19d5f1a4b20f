------------------------------- MODULE Replay -------------------------------
(***************************************************************************)
(* The evaluation harness (replay.py): labelled traffic is published to    *)
(* the live broker, the worker closes windows and records verdicts, the    *)
(* harness waits for the last of them, collects the verdicts of the run    *)
(* and compares them with the labels.  The worker is reduced to its        *)
(* windows (FeatureWindows) and a verdict for each.  Harness, broker and   *)
(* worker are taken to keep up: what is due is done before time passes.    *)
(***************************************************************************)
EXTENDS FeatureWindows, Sequences, FiniteSets, FiniteSetsExt, SequencesExt

CONSTANTS
  Clients,
  Benign, Attacks,  (* labels                                               *)
  Origins,          (* time of the first event: 0 in a scenario, a date in  *)
                    (* a dataset                                            *)
  Speeds,           (* --speed                                              *)
  Verdicts,         (* pairs of a level and a trust score explored          *)
  WaitMargin,       (* what the harness waits for beyond a window's length  *)
  SweepLate,        (* bound on how long a stale window stays open          *)
  MaxEvents,        (* bound on the replayed events                         *)
  MaxSpan           (* bound on the time they span                          *)

PredictedPositive == 1
Mitigation        == 2
Quarantine        == 3

ASSUME ReplayAssumption ==
  /\ IsFiniteSet(Clients)
  /\ Benign \notin Attacks
  /\ Origins \subseteq Nat
  /\ Speeds \subseteq Nat \ {0}
  /\ Verdicts \subseteq [level : 0..4, trust : 0..100]
  /\ SweepLate \in Nat \ {0}
  /\ WaitMargin \in Nat
  /\ IdleGrace + SweepLate <= WaitMargin
  /\ MaxEvents \in Nat
  /\ MaxSpan \in Nat

VARIABLES
  events,           (* what load_csv_dataset or the scenario yields         *)
  speed,
  now,              (* wall clock                                           *)
  phase,            (* replaying, waiting for the worker, or reported       *)
  sent,             (* wall time at which each event was published, so far  *)
  end_wall,
  acc,              (* worker: open windows                                 *)
  rows,             (* Postgres: verdict_history                            *)
  report

vars == <<events, speed, now, phase, sent, end_wall, acc, rows, report>>

StartWall == 1

Label == Attacks \cup {Benign}
Event == [client : Clients, ts : Nat, label : Label]
Row   == [client : Clients, ts : Nat, level : 0..4, trust : 0..100,
          entries : SUBSET Nat]

Sum(f) == MapThenSumSet(LAMBDA x : f[x], DOMAIN f)

TypeOK ==
  /\ events \in Seq(Event)
  /\ speed \in Nat \ {0}
  /\ now \in Nat
  /\ phase \in {"replay", "wait", "done"}
  /\ sent \in Seq(Nat)
  /\ end_wall \in Nat
  /\ acc \in [Clients -> Accumulator \cup {NoWindow}]
  /\ rows \in Seq(Row)

(* Scripts of one length that begin at the time; they are sorted by time.   *)
Scripts(origin, n) ==
  {s \in [1..n -> [client : Clients, ts : origin..(origin + MaxSpan),
                   label : Label]] :
     /\ s[1].ts = origin
     /\ \A i \in 1..(n - 1) : s[i].ts <= s[i + 1].ts}

Init ==
  /\ \E origin \in Origins, n \in 1..MaxEvents : events \in Scripts(origin, n)
  /\ speed \in Speeds
  /\ now = StartWall
  /\ phase = "replay"
  /\ sent = <<>>
  /\ end_wall = 0
  /\ acc = [c \in Clients |-> NoWindow]
  /\ rows = <<>>
  /\ report = <<>>

-----------------------------------------------------------------------------
(* replay_via_mqtt and the worker.                                          *)

(* When an event is due; the harness sleeps until then.                     *)
TargetWall(i) == StartWall + (events[i].ts - events[1].ts) \div speed

Due == Len(sent) < Len(events) /\ TargetWall(Len(sent) + 1) <= now

(* The row of a window that closes now.                                     *)
Recorded(c, v) ==
  Append(rows, [client |-> c, ts |-> now, level |-> v.level,
                trust |-> v.trust, entries |-> acc[c].entries])

Publish(v) ==
  LET i == Len(sent) + 1
      c == events[i].client
  IN
  /\ phase = "replay"
  /\ Due
  /\ sent' = Append(sent, now)
  /\ acc' = [acc EXCEPT ![c] = AfterEvent(@, i, now)]
  /\ rows' = IF Rolls(acc[c], now) THEN Recorded(c, v) ELSE rows
  /\ UNCHANGED <<events, speed, now, phase, end_wall, report>>

SweepOne(c, v) ==
  /\ Stale(acc[c], now)
  /\ acc' = [acc EXCEPT ![c] = NoWindow]
  /\ rows' = Recorded(c, v)
  /\ UNCHANGED <<events, speed, now, phase, sent, end_wall, report>>

ReplayEnds ==
  /\ phase = "replay"
  /\ Len(sent) = Len(events)
  /\ end_wall' = now
  /\ phase' = "wait"
  /\ UNCHANGED <<events, speed, now, sent, acc, rows, report>>

-----------------------------------------------------------------------------
(* Ground truth: events_to_label_intervals, a scan of each client's events. *)
Opened(e) == [client |-> e.client, start_ts |-> e.ts, end_ts |-> e.ts,
              attack |-> e.label]
ClosedRun(scan) ==
  IF scan.run = <<>> \/ scan.run[1].attack = Benign THEN {} ELSE {scan.run[1]}

(* A variant that ends a run where the next one starts.                     *)
ScannedLate(scan, e) ==
  IF scan.run = <<>> \/ scan.run[1].attack # e.label
  THEN [run |-> <<Opened(e)>>,
        done |-> scan.done \cup
          {[iv EXCEPT !.end_ts = e.ts] : iv \in ClosedRun(scan)}]
  ELSE [scan EXCEPT !.run[1].end_ts = e.ts]

Scanned(scan, e) ==
  IF scan.run = <<>> \/ scan.run[1].attack # e.label
  THEN [run |-> <<Opened(e)>>, done |-> scan.done \cup ClosedRun(scan)]
  ELSE [scan EXCEPT !.run[1].end_ts = e.ts]

(* by_client, scanned: a client's scan has got as far as its last event.    *)
ScannedNext(scans, e) == [scans EXCEPT ![e.client] = Scanned(@, e)]

Scans(evs) ==
  FoldLeft(ScannedNext, [c \in Clients |-> [run |-> <<>>, done |-> {}]], evs)

IntervalsOf(c) ==
  Scans(events)[c].done \cup ClosedRun(Scans(events)[c])

LabelIntervals == UNION {IntervalsOf(c) : c \in Clients}

-----------------------------------------------------------------------------
(* collect_recorded_verdicts, and the metrics.                              *)

(* A variant that waits for the length of a window only.                    *)
WaitWindow == WindowLen

Wait == WindowLen + WaitMargin

(* The rows of the replay, in no order; their time is that since its start. *)
Samples ==
  LET inTime == {i \in DOMAIN rows : /\ StartWall <= rows[i].ts
                                     /\ rows[i].ts <= end_wall + Wait}
  IN [i \in inTime |-> [rows[i] EXCEPT !.ts = @ - StartWall]]

IsLabeledAttack(s) ==
  \E iv \in LabelIntervals :
    iv.client = s.client /\ iv.start_ts <= s.ts /\ s.ts <= iv.end_ts

(* _roc_auc, times 2 * n_pos * n_neg: the ranks are averaged over ties.     *)
TwiceRank(samples, s) ==
  LET less == {i \in DOMAIN samples : samples[i].trust < s.trust}
      upto == {i \in DOMAIN samples : samples[i].trust <= s.trust}
  IN Cardinality(less) + 1 + Cardinality(upto)

TwiceAuc(samples, pos) ==
  Sum([i \in pos |-> TwiceRank(samples, samples[i])])
    - Cardinality(pos) * (Cardinality(pos) + 1)

(* The first sample at or after the attack's start that mitigates it.       *)
TimesToMitigation(samples, iv) ==
  LET hits == {i \in DOMAIN samples : /\ samples[i].client = iv.client
                                      /\ samples[i].ts >= iv.start_ts
                                      /\ samples[i].level >= Mitigation}
  IN IF hits = {} THEN {} ELSE {Min({samples[i].ts : i \in hits}) - iv.start_ts}

Metrics(samples) ==
  LET actual == {i \in DOMAIN samples : IsLabeledAttack(samples[i])}
      predicted == {i \in DOMAIN samples :
                      samples[i].level >= PredictedPositive}
      benign == DOMAIN samples \ actual
  IN [samples   |-> samples,
      intervals |-> LabelIntervals,
      tp |-> Cardinality(predicted \cap actual),
      fp |-> Cardinality(predicted \ actual),
      fn |-> Cardinality(actual \ predicted),
      tn |-> Cardinality(benign \ predicted),
      twice_auc |-> IF actual = {} \/ benign = {} THEN 1
                    ELSE TwiceAuc(samples, actual),
      mitigated |-> Cardinality({iv \in LabelIntervals :
                                   TimesToMitigation(samples, iv) # {}}),
      false_quarantine |->
        Cardinality({i \in benign : samples[i].level >= Quarantine})]

Report ==
  /\ phase = "wait"
  /\ now >= end_wall + Wait
  /\ phase' = "done"
  /\ report' = IF DOMAIN Samples = {} THEN <<>> ELSE <<Metrics(Samples)>>
  /\ UNCHANGED <<events, speed, now, sent, end_wall, acc, rows>>

Advance ==
  /\ phase # "done"
  /\ ~(phase = "replay" /\ Due)
  /\ ~(phase = "replay" /\ Len(sent) = Len(events))
  /\ ~(phase = "wait" /\ now >= end_wall + Wait)
  /\ \A c \in Clients :
       acc[c] # NoWindow =>
         now + 1 < acc[c].window_start + WindowLen + IdleGrace + SweepLate
  /\ now' = now + 1
  /\ UNCHANGED <<events, speed, phase, sent, end_wall, acc, rows, report>>

Next ==
  \/ \E v \in Verdicts : Publish(v) \/ \E c \in Clients : SweepOne(c, v)
  \/ ReplayEnds
  \/ Report
  \/ Advance

Spec == Init /\ [][Next]_vars

-----------------------------------------------------------------------------
(* The report judges the whole replay: every event that was published is in *)
(* a window whose verdict is among the samples, the last ones included,     *)
(* because the harness waits long enough for the sweep to find them.        *)
TailIsCollected ==
  phase = "done" =>
    \A i \in DOMAIN events : \E r \in DOMAIN report : \E s \in
      DOMAIN report[r].samples : i \in report[r].samples[s].entries

(* The metrics by their definitions.  An attack interval is a maximal run   *)
(* of one client's events with one label.                                   *)
EventsOf(c) == {i \in DOMAIN events : events[i].client = c}

IsRun(c, i, j) ==
  \A k \in EventsOf(c) \cap (i..j) : events[k].label = events[i].label

AttackRuns(c) ==
  {r \in EventsOf(c) \X EventsOf(c) :
     /\ r[1] <= r[2]
     /\ events[r[1]].label # Benign
     /\ IsRun(c, r[1], r[2])
     /\ \A k \in EventsOf(c) :
          /\ k < r[1] => ~IsRun(c, k, r[2])
          /\ k > r[2] => ~IsRun(c, r[1], k)}

RunIntervals ==
  {[client |-> events[r[1]].client, start_ts |-> events[r[1]].ts,
    end_ts |-> events[r[2]].ts, attack |-> events[r[1]].label] :
     r \in UNION {AttackRuns(c) : c \in Clients}}

(* AUC: of all pairs of an attack and a benign sample, those ranked rightly,*)
(* ties counting half.                                                      *)
TwicePairs(samples, pos) ==
  Sum([x \in pos \X (DOMAIN samples \ pos) |->
         CASE samples[x[1]].trust > samples[x[2]].trust -> 2
           [] samples[x[1]].trust = samples[x[2]].trust -> 1
           [] OTHER -> 0])

(* The incremental computations give what the definitions say, and the two  *)
(* groups of metrics agree on what is benign.                               *)
MetricsMatchDefinitions ==
  \A r \in DOMAIN report :
    LET R == report[r]
        pos == {i \in DOMAIN R.samples : IsLabeledAttack(R.samples[i])}
    IN /\ R.intervals = RunIntervals
       /\ R.tp + R.fp + R.fn + R.tn = Cardinality(DOMAIN R.samples)
       /\ R.false_quarantine <= R.fp
       /\ pos # {} /\ pos # DOMAIN R.samples =>
            R.twice_auc = TwicePairs(R.samples, pos)

-----------------------------------------------------------------------------
(* What the documentation says and the code does not do.                    *)

(* replay.py: the samples and the label intervals are on the same axis: an  *)
(* event of the script happens at its own time there.                       *)
AxesLineUp == \A i \in DOMAIN sent : sent[i] - StartWall = events[i].ts
=============================================================================
