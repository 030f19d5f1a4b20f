# TrustMQTT in TLA+

A model of TrustMQTT (`src/trustmqtt`): a Mosquitto plugin in C that reports what
clients do and enforces verdicts on them, and a scoring worker in Python that
turns the reports into verdicts. The modules are translated from the code; where
a document or comment says something else, a run shows the difference.

    Mosquitto callbacks --> ring --> emitter thread --> Redis stream tmq:events
      ^        |                                              |
      |     ACL answers                                       v
      |        |                                   consumer group tmqw (reader thread)
    verdict cache <-- TICK: refresh                            |
      ^                    ^                                   v
      |                    |                        contract, windows, scores
    decay, kicks     Redis tmq:verdictp  <-- policy <----------+--> Postgres rows, incidents

## Inventory

**Plugin callbacks and TICK** (`plugin/src/plugin.c`). State: mode, the client
registry, the verdict cache, the refresher's Redis connection and backoff, times of
the last refresh and statistics. Operations: connect, disconnect, offline, message,
subscribe, unsubscribe, basic auth, ACL check, and a TICK that scans keep-alives,
decays, kicks, refreshes and reports, in this order. Mosquitto runs callbacks one at
a time; a kick runs the disconnect callback inside TICK. Hard: the order of decay,
kick and refresh over many TICKs; Redis unreachable, or failing in the middle of a
pipeline; a verdict string that is re-read twice a second. Correct when the cache
follows the verdicts fetched, denies only what they justify, contains whom they
contain, and forgets everything in an outage.

**Verdict cache and enforcement** (`verdict_cache.c`, `enforce.c`). State: per client
level, expiry, rate, tokens, times of refill and decay. Operations: upsert, token
consumption, decay pass, kick pass, the decision of an ACL check. Hard: an upsert
overwrites what decay and kicks did; decay renews the expiry it waits for; the
bucket must survive upserts. Correct when a throttled client gets its rate and no
more than burst and rate.

**Client registry and keep-alive scan** (`plugin.c`). State: keep-alive, last activity,
last report, per connected client. Hard: two timers and a period, across
reconnections. Correct when every long silence is reported, once an interval.

**Event ring and emitter** (`ring.c`, `emitter.c`). State: the ring with its drop
counter, the emitter's batch, connection and backoff, the stop flag. Operations:
push (broker thread), pop, connect, XADD pipeline (emitter thread), stop and join.
Hard: interleaving, a pipeline cut in the middle, commands of it that are refused one
by one, unloading at any moment. Correct when the stream is a subsequence of the events in order, every loss
has a cause, and unloading ends.

**Stream reader** (`tmq_worker/ingest.py`). State: the consumer group's position and
pending entries (in Redis), the batch. Operations: XREADGROUP, parse or dead-letter
each entry, one XACK. Hard: a crash between any two; a new consumer name after
every start, so nobody claims what was pending. Correct when no event counts twice
and only a crash loses one.

**Feature windows** (`features.py`). State: one accumulator per client. Operations:
process an event (open, roll), sweep on the wall clock. Hard: event time against
wall clock, the sweep between the steps of the reader. Correct when every event is
in one window and a silent client is scored in time.

**Behavioral contract and fingerprints** (`fsm.py`, `export_fingerprints` in
`__main__.py`). State: per client transition counts, vocabulary, last symbol, learning
progress, the violation scores of the window. Operations: observe an event, close a
window, and an export that reads these dictionaries and the history of the features on
a thread of its own, commits a document and rewrites a file. Hard: the export goes on
while events and closing windows change what it iterates over, and while the event loop
inserts the client's row that the export wants too; the learning period ends inside a
window. Correct when the contract is what the client's events make it, the daily
snapshot is close to a state it had, the document is as complete as its number of
events says, and the export stops the worker only where something is there for the
first time.

**Fleet baseline** (`fleet.py`). State: the clients seen, the z-scores of the present
fleet window and its start. Operation: observe a closed window. Hard: windows
close by an event or by the sweep, so the fleet sees them out of order of their
starts. Correct when an alarm is about windows close to each other, and a
coordinated drift is caught however it is cut.

**Drift models and training** (`drift.py`, `train.py`). State: a file and a row for each
cohort, an announcement in Redis, the registry of loaded models. Operations: train
all cohorts (one process or several, by cron or by hand), look up and hot-reload a
model when a window closes. Hard: files are rewritten in place; a trainer dies
between file, row and announcement; two trainers overlap. Correct when what is
announced is on record, a model in memory is never lost, and a new one is loaded.

**Trust fusion** (`policy.py`). A weighted sum of three scores, renormalised over those
that carry evidence. Correct when a missing model neither accuses nor exonerates.

**Policy engine** (`policy.py`). State: per client level, windows below the bound,
windows at the kick threshold. Operation: evaluate. Hard: sequences of windows.
Correct when de-escalation and KICK are earned, learners are spared, and calm
clients are cleared.

**Scoring loop, database, incidents, verdict writer** (`__main__.py`, `storage.py`,
`incidents.py`, `verdicts.py`). A closed window is scored, its rows are committed, the
verdict is written to Redis, an incident is opened, updated or closed. Any exception
of Redis or Postgres ends the process. Hard: failure between two of these; a restart
that forgets which incidents are open. Correct when a verdict always has its row
and an open incident its cause.

**Replay and evaluation** (`replay.py`). State: the schedule of the events, the
verdicts collected, the metrics. Operations: label intervals from events, publish on
time, wait, collect, compare. Hard: three time axes (dataset, wall clock, windows)
and the last windows, which only the sweep closes. Correct when every event is
judged in the report and the metrics are those of their definitions.

**Others**: reports and redaction (`llm.py`, `redact.py`), configuration, migrations,
traffic simulator, containers, dashboards. See *Not modelled*.

`PROJECT.json` lists the hazards of this code line by line, with the properties
that cover them, and notes for those not covered yet.

## Modules

| Module | Models | State and actions |
|---|---|---|
| `VerdictCache` | `verdict_cache.c`, `enforce.c` | operators on one cache entry: `Upsert`, `Refilled`, `Consumed`, `Decayed`, `Demoted`, `Denies` |
| `ClientRegistry` | registry part of `plugin.c` | operators on one node: `Connected`, `Touched`, `Scanned`, `IsSnapshot` |
| `Plugin` | `plugin.c` | extends both; one action per callback; a TICK is one action, in three forms by what the refresh does (`TickNoRefresh`/`TickNobody`, `TickUnreachable`, `TickRefresh`) |
| `PluginVerdicts` | | `Plugin` with history (verdict last fetched, fetched since last kick, kicked since last write) and the promises about verdicts |
| `PluginTraffic` | | `Plugin` with history (throttle window, times of activity and reports) and the promises about traffic |
| `EventPipe` | `ring.c`, `emitter.c`, unloading | two threads; the emitter's program counter; Redis up, refusing commands, down or hung |
| `LossyFifo` | | abstract specification of the event path, refined by `EventPipe` |
| `Policy` | `PolicyEngine` | `Evaluate`, one window; `Restart`; history of windows since the restart |
| `FeatureWindows` | windows of `features.py` | operators on one accumulator: `Rolls`, `AfterEvent`, `Stale` |
| `Worker` | `ingest.py`, `__main__.py`, `incidents.py`, rows of `storage.py`, buffers of `fsm.py` | extends `FeatureWindows`; reader thread, `ingest_loop`, `sweep_loop`, crash; a failure at each point of the handling of a window |
| `WindowLog` | | abstract specification of what becomes of the events of a client, refined by `Worker` |
| `Contract` | `fsm.py`, `export_fingerprints` | one client; `observe` in the three steps another thread can tell apart (`Hear`, `Decay`, `Learn`); a closed window (`CloseWindow`, then the client's row, one feature after the other, the commit); the export thread row by row and cell by cell, its failures, its row and its file |
| `Fleet` | `fleet.py` over the windows of `features.py` | extends `FeatureWindows`; `OnEvent`, `SweepOne`, `Observe` |
| `Fusion` | `compute_trust_score`, `renormalize_weights` | operators on exact fractions |
| `Models` | `train.py`, `drift.py`, the lookup and scoring of a window | extends `Fusion`; one action per step of a trainer, its death, and the two halves of a window's scoring around the wait for Redis |
| `Replay` | `replay.py` | extends `FeatureWindows`; publishing on time, the worker's windows, waiting, and the report as operators on the samples |
| `PluginProofs`, `PolicyProofs`, `EventPipeProofs`, `WorkerProofs`, `FleetProofs`, `ModelsProofs`, `ContractProofs`, `ReplayProofs` | | theorems and proofs |
| `MC*` | | instances for TLC, with views and symmetry |

`Plugin` meets the worker through Redis only: `WriteVerdict` puts a string there with
the time to live and the truncation of `verdicts.py`. `Policy` and `Worker` split the
worker: `Worker` lets a window have any level, `Policy` says which. `EventPipe` and
`Worker` share the stream: the one ends at it, the other starts from any stream.
`Worker`, `Fleet` and `Replay` all stand on `FeatureWindows`; `Models` and `Contract`
detail what a window's scoring reads and `Worker` leaves open.

Abstractions that hold for all modules: tokens, rates and times are integers, where
the code has floating point numbers (rounding, and rates with a fraction, are left out);
topics are inside or outside `tmq/quarantine`; scores are integers of 0 to 100 in
`Policy`, hundredths in `Fusion`; a z-score is the side of the trigger it lies on; a
model is the number of rows it was fitted to; the weights of a contract are multiples
of a unit that no decay rounds; the lock of the cache is left out, since the broker's thread is the only
one to use it; a definition named after another with a suffix (`DecayNeverDue`) is a
deliberately wrong variant, used by no specification.

## Runs

| Run | Instance | Shows |
|---|---|---|
| `plugin_verdicts` | one client, clock unit 60 s, `Second = 2` so that truncation bites, a verdict lives 2 units; no bound on the time | cache against fetched verdicts, through decay, kicks, reconnections, broken refreshes and outages up to removal |
| `plugin_traffic` | one client, clock unit 1 s, rates 1 and 2, keep-alive 0 and 1, 5 s | bucket bounds from both sides; which silences are reported |
| `policy` | one client, shipped thresholds, one trust score in every band and on every edge that matters | hysteresis, learning cap, kick gate over histories of any length (the view keeps what is read of them) |
| `event_pipe` | ring of 3, batches of 2, 6 events, 3 faults | order, accounting, refinement of `LossyFifo`, unloading ends, the ring drains |
| `worker` | two clients, 3 events, windows of one unit, 4 units, one end of the process | where every event is; rows, verdicts and incidents agree; refinement of `WindowLog`; both modes |
| `models` | one client and its user, two trainers, two trainings, one restart, adaptive fusion with the shipped weights | which model scores a window, what is announced, that a new model is loaded, how a missing one weighs |
| `fleet` | four clients (`MinFleetSize` 4), windows of 2, fleet windows of 2, 6 units, up to 4 windows above the trigger and 1 below | what an alarm is about; that four windows drifting together are caught |
| `contract` | two symbols, learned in three events or two units, four events in a life of the process, documents of two transitions, one feature; no bound on exports and ends of the process; both modes | contract against its events; learning boundary; snapshots, documents, files and failures of the export |
| `replay` | two clients, two attacks, scripts of up to three events over three units, speeds 1 and 2 | the report covers every event; metrics by their definitions |
| `monitor_kicks` | monitor mode | finding: TICK kicks in monitor mode |
| `lone_alarm` | as `fleet` | finding: two windows of one client raise the alarm |
| `dataset_axis` | as `replay`, events from time 7 on | finding: labels and verdicts of a dataset are on different axes |

Why the bounds are enough. Clients do not interact in `Plugin` except through a
common refresh, whose answered part is an arbitrary subset, and the theorems cover
any set of them. In `plugin_verdicts` the view takes states that differ by a shift of the
clock for one, because guards, steps and properties only compare it with timestamps; the
search then ends by itself, long before `MaxTime`, and covers outages of any length, the
thirteen units included after which a KICK entry must be gone. A throttle window is refilled, emptied and refilled again
within five seconds. A ring of three wraps twice with six events. Two clients are
needed for a sweep that closes several windows, with a failure between them; three
events fill a window, roll it and roll it again, and one crash orphans whatever can
be orphaned. Two trainings are what it takes to replace a model and to overlap, and
a cohort does not touch another's file. `CoordinationIsCaught` is about four windows,
the fewest that no cut into three fleet windows can separate: four clients, and in six
units three windows of one of them, close by event or sweep. Four events end a contract's
learning, decay it and extend it during an export; two symbols make more transitions than
a document of two keeps. What is to come depends neither on how many exports nor on how many
ends of the process there were, so the view of `contract` leaves both numbers out and the search
ends without bounds on them: a file may lag behind any number of documents. The evaluation compares a client with its own
labels only; two of them make the ranks of the AUC interleave. The clock, the number
of events, faults, crashes, trainings and spikes are otherwise the only bounds (the constants
`Max...`, each explained where it is declared); every one is a guard. Deadlock is not
checked where these bounds end the run (`worker`, `fleet`, `replay`, the findings) or the
plugin is unloaded (`event_pipe`); `plugin_verdicts`, `plugin_traffic`, `policy`, `models`
and `contract` check it.

The views leave out what no guard and no property of a state reads; the comment
at each view says what, and why.

## Further configurations

Five more configurations each show one disagreement between a document and the
code; they are for reading along, and TLC reports a violation for each.

| Configuration (module) | Property | What the code does |
|---|---|---|
| `RepeatedKick.cfg` (`MCPluginVerdicts`) | `KickOncePerVerdict` | every re-read of one verdict string kicks again (`plugin.c:576`) |
| `StarvedThrottle.cfg` (`MCPluginVerdicts`) | `ThrottledIsServed` | a QUARANTINE entry decays into a THROTTLE of rate 0 (`verdict_cache.c:126`) |
| `SlowDecay.cfg` (`MCPluginVerdicts`) | `DecaysEveryGap` | decay takes more than 60 s a level (`verdict_cache.c:129`) |
| `UncountedLoss.cfg` (`EventPipe`) | `LossesAreCounted` | a drained batch is freed and not counted when Redis fails (`emitter.c:54`) |
| `StrayViolation.cfg` (`MCWorker`) | `JudgedByOwnEvents` | a window is judged by the event that closes it too (`__main__.py:77`) |

`Models` states one more, without a configuration: `ColdOnlyWithoutModel` (SPEC.md,
5.3). A restarted worker looks for a client's model under cohort `default` until the
client's next CONNECT, since only that tells it the username.

## Fairness

`EventPipe`: the scheduler runs the emitter thread (`WF_vars(Emitter)`) and the join
returns once the thread has ended (`WF_vars(Join)`). Nothing is assumed of callbacks,
of unloading, or of Redis; both liveness properties exclude a Redis that hangs for
ever, because the emitter's connection has no read timeout and then neither holds. A
pipeline cut half-way (`XaddCutStep`) is a fault of the environment and has no fairness.

`Models`: a window whose lookup was answered is scored (`WF_vars`), and each client's
windows keep closing (`SF_vars`: a client that sends has its windows rolled, a silent
one has them swept, and other clients' windows come in between). Trainers may stop
at any step, for ever; `HotReload` holds all the same.

The other modules state no fairness: their specifications are safety only.

## Theorems

Checked by TLAPS for all values of the constants that satisfy the named assumptions
(`CacheAssumption`, `RegistryAssumption`, `PluginAssumption`, `PolicyAssumption`,
`PipeAssumption`, `WindowAssumption`, `WorkerAssumption`, `FleetAssumption`,
`ModelsAssumption`, `FusionAssumption`, `ContractAssumption`, `ReplayAssumption`; TLC
evaluates them in every run of the module that declares them). Every invariant and every
action property that a passing run checks is a theorem, and so are the refinements of
`LossyFifo` and `WindowLog`. A module of proofs has an inductive invariant `IInv` (`PluginProofs` a second
one, for traffic), a lemma for each action, and short theorems at its end.

*Plugin.* The inductive invariant `IInv` joins types, `CacheTracksFetched` and
`FingerprintHoldsNothing` with two parts. `Clock`: no string outlives its time to live in
Redis and TICK is on time. `EntriesOwe`: an entry descends from a fetched verdict, is
not above its level, is at KICK only if fetched since the last kick, and its `Reach`
(the latest time it can still be there without another fetch) is within the
deadline of that verdict. `OutageFailsOpen` is not inductive: nothing in it says how
many decay steps remain and when the next is due. `Reach` is the measure that does;
the lemmas show that an idle TICK, a decay step and a demotion never raise it and
that a fetch sets it within the deadline. A step is reduced to one of four effects
on a client's entry (`StepEffect`), so each conjunct has four cases. From the
invariant follow the six properties of `plugin_verdicts`, the two action properties
included: the deadline holds for every length of an outage, every TICK period, decay
gap and renewal with `DecayRenew >= DecayGap`.

*Traffic.* What a bucket still holds and what was admitted from it cannot be bounded at
the present reading, because the bucket is only refilled when it is asked. `Bucket`
bounds their sum at the last refill, says that nothing was admitted before a window's
first refill, and, for `ThrottledNotStarved`, that a bucket refilled at this very reading
has served its client at it. A fetch, a decay step and a demotion leave a bucket as it
is (`TickedBucket`). `Reports` ties the timestamps in the registry to the events that
were pushed; a new connection forgets the last report, which does not matter as long as
no keep-alive is longer than the clock's reading at start.

*Policy.* `evaluate` keeps counters, the properties speak of windows: `BelowInv` says which
windows `consecutive_below` counts, `KickInv` what a nonzero kick counter remembers,
`CalmInv` that a level kept through calm windows has counted them. With
`LearnersAreNotEnforced` they are inductive, and the four properties of `policy` follow
for all ordered thresholds, margins and window counts.

*Event path.* `PathInOrder` and `EveryEventAccounted` speak of `Contents`, a window of
the ring that wraps around. `Shape` ties the head to the tail and the count, and the
batch to the program counter; the lemmas on `%` say that distinct offsets are distinct
slots, so that a push appends to `Contents` and a pop cuts a prefix off it (`Pushed`,
`Popped`). What remains is about sequences: taking a piece out of an ordered path or
appending a later event keeps it ordered. `NoOutage` (no connection is stale while
Redis was up all along) makes `OnlyOutagesLose` inductive. `Implements` is the safety of
the refinement, from the same lemmas: each step is a step of `LossyFifo` or a stutter,
for rings and batches of any size. The emitter reads each reply by itself and passes over
those that are errors, so of a pipeline any commands may be executed: they are an increasing
choice of places in the batch (`Increasing`), and picking events at
such places out of an ordered path leaves it ordered (`Splice`, `CutOut`).

*Worker.* The places of `CountedOnce` are recast as a relation (`InPlace`): an entry is
`Alone` if any two of its places are one, `Somewhere` if it has one. A step moves an
entry from one place to the next; each lemma `Placed...` names, for every place after
the step, the one place before it that the entry came from, which carries `Alone`
forward and, read the other way, `Somewhere`. That the group's entries are new ones
(`Delivered`: windows, rows and scores hold delivered entries only) starts it off.
`ScoredInTime` follows from `Clocks`: an entry was routed since the last sweep, or that
sweep found its window not stale. `AtMostOneStray` needs that a buffer scores only
events of the client's open or swept window (`Buffered`), that what is routed precedes
what is not (`InOrder`, `RoutedFirst`), and that a swept client has no other window
(`SweptOnce`). The verdict and the incident follow the rows by `Opened` and `Passive`;
the worst level since the opening is a maximum over a set that grows by the new row.

`WindowLog` knows how many entries were taken, which of a client are held, and the
windows judged. The mapping takes `delivered` for the first, the rows for the last, and
for what is held the inbox, the batch, the open window and the swept ones (`HeldOf`). A
read takes, a row judges, the end of a process loses; all other steps stutter: parsing
drops entries that no client has, and routing and sweeping move entries within what is
held (`ParseHolds`, `EventHolds`, `SweepHolds`). That a row is a window of the log, the
first entries the client has waiting, needs `WholeWindows` (no window is empty or holds
another client's entry) beside `InOrder`, `RoutedFirst` and `SweptOnce` (`WindowCut`,
`SweptCut`). `RowsInOrder` is then proved of the log alone (`OrderStep`): what is judged
precedes what is held, and what is held precedes what will be taken.

*Fleet.* Windows are observed when they close, out of the order of their starts. `OpenOnTime`
(an open window is not overdue for a sweep) bounds how far out of order (`ObservedOnTime`).
`Latest` ties the scores of the fleet window to the latest observations, so that the set
an alarm counts is one of observations (`SameNumber`, a bijection) and spans no more than
the fleet window and the lateness (`OneSpan`). Later observations do not touch earlier
alarms. `CoordinationIsCaught` needs that fleet windows begin at least their length apart
and that each holds what was observed since it began (`CutInv`): then a span of one fleet
window is cut at most twice, and of four spikes two share a fleet window, where the later
one finds a quorum. The theorem assumes `Late <= FleetWindow`: a window reaches the fleet no later
than a fleet window after its end. In the code that is a grace and a sweep of 5 s each
against 60 s; without it four spikes can fall into four fleet windows.

*Models.* `ColdOnlyWhileTorn` speaks of the moment of scoring; what makes it true is
about files and trainers. `MetaInv`: an announced cohort has a row and a file that is
there, if only torn. `TrainersInv` and `Progress`: a trainer past `save` has left a file
behind, one past `commit` a row. `LookupInv`: the announcement a window read is still
covered by these when it is scored. `HeldInv`: a cohort with a noted training time has
a model. `NotDiluted` is conditional on weights that sum to one: the code does not
check that, and with other weights the static sum is no mean of the scores.

*Contract.* Invariants about the contract: `FollowsHistory` says which rows and cells there
are, from the pairs of successive symbols heard; `WeightsFollow` gives each cell's weight
from the events learned and those that have decayed, which differ by one in the middle of
`observe`. Their induction is about sums over growing index sets: an event scales the
weights of one row and adds an occurrence to one cell. `Judgements` makes
`LearnedIsJudgedOnce` inductive: after a mixed window neither the open window nor any later
one has a learned event. Invariants about the export, which sees the contract change under
its loops: `LoopsExist` (the row and cells a loop is at are there), `SizesKept` (while no new
transition was heard, the sizes the interpreter compares have not changed), `DocumentGrows`
(what was there before the export is in the snapshot, or still to be visited) and
`WeightsInTime` (each weight in the snapshot is `Near` one that the contract had since the
export began). `Near` allows for one decay, because a cell can be read between the decay and
the addition of one event. From these follows `SnapshotIsClose`. `DocumentCounted` bounds the
document from above: as long as the loops go on, its states and transitions are among those
of the events heard, and from `TopEnds` on among those of the number it carries; from below
it has what was there before, or was cut to `TopTransitions`. The document itself carries no
weights, and the model leaves open which transitions are the most probable.
`CommittedFirst` orders row and file.

`RaisesOnlyOnNovelty` is about everything by which the export ends the worker. A loop over
the contract is broken by a transition that is new since the export began (`SizesKept`). The
other causes are two races with the first window of a client: the loop over the history of its
features, and the insert of its row, which one of the threads loses. The export notes when
it begins whether the features were complete and the row was committed (`Noted`), and neither is
ever undone in a life; `FirstWindow` says that a window can only find no row as
long as none before it was recorded.

*Replay.* The first half is about the protocol: a window that is open is not overdue for a
sweep (`OpenOnTime`), what was sent is in an open window or a row (`Placed`), rows lie
between the start and now (`RowsOnTime`), and once the replay has ended no window begins
(`Ended`). At the end of the wait no window can then be open, and every row is collected;
`ReplayAssumption` asks that the margin of the wait covers grace and sweep, as the code's
15 s cover 5 s and 5 s. The second half is about the report and holds for any script and any
samples. *AUC:* twice the averaged rank of a sample is one plus its `Weight` against all
samples, and the mutual weights of a set add up to the square of its size (`WeightsSquare`),
so what `_roc_auc` subtracts is what attacks rank against attacks, and the pairs with benign
samples remain (`AucCountsPairs`). *Intervals:* after each event the scan has the last run of
its client, still open, and the maximal runs before it (`ScanHas`); an event of another label
closes the run and makes it maximal (`IntervalsFound`). Both are inductions over sequences and
sets. No prover here can instantiate a predicate in an induction theorem, so each is done on
a set of counterexamples: one of naturals has a least element and one of finite sets a
minimal one (`LeastNat`, `NatInSet`, `SubsetsInSet`, from the well-foundedness theorems).

Only proved: `TypeCorrect` of each module, `FingerprintIsPassive`, and the orders
`PathInOrder` and `RowsInOrder`, which the runs check as part of the two refinements.
Only model-checked: `StopTerminates` and `RingDrains` of `EventPipe` and `HotReload` of
`Models`. They are liveness properties under fairness, whose
proofs need ENABLED, which the prover does not support.

## Assumptions about what is not in the repository

- Mosquitto runs callbacks one at a time and to completion, fires TICK at least every
  `TickEvery`, and runs the disconnect callback inside a kick.
- An offline session is only checked for `read` access.
- Redis drops a string when its time to live ends, executes a pipeline in order, and
  never delivers an entry twice to the consumer group unless asked to.
- The clock does not step back.
- A commit to Postgres is atomic; a failure shows as an exception.
- Fitting a model is deterministic; a file replaced in place can be read half-written,
  and two writers of one file can leave any mixture.
- The interpreter may switch threads between any two operations on a dictionary.
- In Postgres an insert of a key waits for an uncommitted one of the same key, and fails once
  that is committed (`clients.client_id` is unique, `storage.py:29`).
- In `Replay`, harness, broker and worker keep up: what is due is done before time passes.
- asyncio coroutines run exclusively between two awaits, and a sweep starts within
  `SweepLate` of the previous one.

## Not modelled

- Topic matching (`enforce.c`, `tmq_topic_matches`): planned as a pure algorithm.
- The bound of 4096 tracked clients and of 127 bytes of an identifier.
- The values of features and violation scores, the running statistics of the fleet, and
  what a model computes: floating point. What they decide enters as a score, a side
  of the trigger or a level.
- `novel_transitions` and the difference of two contracts; of a fingerprint the values of the
  feature baseline, the hours, the probabilities and the stability over days.
- `Client.cohort`, which no code sets; relearning of a contract after a restart, beyond
  the fact that it starts anew.
- The text of reports, redaction and prompts; configuration files.
- Generation of synthetic scenarios, the MQTT connections of the replay, report files.
- Simulator, containers, dashboards, CI: they drive or display.

## Plan

Done: `Plugin` with its cache and registry, `Policy`, `EventPipe` over `LossyFifo`, `Worker`
over `WindowLog`, `Fusion` and `Models`, `Fleet`, `Contract`, `Replay`; runs and proofs for each. Next:

1. `TopicMatch`: the matcher against a reference definition over bounded filters.
2. `System`: `Policy` and `Plugin` composed through Redis, for what a client experiences
   from a window to an ACL answer, across a restart of the worker.
3. Findings to settle: windows that overlap after a backlog (`features.py:181` against
   210 and 271), incidents orphaned by a restart (`incidents.py:3`).
