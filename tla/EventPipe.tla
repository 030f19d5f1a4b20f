------------------------------ MODULE EventPipe -----------------------------
(***************************************************************************)
(* The path of an event from a broker callback to the Redis stream:        *)
(* ring_push on the broker's thread (plugin/src/ring.c), the emitter       *)
(* thread that drains the ring (plugin/src/emitter.c), and the plugin's    *)
(* shutdown.  Every access to the ring holds its mutex, so push and pop    *)
(* are atomic; everything else the two threads do interleaves.             *)
(*                                                                         *)
(* Events are numbered in the order the callbacks push them.  Redis is up, *)
(* refusing (loading its data set or out of memory: it accepts connections *)
(* and may answer any command with an error), down (its connections are    *)
(* dead and new ones refused) or hung (answers nothing: hiredis is given a *)
(* connect timeout and no read timeout).                                   *)
(***************************************************************************)
EXTENDS Integers, Sequences

CONSTANTS
  RingSize,        (* TMQ_RING_SIZE                                         *)
  DrainBatch,      (* TMQ_EMITTER_DRAIN_BATCH                               *)
  BackoffStart,    (* TMQ_BACKOFF_START_MS                                  *)
  BackoffCap,      (* TMQ_BACKOFF_CAP_MS                                    *)
  MaxEvents,       (* bound on the events pushed                            *)
  MaxFaults        (* bound on the changes of Redis's state                 *)

ASSUME PipeAssumption ==
  /\ RingSize \in Nat \ {0}
  /\ DrainBatch \in Nat \ {0}
  /\ BackoffStart \in Nat \ {0}
  /\ BackoffCap \in Nat
  /\ BackoffStart <= BackoffCap
  /\ MaxEvents \in Nat
  /\ MaxFaults \in Nat

VARIABLES
  slots, head, tail, count, dropped,   (* tmq_ring_t                        *)
  running,      (* tmq_emitter.running                                      *)
  pc,           (* where the emitter thread is                              *)
  batch,        (* its local array of drained events                        *)
  ctx,          (* its connection: none, live, or stale and not yet noticed *)
  backoff_ms,
  main,         (* broker thread: running, joining the emitter, unloaded    *)
  stream,       (* tmq:events                                               *)
  redis,        (* state of the Redis server                                *)
  pushed,       (* number of calls of ring_push                             *)
  lost,         (* history: drained events freed without a trace            *)
  faults        (* changes of Redis's state so far                          *)

ring == <<slots, head, tail, count, dropped>>
emitter == <<pc, batch, ctx, backoff_ms>>
vars == <<ring, running, emitter, main, stream, redis, pushed, lost, faults>>

RedisState == {"up", "refusing", "down", "hung"}

Empty == 0
Index == 0..(RingSize - 1)
Event == Nat \ {Empty}

TypeOK ==
  /\ slots \in [Index -> Nat]
  /\ head \in Index
  /\ tail \in Index
  /\ count \in 0..RingSize
  /\ dropped \in Nat
  /\ running \in BOOLEAN
  /\ pc \in {"check", "sleep", "drain", "connect", "xadd", "done"}
  /\ batch \in Seq(Event)
  /\ ctx \in {"none", "live", "stale"}
  /\ backoff_ms \in BackoffStart..BackoffCap
  /\ main \in {"running", "joining", "unloaded"}
  /\ stream \in Seq(Event)
  /\ redis \in RedisState
  /\ pushed \in Nat
  /\ lost \in Nat
  /\ faults \in Nat

(* ring_init and emitter_start                                              *)
Init ==
  /\ slots = [i \in Index |-> Empty]
  /\ head = 0
  /\ tail = 0
  /\ count = 0
  /\ dropped = 0
  /\ running = TRUE
  /\ pc = "check"
  /\ batch = <<>>
  /\ ctx = "none"
  /\ backoff_ms = BackoffStart
  /\ main = "running"
  /\ stream = <<>>
  /\ redis \in {"up", "down"}
  /\ pushed = 0
  /\ lost = 0
  /\ faults = 0

-----------------------------------------------------------------------------
(* The slot i places after the tail, and what the ring holds, oldest first. *)
Slot(i) == (tail + i) % RingSize
Contents == [i \in 1..count |-> slots[Slot(i - 1)]]

RingFull == count >= RingSize

(* ring_push on the broker's thread: never waits for the emitter's I/O.     *)
Push ==
  /\ main = "running"
  /\ pushed < MaxEvents
  /\ pushed' = pushed + 1
  /\ IF RingFull
     THEN /\ dropped' = dropped + 1
          /\ UNCHANGED <<slots, head, tail, count>>
     ELSE /\ slots' = [slots EXCEPT ![head] = pushed']
          /\ head' = (head + 1) % RingSize
          /\ count' = count + 1
          /\ UNCHANGED <<tail, dropped>>
  /\ UNCHANGED <<running, emitter, main, stream, redis, lost, faults>>

-----------------------------------------------------------------------------
(* The emitter thread.                                                      *)

(* while (e->running)                                                       *)
Check ==
  /\ pc = "check"
  /\ pc' = IF running THEN "sleep" ELSE "done"
  /\ ctx' = IF running THEN ctx ELSE "none"
  /\ UNCHANGED <<ring, running, batch, backoff_ms, main, stream, redis,
                 pushed, lost, faults>>

(* usleep(batch_ms)                                                         *)
Wake ==
  /\ pc = "sleep"
  /\ pc' = "drain"
  /\ UNCHANGED <<ring, running, batch, ctx, backoff_ms, main, stream, redis,
                 pushed, lost, faults>>

PopSize == IF count < DrainBatch THEN count ELSE DrainBatch

(* A variant of AfterPop that goes on with an empty batch.                  *)
AfterPopAlways == "connect"

AfterPop == IF count = 0 THEN "check" ELSE "connect"

(* ring_pop_batch                                                           *)
Pop ==
  /\ pc = "drain"
  /\ batch' = [i \in 1..PopSize |-> slots[Slot(i - 1)]]
  /\ slots' = [i \in Index |->
       IF \E j \in 0..(PopSize - 1) : i = Slot(j) THEN Empty ELSE slots[i]]
  /\ tail' = Slot(PopSize)
  /\ count' = count - PopSize
  /\ pc' = AfterPop
  /\ UNCHANGED <<head, dropped, running, ctx, backoff_ms, main, stream,
                 redis, pushed, lost, faults>>

(* A variant of Connection that keeps the pointer of a closed connection.   *)
ConnectionClosed == "stale"

Connection == IF ctx = "none" THEN "live" ELSE ctx

(* try_connect, when there is no connection to reuse.                       *)
ConnectOK ==
  /\ pc = "connect"
  /\ ctx # "none" \/ redis \in {"up", "refusing"}
  /\ ctx' = Connection
  /\ backoff_ms' = BackoffStart
  /\ pc' = "xadd"
  /\ UNCHANGED <<ring, running, batch, main, stream, redis, pushed, lost,
                 faults>>

(* Variants of BatchOnFailure and AfterFailure: the batch is kept though it *)
(* was freed, the thread ends.                                              *)
BatchOnFailureKept == batch
AfterFailureExit == "done"

(* free(batch[i]) for the whole batch                                       *)
BatchOnFailure == <<>>

Doubled == IF 2 * backoff_ms > BackoffCap THEN BackoffCap ELSE 2 * backoff_ms

(* break out of the drain loop                                              *)
AfterFailure == "check"

ConnectFails ==
  /\ pc = "connect"
  /\ ctx = "none"
  /\ redis \in {"down", "hung"}
  /\ batch' = BatchOnFailure
  /\ lost' = lost + Len(batch)
  /\ backoff_ms' = Doubled
  /\ pc' = AfterFailure
  /\ UNCHANGED <<ring, running, ctx, main, stream, redis, pushed, faults>>

(* The ways to choose k of n places, in their order; the first k.           *)
Increasing(k, n) ==
  {f \in [1..k -> 1..n] : \A i, j \in 1..k : i < j => f[i] < f[j]}

FirstPlaces(k) == [i \in 1..k |-> i]

(* A variant of Delivered that writes the newest event first.               *)
DeliveredReversed(k, f) == [i \in 1..k |-> batch[f[k - i + 1]]]

(* The events whose commands the server executed, at places f of the batch. *)
Delivered(k, f) == [i \in 1..k |-> batch[f[i]]]

(* The pipelined XADDs and the reading of their replies; the batch is freed *)
(* however that ends.  All are executed:                                    *)
XaddDone ==
  /\ pc = "xadd"
  /\ ctx = "live"
  /\ redis = "up"
  /\ stream' = stream \o Delivered(Len(batch), FirstPlaces(Len(batch)))
  /\ batch' = <<>>
  /\ pc' = "drain"
  /\ UNCHANGED <<ring, running, ctx, backoff_ms, main, redis, pushed, lost,
                 faults>>

(* each reply is read by itself, and those that are errors are ignored;     *)
XaddRefused(k, f) ==
  /\ pc = "xadd"
  /\ ctx = "live"
  /\ redis = "refusing"
  /\ stream' = stream \o Delivered(k, f)
  /\ lost' = lost + (Len(batch) - k)
  /\ batch' = <<>>
  /\ pc' = "drain"
  /\ UNCHANGED <<ring, running, ctx, backoff_ms, main, redis, pushed, faults>>

XaddRefusedStep ==
  \E k \in 0..Len(batch) : \E f \in Increasing(k, Len(batch)) :
    XaddRefused(k, f)

(* the connection turns out to be dead;                                     *)
XaddStale ==
  /\ pc = "xadd"
  /\ ctx = "stale"
  /\ lost' = lost + Len(batch)
  /\ batch' = <<>>
  /\ ctx' = "none"
  /\ pc' = "drain"
  /\ UNCHANGED <<ring, running, backoff_ms, main, stream, redis, pushed,
                 faults>>

(* Redis goes down in their middle, after executing the first k; of the     *)
(* commands answered before that a refusing Redis executed any.             *)
XaddCut(k, f) ==
  /\ pc = "xadd"
  /\ ctx = "live"
  /\ redis \in {"up", "refusing"}
  /\ redis = "up" => f = FirstPlaces(k)
  /\ faults < MaxFaults
  /\ redis' = "down"
  /\ faults' = faults + 1
  /\ stream' = stream \o Delivered(k, f)
  /\ lost' = lost + (Len(batch) - k)
  /\ batch' = <<>>
  /\ ctx' = "none"
  /\ pc' = "drain"
  /\ UNCHANGED <<ring, running, backoff_ms, main, pushed>>

XaddCutStep ==
  \E k \in 0..Len(batch) : \E f \in Increasing(k, Len(batch)) : XaddCut(k, f)

Emitter ==
  \/ Check \/ Wake \/ Pop \/ ConnectOK \/ ConnectFails
  \/ XaddDone \/ XaddRefusedStep \/ XaddStale

-----------------------------------------------------------------------------
(* mosquitto_plugin_cleanup: emitter_stop, then ring_destroy.               *)
Stop ==
  /\ main = "running"
  /\ running' = FALSE
  /\ main' = "joining"
  /\ UNCHANGED <<ring, emitter, stream, redis, pushed, lost, faults>>

(* pthread_join returns; what is left in the ring is freed.                 *)
Join ==
  /\ main = "joining"
  /\ pc = "done"
  /\ main' = "unloaded"
  /\ slots' = [i \in Index |-> Empty]
  /\ tail' = head
  /\ count' = 0
  /\ lost' = lost + count
  /\ UNCHANGED <<head, dropped, running, emitter, stream, redis, pushed,
                 faults>>

(* Redis, at any moment; going down kills the emitter's connection.         *)
RedisChanges ==
  /\ faults < MaxFaults
  /\ redis' \in RedisState \ {redis}
  /\ ctx' = IF redis' = "down" /\ ctx = "live" THEN "stale" ELSE ctx
  /\ faults' = faults + 1
  /\ UNCHANGED <<ring, running, pc, batch, backoff_ms, main, stream, pushed,
                 lost>>

Next == Push \/ Emitter \/ XaddCutStep \/ Stop \/ Join \/ RedisChanges

(* The scheduler runs both threads; callbacks and unloading are up to the   *)
(* broker, and only the join must happen once it can.                       *)
Fairness == WF_vars(Emitter) /\ WF_vars(Join)

Spec == Init /\ [][Next]_vars /\ Fairness

-----------------------------------------------------------------------------
(* Where every event is.                                                    *)
Path == stream \o batch \o Contents

(* The stream, what the emitter holds and the ring together list events in  *)
(* the order they were pushed, each at most once, across wrap-arounds of    *)
(* the ring, batches and reconnections.                                     *)
PathInOrder ==
  /\ \A i, j \in 1..Len(Path) : i < j => Path[i] < Path[j]
  /\ \A i \in 1..Len(Path) : Path[i] \in 1..pushed

(* Every event pushed is on its path, was counted as dropped at a full ring *)
(* or was freed with a batch or at unloading: none vanishes otherwise.      *)
EveryEventAccounted == pushed = Len(Path) + dropped + lost

(* As long as Redis was up all along and the plugin is loaded, the only     *)
(* events lost are those counted as dropped at a full ring.                 *)
OnlyOutagesLose ==
  (redis = "up" /\ faults = 0 /\ main # "unloaded") => lost = 0

(* The stream is a lossy first-in first-out log of the callbacks' events.   *)
Log == INSTANCE LossyFifo
         WITH offered <- pushed, queue <- batch \o Contents, log <- stream

ImplementsLossyFifo == Log!Spec

(* Unless Redis hangs for good, unloading the plugin ends: the broker's     *)
(* thread is not left waiting for the emitter, whatever Redis did before.   *)
StopTerminates ==
  <>[](redis # "hung") => (main = "joining" ~> main = "unloaded")

(* Unless Redis hangs for good, the emitter gets around to every event in   *)
(* the ring while it runs.                                                  *)
RingDrains ==
  <>[](redis # "hung") =>
    \A e \in 1..MaxEvents :
      (\E i \in 1..count : Contents[i] = e)
         ~> ~(\E i \in 1..count : Contents[i] = e)

-----------------------------------------------------------------------------
(* What the documentation says and the code does not do.                    *)

(* SPEC.md 3.3: on a Redis failure events continue to drop with counter.    *)
LossesAreCounted ==
  main = "running" => dropped + Len(Path) = pushed
=============================================================================
