---------------------------- MODULE PluginProofs ----------------------------
(***************************************************************************)
(* The properties of PluginVerdicts and of PluginTraffic for every set of  *)
(* clients, every period, time to live, rate and keep-alive, any number of *)
(* refreshes and refills, and a clock without bound.                       *)
(***************************************************************************)
EXTENDS PluginVerdicts, PluginTraffic, TLAPS

USE CacheAssumption, RegistryAssumption, PluginAssumption

-----------------------------------------------------------------------------
(* What the functions of verdict_cache.c and enforce.c return.              *)

(* What a fetched verdict makes of an entry or of none.                     *)
LEMMA UpsertEntry ==
  ASSUME NEW e \in Entry \cup {Absent}, NEW v \in Verdict, NEW t \in Nat
  PROVE  /\ Upsert(e, v, t) \in Entry
         /\ Upsert(e, v, t).level = v.level
         /\ Upsert(e, v, t).expires_at = v.expires_at
         /\ Upsert(e, v, t).last_decay_ts =
              IF e = Absent THEN t ELSE e.last_decay_ts
<1>1. 2 * v.rate \in Nat
  BY DEF Verdict
<1>2. CASE e = Absent
  BY <1>1, <1>2 DEF Upsert, Entry, Verdict
<1>3. CASE e \in Entry
  BY <1>3 DEF Upsert, Entry, Verdict
<1>4. QED
  BY <1>2, <1>3

(* What one pass of the decay leaves of an entry.                           *)
LEMMA DecayedEntry ==
  ASSUME NEW e \in Entry, NEW t \in Nat
  PROVE  /\ ~DecayDue(e, t) => Decayed(e, t) = e
         /\ (DecayDue(e, t) /\ e.level <= WATCH) => Decayed(e, t) = Absent
         /\ (DecayDue(e, t) /\ e.level > WATCH) =>
              /\ Decayed(e, t) \in Entry
              /\ Decayed(e, t).level = e.level - 1
              /\ Decayed(e, t).expires_at = t + DecayRenew
              /\ Decayed(e, t).last_decay_ts = t
<1>1. e # Absent
  OBVIOUS
<1>2. ~DecayDue(e, t) => Decayed(e, t) = e
  BY DEF Decayed
<1>3. (DecayDue(e, t) /\ e.level <= WATCH) => Decayed(e, t) = Absent
  BY <1>1 DEF Decayed
<1>4. ASSUME DecayDue(e, t), e.level > WATCH
      PROVE  Decayed(e, t) = [e EXCEPT !.level = @ - 1, !.last_decay_ts = t,
                                       !.expires_at = t + DecayRenew]
  BY <1>1, <1>4 DEF Decayed, Entry, Level, WATCH, ALLOW, KICK
<1>5. ASSUME DecayDue(e, t), e.level > WATCH
      PROVE  /\ Decayed(e, t) \in Entry
             /\ Decayed(e, t).level = e.level - 1
             /\ Decayed(e, t).expires_at = t + DecayRenew
             /\ Decayed(e, t).last_decay_ts = t
  <2>1. e.level - 1 \in Level
    BY <1>5 DEF Entry, Level, WATCH, ALLOW, KICK
  <2>2. t + DecayRenew \in Nat
    OBVIOUS
  <2> DEFINE l == e.level - 1
             x == t + DecayRenew
  <2>3. Decayed(e, t) = [e EXCEPT !.level = l, !.last_decay_ts = t,
                                  !.expires_at = x]
    BY <1>4, <1>5
  <2>4. l \in Level /\ x \in Nat
    BY <2>1, <2>2
  <2> HIDE DEF l, x
  <2>5. /\ Decayed(e, t) \in Entry
        /\ Decayed(e, t).level = l
        /\ Decayed(e, t).expires_at = x
        /\ Decayed(e, t).last_decay_ts = t
    BY <2>3, <2>4 DEF Entry
  <2>6. QED
    BY <2>5 DEF l, x
<1>6. QED
  BY <1>2, <1>3, <1>5

(* A demotion changes the level of a KICK entry and nothing else.           *)
LEMMA DemotedEntry ==
  ASSUME NEW e \in Entry
  PROVE  /\ Demoted(e) \in Entry
         /\ Demoted(e).level = IF e.level = KICK THEN QUARANTINE ELSE e.level
         /\ Demoted(e).expires_at = e.expires_at
         /\ Demoted(e).last_decay_ts = e.last_decay_ts
BY DEF Demoted, MustKick, Entry, Level, ALLOW, QUARANTINE, KICK

(* An ACL check touches only the tokens of an entry.                        *)
LEMMA AfterCheckEntry ==
  ASSUME NEW e \in Entry, NEW access \in Access, NEW t \in Nat
  PROVE  /\ AfterCheck(e, access, t) \in Entry
         /\ AfterCheck(e, access, t).level = e.level
         /\ AfterCheck(e, access, t).expires_at = e.expires_at
         /\ AfterCheck(e, access, t).last_decay_ts = e.last_decay_ts
         /\ e.level # THROTTLE => AfterCheck(e, access, t) = e
<1> DEFINE f == Refilled(e, t)
<1>1. /\ f \in Entry
      /\ f.level = e.level
      /\ f.expires_at = e.expires_at
      /\ f.last_decay_ts = e.last_decay_ts
  <2>1. CASE t > e.tokens_ts
    <3> DEFINE due == e.tokens + (t - e.tokens_ts) * e.rate
               n == IF due > 2 * e.rate THEN 2 * e.rate ELSE due
    <3>1. /\ e.tokens \in Nat /\ e.rate \in Nat /\ e.tokens_ts \in Nat
      BY DEF Entry
    <3>2. t - e.tokens_ts \in Nat
      BY <2>1, <3>1
    <3>3. \A a, b \in Nat : a * b \in Nat
      OBVIOUS
    <3>4. n \in Nat
      <4>1. (t - e.tokens_ts) * e.rate \in Nat
        BY <3>1, <3>2, <3>3
      <4>2. 2 * e.rate \in Nat
        BY <3>1
      <4>3. due \in Nat
        BY <3>1, <4>1
      <4> HIDE DEF due
      <4>4. QED
        BY <4>2, <4>3
    <3>5. f = [e EXCEPT !.tokens = n, !.tokens_ts = t]
      BY <2>1 DEF Refilled
    <3> HIDE DEF n, f
    <3>6. QED
      BY <3>4, <3>5 DEF Entry
  <2>2. CASE ~(t > e.tokens_ts)
    BY <2>2 DEF Refilled
  <2>3. QED
    BY <2>1, <2>2
<1>2. /\ Consumed(e, t) \in Entry
      /\ Consumed(e, t).level = e.level
      /\ Consumed(e, t).expires_at = e.expires_at
      /\ Consumed(e, t).last_decay_ts = e.last_decay_ts
  <2>1. Consumed(e, t) = IF f.tokens >= 1 THEN [f EXCEPT !.tokens = @ - 1]
                                          ELSE f
    BY DEF Consumed, HasToken
  <2> HIDE DEF f
  <2>2. QED
    BY <1>1, <2>1 DEF Entry
<1>3. QED
  BY <1>2 DEF AfterCheck

-----------------------------------------------------------------------------
(* Type correctness, one step per action.                                   *)

(* What a callback does to a node of the registry.                          *)
LEMMA NodeTypes ==
  ASSUME NEW n \in Node \cup {Gone}, NEW t \in Nat, NEW k \in KeepAlives
  PROVE  /\ Connected(k, t) \in Node
         /\ Touched(n, t) \in Node \cup {Gone}
         /\ Scanned(n, t) \in Node \cup {Gone}
<1>1. Connected(k, t) \in Node
  BY DEF Connected, Node
<1>2. CASE n = Gone
  BY <1>1, <1>2 DEF Touched, Scanned, KaGapDue
<1>3. CASE n \in Node
  <2>1. /\ [n EXCEPT !.last_activity_ts = t] \in Node
        /\ [n EXCEPT !.last_ka_gap_emit_ts = t] \in Node
    BY <1>3 DEF Node
  <2>2. QED
    BY <1>1, <1>3, <2>1 DEF Touched, Scanned
<1>4. QED
  BY <1>2, <1>3

(* Decay followed by demotion yields an entry or none.                      *)
LEMMA KickedEntryType ==
  ASSUME NEW e \in Entry \cup {Absent}, NEW t \in Nat
  PROVE  Demoted(Decayed(e, t)) \in Entry \cup {Absent}
<1>1. Decayed(e, t) \in Entry \cup {Absent}
  <2>1. CASE e = Absent
    BY <2>1 DEF Decayed
  <2>2. CASE e \in Entry
    <3>1. e.level \in Level
      BY <2>2 DEF Entry
    <3>2. e.level <= WATCH \/ e.level > WATCH
      BY <3>1 DEF Level, ALLOW, WATCH, KICK
    <3>3. QED
      BY <2>2, <3>2, DecayedEntry
  <2>3. QED
    BY <2>1, <2>2
<1>2. Demoted(Absent) = Absent
  BY DEF Demoted, MustKick
<1>3. QED
  BY <1>1, <1>2, DemotedEntry

(* What every TICK changes keeps its type.                                  *)
LEMMA TickBodyType ==
  ASSUME TypeOK, TickBody
  PROVE  /\ now' \in Nat
         /\ mode' \in AllModes
         /\ registry' \in [Clients -> Node \cup {Gone}]
         /\ CacheAfterKicks \in [Clients -> Entry \cup {Absent}]
         /\ last_stats_emit_ts' \in Nat
         /\ emitted' \subseteq Events
         /\ verdictp' \in [Clients -> Stored \cup {Absent}]
         /\ last_tick' \in Nat
<1>1. RegistryAfterKicks \in [Clients -> Node \cup {Gone}]
  <2>1. \A c \in Clients : registry[c] \in Node \cup {Gone}
    BY DEF TypeOK
  <2>2. now \in Nat
    BY DEF TypeOK
  <2>3. \A c \in Clients : Scanned(registry[c], now) \in Node \cup {Gone}
    <3>1. TAKE c \in Clients
    <3>2. CASE registry[c] = Gone
      BY <3>2 DEF Scanned, KaGapDue
    <3>3. CASE registry[c] \in Node
      <4>1. [registry[c] EXCEPT !.last_ka_gap_emit_ts = now] \in Node
        BY <2>2, <3>3 DEF Node
      <4>2. QED
        BY <3>3, <4>1 DEF Scanned
    <3>4. QED
      BY <2>1, <3>2, <3>3
  <2>4. QED
    BY <2>3 DEF RegistryAfterKicks
<1>2. CacheAfterKicks \in [Clients -> Entry \cup {Absent}]
  BY KickedEntryType DEF CacheAfterKicks, TypeOK
<1>3. TickEvents \subseteq Events
  BY DEF TickEvents, Events, EventNames, Event, KickTargets, Registered
<1>4. QED
  BY <1>1, <1>2, <1>3 DEF TickBody, TypeOK

(* A TICK, with or without a refresh, keeps all types.                      *)
LEMMA TickType ==
  ASSUME TypeOK, DryTick \/ RefreshTick
  PROVE  TypeOK'
<1>1. TickBody
  BY DEF DryTick, TickNoRefresh, TickNobody, TickUnreachable, RefreshTick,
         TickRefresh
<1>2. /\ verdict_redis_ctx' \in BOOLEAN
      /\ verdict_backoff_ms' \in BackoffStart..BackoffCap
      /\ last_verdict_refresh_ts' \in Nat
  <2>1. NextBackoff \in BackoffStart..BackoffCap
    <3>1. verdict_backoff_ms \in BackoffStart..BackoffCap
      BY DEF TypeOK
    <3>2. QED
      BY <3>1 DEF NextBackoff
  <2>2. BackoffStart \in BackoffStart..BackoffCap
    OBVIOUS
  <2>3. CASE DryTick
    BY <2>1, <2>3
       DEF TypeOK, DryTick, TickNoRefresh, TickNobody, TickUnreachable
  <2>4. CASE RefreshTick
    <3>1. PICK ids \in SUBSET Clients, answered \in SUBSET Clients,
               broken \in BOOLEAN : TickRefresh(ids, answered, broken)
      BY <2>4 DEF RefreshTick
    <3>2. QED
      BY <2>2, <3>1 DEF TypeOK, TickRefresh
  <2>5. QED
    BY <2>3, <2>4
<1>3. verdict_cache' \in [Clients -> Entry \cup {Absent}]
  <2>1. CASE DryTick
    BY <1>1, <2>1, TickBodyType
       DEF DryTick, TickNoRefresh, TickNobody, TickUnreachable
  <2>2. CASE RefreshTick
    <3>1. PICK ids \in SUBSET Clients, answered \in SUBSET Clients,
               broken \in BOOLEAN : TickRefresh(ids, answered, broken)
      BY <2>2 DEF RefreshTick
    <3>2. \A c \in Clients : verdictp[c] # Absent =>
            Upsert(CacheAfterKicks[c], verdictp[c].packed, now)
              \in Entry \cup {Absent}
      <4> SUFFICES ASSUME NEW c \in Clients, verdictp[c] # Absent
                   PROVE  Upsert(CacheAfterKicks[c], verdictp[c].packed, now)
                            \in Entry \cup {Absent}
        OBVIOUS
      <4>1. CacheAfterKicks[c] \in Entry \cup {Absent}
        BY <1>1, TickBodyType
      <4>2. verdictp[c].packed \in Verdict /\ now \in Nat
        BY DEF TypeOK, Stored
      <4>3. QED
        BY <4>1, <4>2, UpsertEntry
    <3>3. \A c \in Clients : CacheAfterKicks[c] \in Entry \cup {Absent}
      BY <1>1, TickBodyType
    <3>4. QED
      BY <3>1, <3>2, <3>3 DEF TickRefresh
  <2>3. QED
    BY <2>1, <2>2
<1>4. QED
  BY <1>1, <1>2, <1>3, TickBodyType DEF TypeOK

(* Connections, activity and their events leave the verdicts alone.         *)
LEMMA RegistryStepKeeps ==
  ASSUME RegistryStep
  PROVE  UNCHANGED <<now, mode, verdict_cache, verdict_redis_ctx,
                     verdict_backoff_ms, last_verdict_refresh_ts,
                     last_stats_emit_ts, verdictp, last_tick>>
BY DEF RegistryStep, Connect, Disconnect, ClientOffline, MessageIn,
       Subscribe, Unsubscribe, BasicAuth, Activity, refreshVars

(* The callbacks that only keep the registry keep all types.                *)
LEMMA RegistryStepType ==
  ASSUME TypeOK, RegistryStep
  PROVE  TypeOK'
<1>1. registry' \in [Clients -> Node \cup {Gone}]
  <2>1. \A c \in Clients, k \in KeepAlives :
          Connect(c, k) => registry' \in [Clients -> Node \cup {Gone}]
    BY NodeTypes DEF Connect, TypeOK
  <2>2. \A c \in Clients : Disconnect(c) \/ ClientOffline(c) =>
          registry' \in [Clients -> Node \cup {Gone}]
    BY DEF Disconnect, ClientOffline, TypeOK
  <2>3. \A c \in Clients, name \in EventNames : Activity(c, name) =>
          registry' \in [Clients -> Node \cup {Gone}]
    <3> SUFFICES ASSUME NEW c \in Clients, NEW name \in EventNames,
                        Activity(c, name)
                 PROVE  registry' \in [Clients -> Node \cup {Gone}]
      OBVIOUS
    <3>1. registry[c] \in Node /\ now \in Nat
      BY DEF Activity, TypeOK
    <3>2. Touched(registry[c], now) \in Node
      BY <3>1 DEF Touched, Node
    <3>3. registry' = [registry EXCEPT ![c] = Touched(registry[c], now)]
      BY DEF Activity
    <3>4. QED
      BY <3>2, <3>3 DEF TypeOK
  <2>4. \A c \in Clients : BasicAuth(c) => registry' = registry
    BY DEF BasicAuth
  <2>5. QED
    BY <2>1, <2>2, <2>3, <2>4
       DEF RegistryStep, MessageIn, Subscribe, Unsubscribe, EventNames, TypeOK
<1>2. emitted' \subseteq Events
  BY DEF RegistryStep, Connect, Disconnect, ClientOffline, MessageIn,
         Subscribe, Unsubscribe, BasicAuth, Activity, Event, Events,
         EventNames
<1>3. QED
  BY <1>1, <1>2, RegistryStepKeeps DEF TypeOK

(* An ACL check keeps all types.                                            *)
LEMMA AclStepType ==
  ASSUME TypeOK, AclStep
  PROVE  TypeOK'
<1>1. PICK c \in Clients, access \in Access, topic \in Topic :
        AclCheck(c, access, topic)
  BY DEF AclStep
<1>2. AfterCheck(verdict_cache[c], access, now) \in Entry \cup {Absent}
  <2>1. CASE verdict_cache[c] = Absent
    BY <2>1 DEF AfterCheck
  <2>2. CASE verdict_cache[c] \in Entry
    BY <2>2, AfterCheckEntry DEF TypeOK
  <2>3. QED
    BY <2>1, <2>2 DEF TypeOK
<1>3. verdict_cache' \in [Clients -> Entry \cup {Absent}]
  BY <1>1, <1>2 DEF AclCheck, TypeOK
<1>4. QED
  BY <1>1, <1>3 DEF AclCheck, TypeOK, refreshVars

(* int(expires_at) is at most a second less one unit early.                 *)
LEMMA TruncatedBound ==
  ASSUME NEW t \in Nat
  PROVE  /\ Truncated(t) \in Nat
         /\ Truncated(t) <= t
         /\ t <= Truncated(t) + Second - 1
<1>1. t % Second \in 0..(Second - 1)
  OBVIOUS
<1>2. t % Second <= t
  <2>1. CASE t < Second
    <3>1. t % Second = t
      BY <2>1
    <3>2. QED
      BY <3>1
  <2>2. CASE t >= Second
    BY <1>1, <2>2
  <2>3. QED
    BY <2>1, <2>2
<1>3. QED
  BY <1>1, <1>2 DEF Truncated

(* The worker writes strings of their type.                                 *)
LEMMA WriteVerdictType ==
  ASSUME TypeOK, NEW c \in Clients, NEW level \in Writes,
         NEW rate \in Rates \cup {0}, WriteVerdict(c, level, rate)
  PROVE  TypeOK'
<1>1. [packed |-> [level |-> level, rate |-> rate,
                   expires_at |-> Truncated(now + VerdictTTL)],
       until  |-> now + VerdictTTL] \in Stored
  <2>1. level \in Level /\ rate \in Nat
    OBVIOUS
  <2>2. now + VerdictTTL \in Nat
    BY DEF TypeOK
  <2>3. Truncated(now + VerdictTTL) \in Nat
    BY <2>2, TruncatedBound
  <2>4. QED
    BY <2>1, <2>2, <2>3 DEF Verdict, Stored
<1>2. verdictp' \in [Clients -> Stored \cup {Absent}]
  BY <1>1 DEF WriteVerdict, TypeOK
<1>3. QED
  BY <1>2 DEF WriteVerdict, TypeOK

(* Time passing keeps all types.                                            *)
LEMMA AdvanceType ==
  ASSUME TypeOK, Advance
  PROVE  TypeOK'
BY DEF Advance, TypeOK

(* The plugin is loaded with every variable of its type.                    *)
LEMMA InitType ==
  ASSUME Init
  PROVE  TypeOK
<1>1. BackoffStart \in BackoffStart..BackoffCap
  OBVIOUS
<1>2. QED
  BY <1>1 DEF Init, TypeOK

(* And every step keeps them so.                                            *)
LEMMA StepType ==
  ASSUME TypeOK, Next
  PROVE  TypeOK'
BY AdvanceType, WriteVerdictType, RegistryStepType, AclStepType, TickType
   DEF Next, WorkerStep

-----------------------------------------------------------------------------
(* PluginVerdicts.  The inductive invariant adds to each entry of the       *)
(* verdict cache what it owes to the verdict fetched last, and how long it  *)
(* can still stay.                                                          *)

-----------------------------------------------------------------------------
(* The four things a step can do to the entry of a client: nothing, an     *)
(* access check, a TICK that fetches nothing for it, one that fetches its   *)
(* verdict.                                                                 *)
Quiet(c) ==
  /\ verdict_cache'[c] = verdict_cache[c]
  /\ fetched'[c] = fetched[c]
  /\ c \in refetched' <=> c \in refetched
  /\ last_tick' = last_tick
  /\ now' \in {now, now + 1}
  /\ ~Kicks(c)

Checked(c) ==
  /\ \E access \in Access :
       verdict_cache'[c] = AfterCheck(verdict_cache[c], access, now)
  /\ fetched'[c] = fetched[c]
  /\ c \in refetched' <=> c \in refetched
  /\ last_tick' = last_tick
  /\ now' = now
  /\ ~Kicks(c)

Ticked(c) ==
  /\ verdict_cache'[c] = Demoted(Decayed(verdict_cache[c], now))
  /\ fetched'[c] = fetched[c]
  /\ c \in refetched' <=> (c \in refetched /\ c \notin KickTargets)
  /\ last_tick' = now
  /\ now' = now
  /\ Kicks(c) <=> c \in KickTargets

Fetched(c) ==
  /\ mode # "fingerprint"
  /\ verdictp[c] # Absent
  /\ verdict_cache'[c] =
       Upsert(Demoted(Decayed(verdict_cache[c], now)), verdictp[c].packed, now)
  /\ fetched'[c] = verdictp[c].packed
  /\ c \in refetched'
  /\ last_tick' = now
  /\ now' = now
  /\ Kicks(c) <=> c \in KickTargets

(* Events of other names are no kicks, and a TICK pushes an enforcement     *)
(* event for the clients it kicks only.                                     *)
LEMMA TickKicks ==
  ASSUME NEW c \in Clients, TickBody
  PROVE  Kicks(c) <=> c \in KickTargets
BY DEF Kicks, TickBody, TickEvents, Event

(* A TICK without an answer from Redis decays and demotes each entry.       *)
LEMMA DryTickEffect ==
  ASSUME VDryTick, NEW c \in Clients
  PROVE  Ticked(c)
<1>1. /\ TickBody
      /\ verdict_cache' = CacheAfterKicks
      /\ refetched' = refetched \ KickTargets
      /\ fetched' = fetched
  BY DEF VDryTick, DryTick, TickNoRefresh, TickNobody, TickUnreachable,
         KickHistory
<1>2. last_tick' = now /\ now' = now
  BY <1>1 DEF TickBody
<1>3. QED
  BY <1>1, <1>2, TickKicks DEF Ticked, CacheAfterKicks

(* A TICK that reads Redis also puts the verdicts it got in the cache.      *)
LEMMA RefreshTickEffect ==
  ASSUME NEW ids \in SUBSET Clients, NEW answered \in SUBSET Clients,
         NEW broken \in BOOLEAN, VRefreshTick(ids, answered, broken),
         NEW c \in Clients
  PROVE  Ticked(c) \/ Fetched(c)
<1> DEFINE got == {d \in answered : verdictp[d] # Absent}
<1>1. /\ TickBody
      /\ mode # "fingerprint"
      /\ verdict_cache' = [d \in Clients |->
           IF d \in answered /\ verdictp[d] # Absent
           THEN Upsert(CacheAfterKicks[d], verdictp[d].packed, now)
           ELSE CacheAfterKicks[d]]
      /\ fetched' = [d \in Clients |->
           IF d \in got THEN verdictp[d].packed ELSE fetched[d]]
      /\ refetched' = (refetched \ KickTargets) \cup got
  BY DEF VRefreshTick, TickRefresh, RefreshDue, KickHistory
<1>2. last_tick' = now /\ now' = now /\ (Kicks(c) <=> c \in KickTargets)
  BY <1>1, TickKicks DEF TickBody
<1>3. CacheAfterKicks[c] = Demoted(Decayed(verdict_cache[c], now))
  BY DEF CacheAfterKicks
<1>4. CASE c \in got
  BY <1>1, <1>2, <1>3, <1>4 DEF Fetched
<1>5. CASE c \notin got
  BY <1>1, <1>2, <1>3, <1>5 DEF Ticked
<1>6. QED
  BY <1>4, <1>5

(* Connections, activity and their events leave the verdicts alone.         *)
LEMMA RegistryStepEffect ==
  ASSUME RegistryStep
  PROVE  /\ UNCHANGED <<now, mode, verdict_cache, verdict_redis_ctx,
                        verdict_backoff_ms, last_verdict_refresh_ts,
                        last_stats_emit_ts, verdictp, last_tick>>
         /\ \A c \in Clients : ~Kicks(c)
<1>1. \A d \in Clients, k \in KeepAlives :
        Connect(d, k) => \A c \in Clients : ~Kicks(c)
  BY DEF Connect, Kicks, Event
<1>2. \A d \in Clients :
        Disconnect(d) \/ ClientOffline(d) => \A c \in Clients : ~Kicks(c)
  BY DEF Disconnect, ClientOffline, Kicks, Event
<1>3. \A d \in Talkers :
        MessageIn(d) \/ Subscribe(d) \/ Unsubscribe(d) \/ BasicAuth(d)
          => \A c \in Clients : ~Kicks(c)
  BY DEF MessageIn, Subscribe, Unsubscribe, BasicAuth, Activity, Kicks, Event
<1>4. \A c \in Clients : ~Kicks(c)
  BY <1>1, <1>2, <1>3 DEF RegistryStep
<1>5. QED
  BY <1>4, RegistryStepKeeps

(* Every step does one of four things to a client's entry.                  *)
LEMMA StepEffect ==
  ASSUME VTypeOK, VNext, NEW c \in Clients
  PROVE  Quiet(c) \/ Checked(c) \/ Ticked(c) \/ Fetched(c)
<1>1. CASE \E ids, answered \in SUBSET Clients, broken \in BOOLEAN :
             VRefreshTick(ids, answered, broken)
  BY <1>1, RefreshTickEffect
<1>2. CASE VDryTick
  BY <1>2, DryTickEffect
<1>0. now \in Nat
  BY DEF VTypeOK, TypeOK
<1>3. CASE \E d \in Clients, level \in Writes, rate \in Rates \cup {0} :
             VWriteVerdict(d, level, rate)
  BY <1>0, <1>3 DEF VWriteVerdict, WriteVerdict, Quiet, Kicks
<1>4. CASE Advance /\ UNCHANGED history
  BY <1>0, <1>4 DEF Advance, history, Quiet, Kicks
<1>5. CASE RegistryStep /\ UNCHANGED history
  BY <1>0, <1>5, RegistryStepEffect DEF history, Quiet
<1>6. CASE AclStep /\ UNCHANGED history
  <2>1. PICK d \in Clients, access \in Access, topic \in Topic :
          AclCheck(d, access, topic)
    BY <1>6 DEF AclStep
  <2>2. fetched'[c] = fetched[c] /\ (c \in refetched' <=> c \in refetched)
    BY <1>6 DEF history
  <2>3. last_tick' = last_tick /\ now' = now /\ ~Kicks(c)
    BY <2>1 DEF AclCheck, Kicks
  <2>4. CASE verdict_cache'[c] = verdict_cache[c]
    BY <1>0, <2>2, <2>3, <2>4 DEF Quiet
  <2>5. CASE verdict_cache'[c] # verdict_cache[c]
    <3>1. verdict_cache'[c] = AfterCheck(verdict_cache[c], access, now)
      BY <2>1, <2>5 DEF AclCheck, VTypeOK, TypeOK
    <3>2. QED
      BY <2>2, <2>3, <3>1 DEF Checked
  <2>6. QED
    BY <2>4, <2>5
<1>7. QED
  BY <1>1, <1>2, <1>3, <1>4, <1>5, <1>6 DEF VNext

-----------------------------------------------------------------------------
(* Every step keeps all types, those of the history included.               *)
LEMMA VStepType ==
  ASSUME VTypeOK, VNext
  PROVE  VTypeOK'
<1>1. TypeOK
  BY DEF VTypeOK
<1>2. CASE \E ids, answered \in SUBSET Clients, broken \in BOOLEAN :
             VRefreshTick(ids, answered, broken)
  <2>1. PICK ids \in SUBSET Clients, answered \in SUBSET Clients,
             broken \in BOOLEAN : VRefreshTick(ids, answered, broken)
    BY <1>2
  <2>2. RefreshTick
    BY <2>1 DEF VRefreshTick, RefreshTick
  <2>3. TypeOK'
    BY <1>1, <2>2, TickType
  <2>4. fetched' \in [Clients -> Verdict \cup {Absent}]
    <3>1. \A c \in Clients : verdictp[c] # Absent => verdictp[c].packed \in Verdict
      BY <1>1 DEF TypeOK, Stored
    <3>2. QED
      BY <2>1, <3>1 DEF VRefreshTick, VTypeOK
  <2>5. refetched' \subseteq Clients /\ kicked' \subseteq Clients
    BY <2>1 DEF VRefreshTick, VTypeOK, KickHistory, KickTargets
  <2>6. QED
    BY <2>3, <2>4, <2>5 DEF VTypeOK
<1>3. CASE VDryTick
  <2>1. TypeOK'
    BY <1>1, <1>3, TickType DEF VDryTick
  <2>2. QED
    BY <1>3, <2>1 DEF VDryTick, VTypeOK, KickHistory, KickTargets
<1>4. CASE \E c \in Clients, level \in Writes, rate \in Rates \cup {0} :
             VWriteVerdict(c, level, rate)
  BY <1>1, <1>4, WriteVerdictType DEF VWriteVerdict, VTypeOK
<1>5. CASE (Advance \/ RegistryStep \/ AclStep) /\ UNCHANGED history
  BY <1>1, <1>5, AdvanceType, RegistryStepType, AclStepType
     DEF VTypeOK, history
<1>6. QED
  BY <1>2, <1>3, <1>4, <1>5 DEF VNext

-----------------------------------------------------------------------------
(* The inductive invariant.                                                 *)

(* Redis holds no string past its time to live, and the broker ticks.       *)
Clock ==
  /\ last_tick <= now
  /\ now - last_tick <= TickEvery
  /\ \A c \in Clients : verdictp[c] # Absent =>
       /\ now <= verdictp[c].until
       /\ verdictp[c].until <= verdictp[c].packed.expires_at + Second - 1

(* The first reading of the clock at which an entry is due for decay.       *)
DueAt(e) ==
  IF e.expires_at + 1 >= e.last_decay_ts + DecayGap
  THEN e.expires_at + 1 ELSE e.last_decay_ts + DecayGap

(* The latest time an entry can still be in the cache without a fetch, when *)
(* the last TICK was at t.  An entry fetched late may have been due at t.   *)
Reach(e, t) ==
  (IF t >= DueAt(e) THEN t ELSE DueAt(e) - 1) + TickEvery
    + (StepsOut(e.level) - 1) * (DecayRenew + TickEvery)

(* What an entry owes to the verdict fetched last.                          *)
Owes(c, e, v) ==
  /\ v # Absent
  /\ e.level <= v.level
  /\ e.level = KICK => c \in refetched
  /\ e.last_decay_ts <= now
  /\ Reach(e, last_tick) <= OutageDeadline(v)

EntriesOwe ==
  \A c \in Clients :
    verdict_cache[c] # Absent => Owes(c, verdict_cache[c], fetched[c])

IInv ==
  /\ VTypeOK
  /\ Clock
  /\ EntriesOwe
  /\ CacheTracksFetched
  /\ FingerprintHoldsNothing

(* The invariant holds when the plugin is loaded.                           *)
LEMMA InitIInv == VInit => IInv
<1> SUFFICES ASSUME VInit PROVE IInv
  OBVIOUS
<1>1. VTypeOK
  <2>1. StartTime \in Nat /\ 0 \in Nat
    OBVIOUS
  <2>2. BackoffStart \in BackoffStart..BackoffCap
    OBVIOUS
  <2>3. QED
    BY <2>1, <2>2 DEF VInit, Init, VTypeOK, TypeOK
<1>2. Clock
  BY DEF VInit, Init, Clock
<1>3. EntriesOwe /\ CacheTracksFetched /\ FingerprintHoldsNothing
  BY DEF VInit, Init, EntriesOwe, CacheTracksFetched, Fresh,
         FingerprintHoldsNothing
<1>4. QED
  BY <1>1, <1>2, <1>3 DEF IInv

(* Every step keeps Redis within its times to live, and the TICK on time.   *)
LEMMA ClockStep ==
  ASSUME VTypeOK, Clock, VNext
  PROVE  Clock'
<1>1. /\ now \in Nat
      /\ last_tick \in Nat
      /\ verdictp \in [Clients -> Stored \cup {Absent}]
  BY DEF VTypeOK, TypeOK
<1>2. CASE Advance
  <2>1. now' = now + 1 /\ last_tick' = last_tick /\ now - last_tick < TickEvery
    BY <1>2 DEF Advance
  <2>2. \A c \in Clients : verdictp'[c] # Absent =>
          /\ verdictp'[c] = verdictp[c]
          /\ now' <= verdictp'[c].until
    <3>1. TAKE c \in Clients
    <3>2. HAVE verdictp'[c] # Absent
    <3>3. /\ verdictp'[c] = verdictp[c]
          /\ ~(now' > verdictp[c].until)
      BY <1>2, <3>2 DEF Advance
    <3>4. verdictp[c].until \in Nat
      BY <1>1, <3>2, <3>3 DEF Stored
    <3>5. QED
      BY <1>1, <2>1, <3>3, <3>4
  <2>3. QED
    BY <1>1, <2>1, <2>2 DEF Clock
<1>3. ASSUME NEW d \in Clients, NEW level \in Writes, NEW rate \in Rates \cup {0},
             WriteVerdict(d, level, rate)
      PROVE  Clock'
  <2>1. now' = now /\ last_tick' = last_tick
    BY <1>3 DEF WriteVerdict
  <2> DEFINE t == now + VerdictTTL
  <2>2. \A c \in Clients :
          \/ verdictp'[c] = verdictp[c]
          \/ /\ verdictp'[c].until = t
             /\ verdictp'[c].packed.expires_at = Truncated(t)
    BY <1>1, <1>3 DEF WriteVerdict
  <2>3. t \in Nat /\ now <= t
    BY <1>1
  <2> HIDE DEF t
  <2>4. t <= Truncated(t) + Second - 1
    BY <2>3, TruncatedBound
  <2>5. QED
    BY <1>1, <2>1, <2>2, <2>3, <2>4 DEF Clock
<1>4. CASE TickBody
  BY <1>1, <1>4 DEF TickBody, Clock
<1>5. CASE RegistryStep
  BY <1>5, RegistryStepEffect DEF Clock
<1>6. CASE AclStep
  BY <1>6 DEF AclStep, AclCheck, Clock
<1>7. (VDryTick \/ \E ids, answered \in SUBSET Clients, broken \in BOOLEAN :
                     VRefreshTick(ids, answered, broken)) => TickBody
  BY DEF VDryTick, DryTick, TickNoRefresh, TickNobody, TickUnreachable,
         VRefreshTick, TickRefresh
<1>8. QED
  BY <1>2, <1>3, <1>4, <1>5, <1>6, <1>7 DEF VNext, VWriteVerdict

(* No decay step lets an entry reach further than it did, and a fetched     *)
(* entry reaches no further than its verdict allows.                        *)
LEMMA ReachBound ==
  ASSUME NEW e \in Entry, NEW t \in Nat
  PROVE  /\ Reach(e, t) \in Int
         /\ DueAt(e) \in Nat
         /\ t + TickEvery <= Reach(e, t)
         /\ \A u \in Nat : DecayDue(e, u) <=> u >= DueAt(e)
<1>1. /\ e.level \in Level
      /\ e.expires_at \in Nat
      /\ e.last_decay_ts \in Nat
  BY DEF Entry
<1>2. /\ DueAt(e) \in Nat
      /\ \A u \in Nat : DecayDue(e, u) <=> u >= DueAt(e)
  BY <1>1 DEF DueAt, DecayDue
<1>3. \E n \in Nat : n = (StepsOut(e.level) - 1) * (DecayRenew + TickEvery)
  <2>1. StepsOut(e.level) - 1 \in Nat
    BY <1>1 DEF StepsOut, Level, ALLOW, KICK
  <2>2. DecayRenew + TickEvery \in Nat
    OBVIOUS
  <2>3. \A a, b \in Nat : a * b \in Nat
    OBVIOUS
  <2>4. QED
    BY <2>1, <2>2, <2>3
<1>4. QED
  BY <1>2, <1>3 DEF Reach

(* An entry that is not due has not come closer to its latest removal.      *)
LEMMA ReachIdle ==
  ASSUME NEW e \in Entry, NEW t \in Nat, NEW u \in Nat, ~DecayDue(e, u)
  PROVE  Reach(e, u) <= Reach(e, t)
<1> DEFINE n == (StepsOut(e.level) - 1) * (DecayRenew + TickEvery)
<1>1. DueAt(e) \in Nat /\ u < DueAt(e)
  BY ReachBound
<1>2. Reach(e, u) \in Int /\ Reach(e, t) \in Int
  BY ReachBound
<1>3. Reach(e, u) = DueAt(e) - 1 + TickEvery + n
  BY <1>1 DEF Reach
<1>4. \/ Reach(e, t) = DueAt(e) - 1 + TickEvery + n
      \/ t >= DueAt(e) /\ Reach(e, t) = t + TickEvery + n
  BY DEF Reach
<1>5. n \in Int
  <2>1. e.level \in Level
    BY DEF Entry
  <2>2. StepsOut(e.level) - 1 \in Int /\ DecayRenew + TickEvery \in Int
    BY <2>1 DEF StepsOut, Level, ALLOW, KICK
  <2>3. \A a, b \in Int : a * b \in Int
    OBVIOUS
  <2>4. QED
    BY <2>2, <2>3
<1> HIDE DEF n
<1>6. QED
  BY <1>1, <1>3, <1>4, <1>5

(* A decay step never moves the latest removal of an entry back.            *)
LEMMA ReachDecreases ==
  ASSUME NEW e \in Entry, NEW f \in Entry, NEW t \in Nat, NEW u \in Nat,
         f.level = e.level - 1, f.level >= WATCH,
         f.expires_at = u + DecayRenew, f.last_decay_ts = u,
         u <= t + TickEvery
  PROVE  Reach(f, u) <= Reach(e, t)
<1> DEFINE k == DecayRenew + TickEvery
           n == StepsOut(f.level) - 1
           b == IF t >= DueAt(e) THEN t ELSE DueAt(e) - 1
<1>1. k \in Nat
  OBVIOUS
<1>2. e.level \in Level /\ f.level \in Level
  BY DEF Entry
<1>3. n \in Nat /\ StepsOut(e.level) - 1 = n + 1
  BY <1>2 DEF StepsOut, Level, ALLOW, WATCH, KICK
<1>4. DueAt(f) = u + DecayRenew + 1
  BY DEF DueAt
<1>5. b \in Int /\ t <= b
  <2>1. DueAt(e) \in Nat
    BY ReachBound
  <2>2. QED
    BY <2>1
<1>6. Reach(e, t) = b + TickEvery + (n + 1) * k
  BY <1>3 DEF Reach
<1>7. Reach(f, u) = u + DecayRenew + TickEvery + n * k
  BY <1>3, <1>4 DEF Reach
<1> HIDE DEF b, n
<1>8. u + k <= b + TickEvery + k
  BY <1>1, <1>5
<1>9. Reach(f, u) = u + k + n * k
  <2>1. n * k \in Nat
    BY <1>1, <1>3
  <2>2. QED
    BY <1>7, <2>1
<1> HIDE DEF k
<1>10. n * k \in Nat /\ (n + 1) * k = n * k + k
  BY <1>1, <1>3
<1>11. QED
  BY <1>1, <1>5, <1>6, <1>8, <1>9, <1>10

(* Nor does the demotion of a kicked entry.                                 *)
LEMMA ReachOfDemoted ==
  ASSUME NEW e \in Entry, NEW t \in Nat
  PROVE  Reach(Demoted(e), t) <= Reach(e, t)
<1> DEFINE f == Demoted(e)
           k == DecayRenew + TickEvery
           b == (IF t >= DueAt(e) THEN t ELSE DueAt(e) - 1) + TickEvery
<1>1. /\ f \in Entry
      /\ f.level = IF e.level = KICK THEN QUARANTINE ELSE e.level
      /\ DueAt(f) = DueAt(e)
  BY DemotedEntry DEF DueAt
<1>2. b \in Int /\ k \in Nat
  <2>1. DueAt(e) \in Nat
    BY ReachBound
  <2>2. QED
    BY <2>1
<1>3. CASE e.level = KICK
  <2>1. StepsOut(f.level) - 1 = 2 /\ StepsOut(e.level) - 1 = 3
    BY <1>1, <1>3 DEF StepsOut, KICK, QUARANTINE, ALLOW
  <2> HIDE DEF f
  <2>2. Reach(f, t) = b + 2 * k /\ Reach(e, t) = b + 3 * k
    BY <1>1, <2>1 DEF Reach
  <2> HIDE DEF k, b
  <2>3. Reach(f, t) <= Reach(e, t)
    BY <1>2, <2>2
  <2>4. QED
    BY <2>3 DEF f
<1>4. CASE e.level # KICK
  BY <1>4, ReachBound DEF Demoted, MustKick
<1>5. QED
  BY <1>3, <1>4

(* An entry just fetched is gone by the deadline of its verdict.            *)
LEMMA ReachOfFetched ==
  ASSUME NEW e \in Entry, NEW v \in Verdict, NEW t \in Nat,
         e.level = v.level, e.expires_at = v.expires_at,
         e.last_decay_ts <= v.expires_at + Second - 1,
         t <= v.expires_at + Second - 1
  PROVE  Reach(e, t) <= OutageDeadline(v)
<1> DEFINE n == (StepsOut(v.level) - 1) * (DecayRenew + TickEvery)
           x == v.expires_at + Second - 1
           b == IF t >= DueAt(e) THEN t ELSE DueAt(e) - 1
<1>1. /\ v.expires_at \in Nat
      /\ e.last_decay_ts \in Nat
      /\ v.level \in Level
      /\ Second \in Nat \ {0}
      /\ DecayGap \in Nat \ {0}
      /\ TickEvery \in Nat \ {0}
  BY DEF Entry, Verdict
<1>2. DueAt(e) \in Int /\ DueAt(e) <= x + DecayGap
  BY <1>1 DEF DueAt
<1>3. n \in Int
  <2>1. StepsOut(v.level) - 1 \in Int
    BY <1>1 DEF StepsOut, Level, ALLOW, KICK
  <2>2. DecayRenew + TickEvery \in Int
    OBVIOUS
  <2>3. \A i, j \in Int : i * j \in Int
    OBVIOUS
  <2>4. QED
    BY <2>1, <2>2, <2>3
<1>4. b \in Int /\ b <= x + DecayGap - 1
  BY <1>1, <1>2
<1>5. /\ Reach(e, t) = b + TickEvery + n
      /\ OutageDeadline(v) =
           v.expires_at + (Second - 1) + DecayGap + (TickEvery - 1) + n
  BY DEF Reach, OutageDeadline
<1> HIDE DEF n, b
<1>6. QED
  BY <1>1, <1>3, <1>4, <1>5

-----------------------------------------------------------------------------
(* The entry of one client keeps its debts through each kind of step.       *)
LEMMA OwesTicked ==
  ASSUME VTypeOK, Clock, EntriesOwe, NEW c \in Clients, Ticked(c),
         verdict_cache'[c] # Absent
  PROVE  Owes(c, verdict_cache[c], fetched[c])' /\ verdict_cache[c] # Absent
<1> DEFINE e == verdict_cache[c]
           d == Decayed(e, now)
           f == Demoted(d)
<1>1. now \in Nat /\ last_tick \in Nat /\ e \in Entry \cup {Absent}
  BY DEF VTypeOK, TypeOK
<1>2. /\ verdict_cache'[c] = f
      /\ fetched'[c] = fetched[c]
      /\ c \in refetched' <=> (c \in refetched /\ c \notin KickTargets)
      /\ last_tick' = now
      /\ now' = now
  BY DEF Ticked
<1>3. Decayed(Absent, now) = Absent /\ Demoted(Absent) = Absent
  BY DEF Decayed, Demoted, MustKick
<1>4. e \in Entry
  BY <1>1, <1>2, <1>3
<1>5. /\ fetched[c] \in Verdict
      /\ e.level <= fetched[c].level
      /\ e.last_decay_ts <= now
      /\ Reach(e, last_tick) <= OutageDeadline(fetched[c])
  BY <1>4 DEF EntriesOwe, Owes, VTypeOK
<1>6. now <= last_tick + TickEvery
  BY <1>1 DEF Clock
<1>7. OutageDeadline(fetched[c]) \in Int
  <2>1. /\ fetched[c].level \in Level
        /\ fetched[c].expires_at \in Nat
    BY <1>5 DEF Verdict
  <2>2. StepsOut(fetched[c].level) - 1 \in Int
    BY <2>1 DEF StepsOut, Level, ALLOW, KICK
  <2>3. \A a, b \in Int : a * b \in Int
    OBVIOUS
  <2>4. (StepsOut(fetched[c].level) - 1) * (DecayRenew + TickEvery) \in Int
    BY <2>2, <2>3
  <2>5. QED
    BY <2>1, <2>4 DEF OutageDeadline
<1>8. /\ d \in Entry
      /\ d.level <= e.level
      /\ d.last_decay_ts <= now
      /\ Reach(d, now) <= Reach(e, last_tick)
  <2>1. CASE ~DecayDue(e, now)
    <3>1. d = e
      BY <1>1, <1>4, <2>1, DecayedEntry
    <3>2. e.level \in Int
      BY <1>4 DEF Entry, Level, ALLOW, KICK
    <3>3. Reach(e, now) <= Reach(e, last_tick)
      BY <1>1, <1>4, <2>1, ReachIdle
    <3>4. QED
      BY <1>4, <1>5, <3>1, <3>2, <3>3
  <2>2. CASE DecayDue(e, now)
    <3>1. e.level \in 0..4
      BY <1>4 DEF Entry, Level, ALLOW, KICK
    <3>2. ~(e.level <= WATCH)
      BY <1>1, <1>2, <1>3, <1>4, <2>2, DecayedEntry
    <3>3. /\ d \in Entry
          /\ d.level = e.level - 1
          /\ d.level >= WATCH
          /\ d.expires_at = now + DecayRenew
          /\ d.last_decay_ts = now
      BY <1>1, <1>4, <2>2, <3>1, <3>2, DecayedEntry DEF WATCH
    <3>4. Reach(d, now) <= Reach(e, last_tick)
      BY <1>1, <1>4, <1>6, <3>3, ReachDecreases
    <3>5. QED
      BY <1>1, <3>1, <3>3, <3>4
  <2>3. QED
    BY <2>1, <2>2
<1> HIDE DEF d
<1>9. /\ f \in Entry
      /\ f.level = IF d.level = KICK THEN QUARANTINE ELSE d.level
      /\ f.expires_at = d.expires_at
      /\ f.last_decay_ts = d.last_decay_ts
      /\ Reach(f, now) <= Reach(d, now)
  BY <1>1, <1>8, DemotedEntry, ReachOfDemoted
<1>10. /\ Reach(f, now) \in Int /\ Reach(d, now) \in Int
       /\ Reach(e, last_tick) \in Int
       /\ e.level \in Int /\ d.level \in Int /\ fetched[c].level \in Int
  <2> HIDE DEF e, f
  <2>1. /\ Reach(f, now) \in Int /\ Reach(d, now) \in Int
        /\ Reach(e, last_tick) \in Int
    BY <1>1, <1>4, <1>8, <1>9, ReachBound
  <2>2. e.level \in Level /\ d.level \in Level /\ fetched[c].level \in Level
    BY <1>4, <1>5, <1>8 DEF Entry, Verdict
  <2>3. QED
    BY <2>1, <2>2 DEF Level, ALLOW, KICK
<1> HIDE DEF e, f
<1>11. f.level <= fetched[c].level /\ f.level # KICK
  BY <1>5, <1>8, <1>9, <1>10 DEF KICK, QUARANTINE
<1>12. Reach(f, now) <= OutageDeadline(fetched[c])
  BY <1>5, <1>7, <1>8, <1>9, <1>10
<1>13. f.last_decay_ts <= now
  BY <1>8, <1>9
<1>14. fetched[c] # Absent
  BY <1>5
<1>15. Owes(c, verdict_cache[c], fetched[c])'
  BY <1>2, <1>11, <1>12, <1>13, <1>14
     DEF Owes, Reach, DueAt, StepsOut, OutageDeadline
<1>16. QED
  BY <1>4, <1>15 DEF e

(* A fetch renews what the entry owes.                                      *)
LEMMA OwesFetched ==
  ASSUME VTypeOK, Clock, EntriesOwe, NEW c \in Clients, Fetched(c)
  PROVE  Owes(c, verdict_cache[c], fetched[c])'
<1> DEFINE e == Demoted(Decayed(verdict_cache[c], now))
           v == verdictp[c].packed
           f == Upsert(e, v, now)
<1>1. /\ verdict_cache'[c] = f
      /\ fetched'[c] = v
      /\ c \in refetched'
      /\ last_tick' = now
      /\ now' = now
      /\ verdictp[c] # Absent
  BY DEF Fetched
<1>2. /\ now \in Nat
      /\ verdict_cache[c] \in Entry \cup {Absent}
      /\ verdictp[c] \in Stored
      /\ v \in Verdict
  BY <1>1 DEF VTypeOK, TypeOK, Stored
<1>3. v.expires_at \in Nat /\ now <= v.expires_at + Second - 1
  <2>1. now <= verdictp[c].until /\ verdictp[c].until <= v.expires_at + Second - 1
    BY <1>1 DEF Clock
  <2>2. verdictp[c].until \in Nat /\ v.expires_at \in Nat
    BY <1>2 DEF Stored, Verdict
  <2>3. QED
    BY <1>2, <2>1, <2>2
<1>4. e \in Entry \cup {Absent}
  BY <1>2, KickedEntryType
<1>5. e # Absent => e.last_decay_ts <= now
  <2> SUFFICES ASSUME e # Absent PROVE e.last_decay_ts <= now
    OBVIOUS
  <2> DEFINE b == verdict_cache[c]
             d == Decayed(b, now)
  <2>1. b \in Entry
    BY <1>2 DEF Decayed, Demoted, MustKick
  <2>2. b.last_decay_ts <= now
    BY <2>1 DEF EntriesOwe, Owes
  <2>3. b.level \in 0..4
    BY <2>1 DEF Entry, Level, ALLOW, KICK
  <2>4. d # Absent
    BY DEF Demoted, MustKick
  <2>5. d \in Entry /\ d.last_decay_ts <= now
    BY <1>2, <2>1, <2>2, <2>3, <2>4, DecayedEntry DEF WATCH
  <2> HIDE DEF d
  <2>6. Demoted(d).last_decay_ts <= now
    BY <2>5, DemotedEntry
  <2>7. QED
    BY <2>6 DEF d
<1> HIDE DEF e
<1>6. /\ f \in Entry
      /\ f.level = v.level
      /\ f.expires_at = v.expires_at
      /\ f.last_decay_ts <= now
  BY <1>2, <1>4, <1>5, UpsertEntry
<1> HIDE DEF f
<1> HIDE DEF v
<1>7. f.last_decay_ts <= v.expires_at + Second - 1
  <2>1. f.last_decay_ts \in Nat
    BY <1>6 DEF Entry
  <2>2. QED
    BY <1>2, <1>3, <1>6, <2>1
<1>8. Reach(f, now) <= OutageDeadline(v)
  BY <1>2, <1>3, <1>6, <1>7, ReachOfFetched
<1>9. f.level <= v.level
  BY <1>2, <1>6 DEF Verdict, Level, ALLOW, KICK
<1>10. v # Absent
  BY <1>2
<1>11. QED
  BY <1>1, <1>6, <1>8, <1>9, <1>10
     DEF Owes, Reach, DueAt, StepsOut, OutageDeadline

(* Steps that leave the level and expiry alone keep what the entry owes.    *)
LEMMA OwesKept ==
  ASSUME VTypeOK, Clock, EntriesOwe, NEW c \in Clients, Quiet(c) \/ Checked(c),
         verdict_cache'[c] # Absent
  PROVE  Owes(c, verdict_cache[c], fetched[c])'
<1> DEFINE e == verdict_cache[c]
           f == verdict_cache'[c]
<1>1. now \in Nat /\ e \in Entry \cup {Absent}
  BY DEF VTypeOK, TypeOK
<1>2. /\ fetched'[c] = fetched[c]
      /\ c \in refetched' <=> c \in refetched
      /\ last_tick' = last_tick
      /\ now' \in {now, now + 1}
  BY <1>1 DEF Quiet, Checked
<1>3. /\ e # Absent
      /\ f.level = e.level
      /\ f.expires_at = e.expires_at
      /\ f.last_decay_ts = e.last_decay_ts
  <2>1. CASE Quiet(c)
    BY <2>1 DEF Quiet
  <2>2. CASE Checked(c)
    <3>1. PICK access \in Access : f = AfterCheck(e, access, now)
      BY <2>2 DEF Checked
    <3>2. e # Absent
      BY <3>1 DEF AfterCheck
    <3>3. QED
      BY <1>1, <3>1, <3>2, AfterCheckEntry
  <2>3. QED
    BY <2>1, <2>2
<1>4. Owes(c, e, fetched[c])
  BY <1>3 DEF EntriesOwe
<1>5. f.last_decay_ts <= now'
  <2>1. e.last_decay_ts \in Nat /\ e.last_decay_ts <= now
    BY <1>1, <1>3, <1>4 DEF Owes, Entry
  <2>2. QED
    BY <1>1, <1>2, <1>3, <2>1
<1>6. Owes(c, verdict_cache[c], fetched[c])'
  BY <1>2, <1>3, <1>4, <1>5
     DEF Owes, Reach, DueAt, StepsOut, OutageDeadline
<1>7. QED
  BY <1>6

(* Every step keeps what the entries owe.                                   *)
LEMMA EntriesOweStep ==
  ASSUME VTypeOK, Clock, EntriesOwe, VNext
  PROVE  EntriesOwe'
<1> SUFFICES ASSUME NEW c \in Clients, verdict_cache'[c] # Absent
             PROVE  Owes(c, verdict_cache[c], fetched[c])'
  BY DEF EntriesOwe
<1>1. QED
  BY StepEffect, OwesTicked, OwesFetched, OwesKept

-----------------------------------------------------------------------------
(* Every step keeps the cache on the verdict fetched last.                  *)
LEMMA TracksStep ==
  ASSUME VTypeOK, Clock, CacheTracksFetched, VNext
  PROVE  CacheTracksFetched'
<1> SUFFICES ASSUME NEW c \in Clients, Fresh(c)'
             PROVE  /\ verdict_cache'[c] # Absent
                    /\ verdict_cache'[c].expires_at = fetched'[c].expires_at
                    /\ \/ verdict_cache'[c].level = fetched'[c].level
                       \/ /\ fetched'[c].level = KICK
                          /\ verdict_cache'[c].level = QUARANTINE
  BY DEF CacheTracksFetched
<1> DEFINE e == verdict_cache[c]
           v == fetched[c]
<1>1. now \in Nat /\ e \in Entry \cup {Absent} /\ v \in Verdict \cup {Absent}
  BY DEF VTypeOK, TypeOK
<1>2. ASSUME v # Absent, now <= v.expires_at
      PROVE  /\ e \in Entry
             /\ e.expires_at = v.expires_at
             /\ \/ e.level = v.level
                \/ v.level = KICK /\ e.level = QUARANTINE
  BY <1>1, <1>2 DEF CacheTracksFetched, Fresh
<1>3. CASE Quiet(c)
  <2>1. /\ verdict_cache'[c] = e /\ fetched'[c] = v
        /\ now' = now \/ now' = now + 1
    BY <1>3 DEF Quiet
  <2>2. v # Absent /\ now' <= v.expires_at
    BY <2>1 DEF Fresh
  <2>3. v.expires_at \in Nat
    BY <1>1, <2>2 DEF Verdict
  <2>4. now <= v.expires_at
    BY <1>1, <2>1, <2>2, <2>3
  <2>5. QED
    BY <1>2, <2>1, <2>2, <2>4
<1>4. CASE Checked(c)
  <2>1. /\ fetched'[c] = v /\ v # Absent /\ now <= v.expires_at
    BY <1>4 DEF Checked, Fresh
  <2>2. PICK access \in Access : verdict_cache'[c] = AfterCheck(e, access, now)
    BY <1>4 DEF Checked
  <2>3. QED
    BY <1>1, <1>2, <2>1, <2>2, AfterCheckEntry
<1>5. CASE Ticked(c)
  <2>1. /\ verdict_cache'[c] = Demoted(Decayed(e, now))
        /\ fetched'[c] = v /\ v # Absent /\ now <= v.expires_at
    BY <1>5 DEF Ticked, Fresh
  <2>2. /\ e \in Entry
        /\ e.expires_at = v.expires_at
        /\ \/ e.level = v.level
           \/ v.level = KICK /\ e.level = QUARANTINE
    BY <1>2, <2>1
  <2>3. Decayed(e, now) = e
    <3>1. ~DecayDue(e, now)
      BY <1>1, <2>1, <2>2 DEF DecayDue, Entry
    <3>2. QED
      BY <1>1, <2>2, <3>1, DecayedEntry
  <2>4. QED
    BY <2>1, <2>2, <2>3, DemotedEntry
<1>6. CASE Fetched(c)
  <2>1. /\ verdictp[c].packed \in Verdict
        /\ fetched'[c] = verdictp[c].packed
        /\ verdict_cache'[c] =
             Upsert(Demoted(Decayed(e, now)), verdictp[c].packed, now)
    BY <1>6 DEF Fetched, VTypeOK, TypeOK, Stored
  <2>2. Demoted(Decayed(e, now)) \in Entry \cup {Absent}
    BY <1>1, KickedEntryType
  <2>3. QED
    BY <1>1, <2>1, <2>2, UpsertEntry
<1>7. QED
  BY <1>3, <1>4, <1>5, <1>6, StepEffect

(* No step of fingerprint mode fetches anything.                            *)
LEMMA FingerprintStep ==
  ASSUME VTypeOK, FingerprintHoldsNothing, VNext
  PROVE  FingerprintHoldsNothing'
<1>1. mode' = mode
  BY RegistryStepEffect
     DEF VNext, VRefreshTick, TickRefresh, TickBody, VDryTick, DryTick,
         TickNoRefresh, TickNobody, TickUnreachable, VWriteVerdict,
         WriteVerdict, Advance, AclStep, AclCheck
<1> SUFFICES ASSUME mode = "fingerprint"
             PROVE  /\ \A c \in Clients : verdict_cache'[c] = Absent
                    /\ ~verdict_redis_ctx'
  BY <1>1 DEF FingerprintHoldsNothing
<1>2. ~verdict_redis_ctx /\ \A c \in Clients : verdict_cache[c] = Absent
  BY DEF FingerprintHoldsNothing
<1>3. ASSUME NEW c \in Clients
      PROVE  verdict_cache'[c] = Absent
  <2>1. Decayed(Absent, now) = Absent /\ Demoted(Absent) = Absent
    BY DEF Decayed, Demoted, MustKick
  <2>2. \A access : AfterCheck(Absent, access, now) = Absent
    BY DEF AfterCheck
  <2>3. ~Fetched(c)
    BY DEF Fetched
  <2>4. QED
    BY <1>2, <2>1, <2>2, <2>3, StepEffect DEF Quiet, Checked, Ticked
<1>4. ~verdict_redis_ctx'
  BY <1>2, RegistryStepEffect
     DEF VNext, VRefreshTick, TickRefresh, RefreshDue, VDryTick, DryTick,
         TickNoRefresh, TickNobody, TickUnreachable, VWriteVerdict,
         WriteVerdict, Advance, AclStep, AclCheck, refreshVars
<1>5. QED
  BY <1>3, <1>4

(* Every step keeps the invariant.                                          *)
LEMMA NextIInv == IInv /\ [VNext]_vvars => IInv'
<1> SUFFICES ASSUME IInv, [VNext]_vvars PROVE IInv'
  OBVIOUS
<1>1. CASE VNext
  BY <1>1, VStepType, ClockStep, EntriesOweStep, TracksStep, FingerprintStep
     DEF IInv
<1>2. CASE UNCHANGED vvars
  BY <1>2
     DEF vvars, vars, pluginVars, history, IInv, VTypeOK, TypeOK, Clock,
         EntriesOwe, Owes, Reach, DueAt, StepsOut, OutageDeadline,
         CacheTracksFetched, Fresh, FingerprintHoldsNothing
<1>3. QED
  BY <1>1, <1>2

(* The inductive invariant of the plugin and its histories.                 *)
THEOREM Invariance == VSpec => []IInv
<1>1. VInit => IInv
  BY InitIInv
<1>2. IInv /\ [VNext]_vvars => IInv'
  BY NextIInv
<1>3. QED
  BY <1>1, <1>2, PTL DEF VSpec

-----------------------------------------------------------------------------
(* Every field of the plugin's state keeps its type: tokens and timestamps  *)
(* never go negative and the backoff stays within its bounds.               *)
THEOREM TypeCorrect == VSpec => []VTypeOK
BY Invariance, PTL DEF IInv

(* An unexpired verdict is what the cache holds.                            *)
THEOREM CacheTracks == VSpec => []CacheTracksFetched
BY Invariance, PTL DEF IInv

(* Fingerprint mode never takes a verdict in.                               *)
THEOREM FingerprintIsPassive == VSpec => []FingerprintHoldsNothing
BY Invariance, PTL DEF IInv

(* An outage that never ends leaves no client contained: an entry is gone   *)
(* by a deadline computed from the last verdict fetched for it.             *)
THEOREM FailsOpen == VSpec => []OutageFailsOpen
<1>1. IInv => OutageFailsOpen
  <2> SUFFICES ASSUME IInv, NEW c \in Clients, verdict_cache[c] # Absent
               PROVE  /\ fetched[c] # Absent
                      /\ now <= OutageDeadline(fetched[c])
    BY DEF OutageFailsOpen
  <2> DEFINE e == verdict_cache[c]
             x == OutageDeadline(fetched[c])
  <2>1. now \in Nat /\ last_tick \in Nat /\ e \in Entry
    BY DEF IInv, VTypeOK, TypeOK
  <2>2. fetched[c] # Absent /\ Reach(e, last_tick) <= x
    BY DEF IInv, EntriesOwe, Owes
  <2>3. /\ Reach(e, last_tick) \in Int
        /\ last_tick + TickEvery <= Reach(e, last_tick)
    BY <2>1, ReachBound
  <2>4. now - last_tick <= TickEvery
    BY DEF IInv, Clock
  <2>5. x \in Int
    <3>1. /\ fetched[c].level \in Level
          /\ fetched[c].expires_at \in Nat
      BY <2>2 DEF IInv, VTypeOK, Verdict
    <3>2. StepsOut(fetched[c].level) - 1 \in Int
      BY <3>1 DEF StepsOut, Level, ALLOW, KICK
    <3>3. \A a, b \in Int : a * b \in Int
      OBVIOUS
    <3>4. (StepsOut(fetched[c].level) - 1) * (DecayRenew + TickEvery) \in Int
      BY <3>2, <3>3
    <3>5. QED
      BY <3>1, <3>4 DEF OutageDeadline
  <2> HIDE DEF e, x
  <2>6. now <= x
    BY <2>1, <2>2, <2>3, <2>4, <2>5
  <2>7. QED
    BY <2>2, <2>6 DEF x
<1>2. QED
  BY <1>1, Invariance, PTL

(* A denial needs a fetched verdict of THROTTLE or worse.                   *)
THEOREM DenialsJustified == VSpec => []DenialsAreJustified
<1>1. IInv => DenialsAreJustified
  <2> SUFFICES ASSUME IInv, NEW c \in Clients, NEW access \in Access,
                      NEW topic \in Topic, Answer(c, access, topic) = "deny"
               PROVE  fetched[c] # Absent /\ fetched[c].level >= THROTTLE
    BY DEF DenialsAreJustified
  <2> DEFINE e == verdict_cache[c]
  <2>1. e # Absent /\ (e.level = THROTTLE \/ e.level > THROTTLE)
    BY DEF Answer, Denies
  <2>2. e \in Entry
    BY <2>1 DEF IInv, VTypeOK, TypeOK
  <2>3. /\ fetched[c] # Absent
        /\ e.level <= fetched[c].level
    BY <2>1 DEF IInv, EntriesOwe, Owes
  <2>4. fetched[c].level \in Level /\ e.level \in Level
    BY <2>2, <2>3 DEF IInv, VTypeOK, Verdict, Entry
  <2>5. QED
    BY <2>1, <2>3, <2>4 DEF Level, ALLOW, THROTTLE, KICK
<1>2. QED
  BY <1>1, Invariance, PTL

(* A contained client stays contained while its verdict lives.              *)
THEOREM Contains == VSpec => []ContainmentHolds
<1>1. IInv => ContainmentHolds
  <2> SUFFICES ASSUME IInv, NEW c \in Clients, mode = "enforce", Fresh(c),
                      fetched[c].level >= QUARANTINE
               PROVE  /\ Answer(c, "write", "other") = "deny"
                      /\ Answer(c, "subscribe", "other") = "deny"
                      /\ Answer(c, "write", "quarantine") = "defer"
    BY DEF ContainmentHolds
  <2>1. /\ verdict_cache[c] # Absent
        /\ \/ verdict_cache[c].level = fetched[c].level
           \/ verdict_cache[c].level = QUARANTINE
    BY DEF IInv, CacheTracksFetched
  <2>2. fetched[c].level \in Level
    BY DEF Fresh, IInv, VTypeOK, Verdict
  <2>3. verdict_cache[c].level > THROTTLE /\ verdict_cache[c].level # THROTTLE
    BY <2>1, <2>2 DEF Level, ALLOW, THROTTLE, QUARANTINE, KICK
  <2>4. QED
    BY <2>1, <2>3 DEF Answer, Denies
<1>2. QED
  BY <1>1, Invariance, PTL

(* Each kick is paid for by a fetch since the one before.                   *)
THEOREM KicksNeedFetch == VSpec => KickNeedsFetch
<1>1. IInv /\ VNext => \A c \in Clients : Kicks(c) => c \in refetched
  <2> SUFFICES ASSUME IInv, VNext, NEW c \in Clients, Kicks(c)
               PROVE  c \in refetched
    OBVIOUS
  <2> DEFINE e == verdict_cache[c]
  <2>1. VTypeOK /\ EntriesOwe
    BY DEF IInv
  <2>2. c \in KickTargets
    BY <2>1, StepEffect DEF Quiet, Checked, Ticked, Fetched
  <2>3. Decayed(e, now) # Absent /\ Decayed(e, now).level = KICK
    BY <2>2 DEF KickTargets, MustKick
  <2>4. e \in Entry /\ now \in Nat
    BY <2>1, <2>3 DEF VTypeOK, TypeOK, Decayed
  <2>5. e.level = KICK
    <3>1. e.level \in 0..4
      BY <2>4 DEF Entry, Level, ALLOW, KICK
    <3>2. QED
      BY <2>3, <2>4, <3>1, DecayedEntry DEF WATCH, KICK
  <2>6. QED
    BY <2>1, <2>4, <2>5 DEF EntriesOwe, Owes
<1>2. QED
  BY <1>1, Invariance, PTL DEF VSpec, KickNeedsFetch

(* An unexpired KICK is carried out before anything else happens to it.     *)
THEOREM KicksNotSkipped == VSpec => KickIsNotSkipped
<1>1. IInv /\ VNext =>
        \A c \in Clients :
          (/\ MustKick(verdict_cache[c])
           /\ now <= verdict_cache[c].expires_at
           /\ verdict_cache'[c] # verdict_cache[c]) => Kicks(c)
  <2> SUFFICES ASSUME IInv, VNext, NEW c \in Clients,
                      MustKick(verdict_cache[c]),
                      now <= verdict_cache[c].expires_at,
                      verdict_cache'[c] # verdict_cache[c]
               PROVE  Kicks(c)
    OBVIOUS
  <2> DEFINE e == verdict_cache[c]
  <2>1. VTypeOK /\ e \in Entry /\ now \in Nat /\ e.level = KICK
    BY DEF IInv, VTypeOK, TypeOK, MustKick
  <2>2. ~Quiet(c)
    BY DEF Quiet
  <2>3. ~Checked(c)
    BY <2>1, AfterCheckEntry DEF Checked, KICK, THROTTLE
  <2>4. Decayed(e, now) = e
    <3>1. ~DecayDue(e, now)
      BY <2>1 DEF DecayDue, Entry
    <3>2. QED
      BY <2>1, <3>1, DecayedEntry
  <2>5. c \in KickTargets
    BY <2>4 DEF KickTargets
  <2>6. QED
    BY <2>1, <2>2, <2>3, <2>5, StepEffect DEF Ticked, Fetched
<1>2. QED
  BY <1>1, Invariance, PTL DEF VSpec, KickIsNotSkipped

-----------------------------------------------------------------------------
(* PluginTraffic.                                                           *)

Window == [start : Nat, budget : Nat, sent : Nat]

TTypeOK ==
  /\ TypeOK
  /\ window \in [Clients -> Window]
  /\ served_at \in [Clients -> Nat]
  /\ active_at \in [Clients -> Nat]
  /\ gap_at \in [Clients -> Nat]

(* What the bucket of a throttled client, refilled last at tokens_ts, still *)
(* holds and what was admitted together stay within the budget and the rate *)
(* up to then.  Before its first refill nothing is admitted.                *)
Bucket(e, w, t, served) ==
  Throttled(e) =>
    /\ w.start <= t
    /\ 2 * e.rate <= w.budget
    /\ e.tokens_ts < w.start => w.sent = 0
    /\ e.tokens_ts >= w.start =>
         e.tokens + w.sent <= w.budget + e.rate * (e.tokens_ts - w.start)
    /\ w.start < t /\ e.tokens_ts = t /\ e.rate >= 1 => served = t

(* No entry was refilled in the future; fingerprint mode has none.          *)
Buckets ==
  \A c \in Clients :
    /\ verdict_cache[c] # Absent => /\ verdict_cache[c].tokens_ts <= now
                                    /\ mode # "fingerprint"
    /\ Bucket(verdict_cache[c], window[c], now, served_at[c])

(* The registry has the times of the last activity and report, or has       *)
(* forgotten the report at a new connection.                                *)
Reports ==
  /\ StartTime <= now
  /\ last_tick <= now
  /\ \A c \in Clients :
       /\ active_at[c] <= now
       /\ gap_at[c] <= now
       /\ registry[c] # Gone =>
            /\ registry[c].keepalive \in KeepAlives
            /\ registry[c].last_activity_ts = active_at[c]
            /\ registry[c].last_ka_gap_emit_ts \in {0, gap_at[c]}

TIInv ==
  /\ TTypeOK
  /\ Buckets
  /\ Reports
  /\ SilenceIsReported

-----------------------------------------------------------------------------
(* The bucket of an entry.                                                  *)

(* A fetched verdict, a decay step and a demotion leave it as it is.        *)
LEMMA BucketKept ==
  ASSUME NEW e \in Entry, NEW v \in Verdict, NEW t \in Nat
  PROVE  /\ /\ Upsert(e, v, t).tokens = e.tokens
            /\ Upsert(e, v, t).tokens_ts = e.tokens_ts
            /\ Upsert(e, v, t).rate = v.rate
         /\ /\ Demoted(e).tokens = e.tokens
            /\ Demoted(e).tokens_ts = e.tokens_ts
         /\ Decayed(e, t) # Absent =>
              /\ Decayed(e, t).tokens = e.tokens
              /\ Decayed(e, t).tokens_ts = e.tokens_ts
<1>1. e # Absent
  OBVIOUS
<1>2. /\ Upsert(e, v, t).tokens = e.tokens
      /\ Upsert(e, v, t).tokens_ts = e.tokens_ts
      /\ Upsert(e, v, t).rate = v.rate
  BY <1>1 DEF Upsert, Entry
<1>3. /\ Demoted(e).tokens = e.tokens /\ Demoted(e).tokens_ts = e.tokens_ts
  BY DEF Demoted, Entry
<1>4. Decayed(e, t) # Absent =>
        /\ Decayed(e, t).tokens = e.tokens
        /\ Decayed(e, t).tokens_ts = e.tokens_ts
  BY <1>1 DEF Decayed, Entry
<1>5. QED
  BY <1>2, <1>3, <1>4

(* What a TICK makes of an entry: decay, demotion, perhaps a fetch.         *)
TickedEntry(e, f) ==
  \/ f = Demoted(Decayed(e, now))
  \/ \E v \in Verdict : f = Upsert(Demoted(Decayed(e, now)), v, now)

(* A throttled one keeps its bucket; none is refilled in the future.        *)
LEMMA TickedBucket ==
  ASSUME now \in Nat, NEW e \in Entry \cup {Absent}, NEW f, TickedEntry(e, f),
         e # Absent => e.tokens_ts <= now
  PROVE  /\ f \in Entry \cup {Absent}
         /\ f # Absent => f.tokens_ts <= now
         /\ Throttled(e) /\ f # Absent =>
              f.tokens = e.tokens /\ f.tokens_ts = e.tokens_ts
<1>1. PICK d : d = Decayed(e, now)
  OBVIOUS
<1>2. PICK g : g = Demoted(d)
  OBVIOUS
<1>3. /\ d \in Entry \cup {Absent} /\ g \in Entry \cup {Absent}
      /\ g # Absent => /\ e # Absent /\ d # Absent
                       /\ g.tokens = e.tokens /\ g.tokens_ts = e.tokens_ts
      /\ Throttled(e) => g # Absent
  <2>1. CASE e = Absent
    BY <1>1, <1>2, <2>1 DEF Decayed, Demoted, MustKick, Throttled
  <2>2. CASE e \in Entry
    <3>1. /\ d \in Entry \cup {Absent}
          /\ e.level > WATCH => d \in Entry
      <4>1. e.level \in Level
        BY <2>2 DEF Entry
      <4>2. e.level <= WATCH \/ e.level > WATCH
        BY <4>1 DEF Level, ALLOW, WATCH, KICK
      <4>3. QED
        BY <1>1, <2>2, <4>2, DecayedEntry
    <3>2. PICK v : v \in Verdict
      <4>1. [level |-> ALLOW, expires_at |-> 0, rate |-> 0] \in Verdict
        BY DEF Verdict, Level, ALLOW, KICK
      <4>2. QED
        BY <4>1
    <3>3. d # Absent => d.tokens = e.tokens /\ d.tokens_ts = e.tokens_ts
      BY <1>1, <2>2, <3>2, BucketKept
    <3>4. CASE d = Absent
      <4>1. g = Absent
        BY <1>2, <3>4 DEF Demoted, MustKick
      <4>2. ~Throttled(e)
        BY <2>2, <3>1, <3>4 DEF Throttled, THROTTLE, WATCH, Entry, Level
      <4>3. QED
        BY <3>4, <4>1, <4>2
    <3>5. CASE d \in Entry
      <4>1. g \in Entry /\ g.tokens = d.tokens /\ g.tokens_ts = d.tokens_ts
        BY <1>2, <3>2, <3>5, DemotedEntry, BucketKept
      <4>2. QED
        BY <2>2, <3>3, <3>5, <4>1
    <3>6. QED
      BY <3>1, <3>4, <3>5
  <2>3. QED
    BY <2>1, <2>2
<1>4. CASE f = g
  BY <1>3, <1>4
<1>5. CASE \E v \in Verdict : f = Upsert(g, v, now)
  <2>1. PICK v \in Verdict : f = Upsert(g, v, now)
    BY <1>5
  <2>2. f \in Entry
    BY <1>3, <2>1, UpsertEntry
  <2>3. CASE g = Absent
    <3>1. f.tokens_ts = now
      BY <2>1, <2>3 DEF Upsert
    <3>2. QED
      BY <1>3, <2>2, <2>3, <3>1
  <2>4. CASE g \in Entry
    <3>1. f.tokens = g.tokens /\ f.tokens_ts = g.tokens_ts
      BY <2>1, <2>4, BucketKept
    <3>2. QED
      BY <1>3, <2>2, <2>4, <3>1
  <2>5. QED
    BY <1>3, <2>3, <2>4
<1>6. QED
  BY <1>1, <1>2, <1>4, <1>5 DEF TickedEntry

(* Where a throttle window opens, its bucket is within the budget.          *)
LEMMA BucketOpens ==
  ASSUME NEW f \in Entry, NEW w \in Window, NEW t \in Nat, NEW served \in Nat,
         w = [start |-> t, budget |-> Larger(f.tokens, 2 * f.rate),
              sent |-> 0],
         f.tokens_ts <= t
  PROVE  Bucket(f, w, t, served)
<1>1. f.tokens \in Nat /\ f.tokens_ts \in Nat /\ f.rate \in Nat
  BY DEF Entry
<1>2. 2 * f.rate \in Nat
  BY <1>1
<1>3. f.tokens <= w.budget /\ 2 * f.rate <= w.budget
  BY <1>1, <1>2 DEF Larger
<1>4. w.start = t /\ w.sent = 0
  OBVIOUS
<1>5. f.tokens_ts >= t => f.rate * (f.tokens_ts - t) = 0
  <2>1. f.tokens_ts >= t => f.tokens_ts - t = 0
    BY <1>1
  <2>2. f.rate * 0 = 0
    BY <1>1
  <2>3. QED
    BY <2>1, <2>2
<1>6. w.budget \in Nat
  BY DEF Window
<1>7. f.tokens_ts >= w.start =>
        f.tokens + w.sent <= w.budget + f.rate * (f.tokens_ts - w.start)
  BY <1>1, <1>3, <1>4, <1>5, <1>6
<1>8. ~(w.start < t)
  BY <1>4
<1>9. QED
  BY <1>3, <1>4, <1>7, <1>8 DEF Bucket

(* The tokens due up to a and those due from a to t.                        *)
LEMMA Distributed ==
  ASSUME NEW r \in Nat, NEW a \in Nat, NEW b \in Nat, NEW t \in Nat
  PROVE  (t - a) * r + r * (a - b) = r * (t - b)
<1>1. r * (a - b) = r * a - r * b /\ r * (t - b) = r * t - r * b
  OBVIOUS
<1>2. (t - a) * r = t * r - a * r
  OBVIOUS
<1>3. t * r = r * t /\ a * r = r * a
  OBVIOUS
<1>4. r * a \in Nat /\ r * b \in Nat /\ r * t \in Nat
  OBVIOUS
<1>5. QED
  BY <1>1, <1>2, <1>3, <1>4

(* A write leaves the rate.                                                 *)
LEMMA ConsumedRate ==
  ASSUME NEW e \in Entry, NEW t \in Nat
  PROVE  Consumed(e, t).rate = e.rate
<1>1. PICK g : g = Refilled(e, t)
  OBVIOUS
<1>2. g.rate = e.rate
  BY <1>1 DEF Refilled, Entry
<1>3. [g EXCEPT !.tokens = @ - 1].rate = g.rate
  BY <1>1 DEF Refilled, Entry
<1>4. QED
  BY <1>1, <1>2, <1>3 DEF Consumed

(* A throttled write refills the bucket and takes a token if there is one.  *)
LEMMA BucketChecked ==
  ASSUME NEW e \in Entry, NEW w \in Window, NEW t \in Nat, NEW served \in Nat,
         NEW n, NEW f, NEW x, NEW u,
         Throttled(e), e.tokens_ts <= t, Bucket(e, w, t, served),
         f = Consumed(e, t),
         n = IF HasToken(e, t) THEN 1 ELSE 0,
         x = [w EXCEPT !.sent = @ + n],
         u = IF n = 1 THEN t ELSE served
  PROVE  f.tokens_ts = t /\ Bucket(f, x, t, u)
<1>1. PICK g : g = Refilled(e, t)
  OBVIOUS
<1>2. PICK r : r = e.rate
  OBVIOUS
<1>3. PICK a : a = e.tokens_ts
  OBVIOUS
<1>4. PICK b : b = w.start
  OBVIOUS
<1>5. /\ r \in Nat /\ a \in Nat /\ b \in Nat /\ e.tokens \in Nat
      /\ w.sent \in Nat /\ w.budget \in Nat /\ a <= t
  BY <1>2, <1>3, <1>4 DEF Entry, Window
<1>6. /\ b <= t
      /\ 2 * r <= w.budget
      /\ a < b => w.sent = 0
      /\ a >= b => e.tokens + w.sent <= w.budget + r * (a - b)
      /\ b < t /\ a = t /\ r >= 1 => served = t
  BY <1>2, <1>3, <1>4 DEF Bucket
<1>7. (t - a) * r \in Nat /\ 2 * r \in Nat
  BY <1>5
<1>8. /\ g \in Entry /\ g.level = e.level /\ g.rate = r /\ g.tokens_ts = t
      /\ g.tokens = IF t > a
                    THEN IF e.tokens + (t - a) * r > 2 * r THEN 2 * r
                         ELSE e.tokens + (t - a) * r
                    ELSE e.tokens
  <2>1. CASE t > a
    <3>1. g = [e EXCEPT
                 !.tokens = IF e.tokens + (t - a) * r > 2 * r THEN 2 * r
                            ELSE e.tokens + (t - a) * r,
                 !.tokens_ts = t]
      BY <1>1, <1>2, <1>3, <2>1 DEF Refilled
    <3>2. /\ 2 * r \in Nat
          /\ e.tokens + (t - a) * r \in Nat
      BY <1>5, <1>7
    <3>3. QED
      BY <1>2, <2>1, <3>1, <3>2 DEF Entry
  <2>2. CASE ~(t > a)
    <3>1. g = e /\ a = t
      BY <1>1, <1>3, <1>5, <2>2 DEF Refilled
    <3>2. QED
      BY <1>2, <1>3, <2>2, <3>1
  <2>3. QED
    BY <2>1, <2>2
<1>9. g.tokens \in Nat
  BY <1>8 DEF Entry
<1>10. t >= b => g.tokens + w.sent <= w.budget + r * (t - b)
  <2>1. r * (t - b) \in Nat
    <3>1. t - b \in Nat
      BY <1>5, <1>6
    <3>2. QED
      BY <1>5, <3>1
  <2>2. CASE t > a /\ a < b
    <3>1. g.tokens <= 2 * r
      BY <1>5, <1>7, <1>8, <2>2
    <3>2. g.tokens + w.sent <= w.budget
      BY <1>5, <1>6, <1>7, <1>9, <2>2, <3>1
    <3>3. QED
      BY <1>5, <1>6, <1>9, <2>1, <3>2
  <2>3. CASE t > a /\ a >= b
    <3>1. g.tokens <= e.tokens + (t - a) * r
      BY <1>5, <1>7, <1>8, <2>3
    <3>2. (t - a) * r + r * (a - b) = r * (t - b)
      BY <1>5, Distributed
    <3>3. r * (a - b) \in Nat
      BY <1>5, <2>3
    <3>4. e.tokens + w.sent <= w.budget + r * (a - b)
      BY <1>6, <2>3
    <3>5. g.tokens + w.sent <= w.budget + (r * (a - b) + (t - a) * r)
      BY <1>5, <1>7, <1>9, <3>1, <3>3, <3>4
    <3>6. QED
      BY <1>5, <1>7, <3>2, <3>3, <3>5
  <2>4. CASE ~(t > a)
    BY <1>5, <1>6, <1>8, <2>4
  <2>5. QED
    BY <1>5, <2>2, <2>3, <2>4
<1>11. HasToken(e, t) <=> g.tokens >= 1
  BY <1>1 DEF HasToken
<1>12. /\ f.level = e.level /\ f.rate = r /\ f.tokens_ts = t
       /\ f.tokens = g.tokens - n
       /\ n \in {0, 1}
  <2>1. CASE HasToken(e, t)
    <3>1. f = [g EXCEPT !.tokens = @ - 1]
      BY <1>1, <2>1 DEF Consumed
    <3>2. QED
      BY <1>8, <2>1, <3>1 DEF Entry
  <2>2. CASE ~HasToken(e, t)
    <3>1. f = g
      BY <1>1, <2>2 DEF Consumed
    <3>2. QED
      BY <1>8, <1>9, <2>2, <3>1
  <2>3. QED
    BY <2>1, <2>2
<1>13. x.start = b /\ x.budget = w.budget /\ x.sent = w.sent + n
  BY <1>4 DEF Window
<1>14. f.tokens + x.sent = g.tokens + w.sent
  BY <1>5, <1>9, <1>12, <1>13
<1>15. b < t /\ r >= 1 => u = t
  <2>1. SUFFICES ASSUME b < t, r >= 1, n = 0
                 PROVE  u = t
    BY <1>12
  <2>2. ~(g.tokens >= 1)
    BY <1>11, <2>1
  <2>3. CASE t > a
    <3>1. (t - a) * r >= 1
      <4>1. t - a >= 1
        BY <1>5, <2>3
      <4>2. QED
        BY <1>5, <2>1, <4>1
    <3>2. g.tokens >= 1
      BY <1>5, <1>7, <1>8, <2>1, <2>3, <3>1
    <3>3. QED
      BY <2>2, <3>2
  <2>4. CASE a = t
    BY <1>6, <2>1, <2>4
  <2>5. QED
    BY <1>5, <2>3, <2>4
<1>16. Bucket(f, x, t, u)
  <2>1. x.start <= t /\ 2 * f.rate <= x.budget
    BY <1>6, <1>12, <1>13
  <2>2. ~(f.tokens_ts < x.start)
    BY <1>5, <1>6, <1>12, <1>13
  <2>3. f.tokens + x.sent <= x.budget + f.rate * (f.tokens_ts - x.start)
    BY <1>5, <1>6, <1>10, <1>12, <1>13, <1>14
  <2>4. x.start < t /\ f.rate >= 1 => u = t
    BY <1>12, <1>13, <1>15
  <2>5. QED
    BY <2>1, <2>2, <2>3, <2>4 DEF Bucket
<1>17. QED
  BY <1>12, <1>16

(* Time passes: a bucket not refilled since says nothing of the new reading.*)
LEMMA BucketAges ==
  ASSUME NEW e \in Entry, NEW w \in Window, NEW t \in Nat, NEW served \in Nat,
         e.tokens_ts <= t, Bucket(e, w, t, served)
  PROVE  Bucket(e, w, t + 1, served)
<1>1. e.tokens_ts \in Nat /\ w.start \in Nat
  BY DEF Entry, Window
<1>2. e.tokens_ts # t + 1
  BY <1>1
<1>3. Throttled(e) => w.start <= t + 1
  BY <1>1 DEF Bucket
<1>4. QED
  BY <1>2, <1>3 DEF Bucket

-----------------------------------------------------------------------------
(* Types.                                                                   *)

(* A throttle window stays one.                                             *)
LEMMA WindowType ==
  ASSUME TTypeOK, TypeOK', NEW c \in Clients, NEW n \in {0, 1}
  PROVE  WindowAfter(c, n) \in Window
<1>1. PICK e : e = verdict_cache[c]
  OBVIOUS
<1>2. PICK f : f = verdict_cache'[c]
  OBVIOUS
<1>3. f \in Entry \cup {Absent} /\ window[c] \in Window /\ now \in Nat
  BY <1>2 DEF TTypeOK, TypeOK
<1>4. CASE ~Throttled(f)
  BY <1>2, <1>4 DEF WindowAfter, NoWindow, Window
<1>5. CASE Throttled(f) /\ SameThrottle(e, f)
  <2>1. WindowAfter(c, n) = [window[c] EXCEPT !.sent = @ + n]
    BY <1>1, <1>2, <1>5 DEF WindowAfter
  <2>2. QED
    BY <1>3, <2>1 DEF Window
<1>6. CASE Throttled(f) /\ ~SameThrottle(e, f)
  <2>1. WindowAfter(c, n) =
          [start |-> now, budget |-> Larger(f.tokens, 2 * f.rate),
           sent |-> 0]
    BY <1>1, <1>2, <1>6 DEF WindowAfter
  <2>2. f.tokens \in Nat /\ f.rate \in Nat
    BY <1>3, <1>6 DEF Throttled, Entry
  <2>3. 2 * f.rate \in Nat
    BY <2>2
  <2>4. QED
    BY <1>3, <2>1, <2>2, <2>3 DEF Larger, Window
<1>7. QED
  BY <1>4, <1>5, <1>6

(* The steps of PluginTraffic are those of Plugin.                          *)
LEMMA TStep ==
  ASSUME TNext
  PROVE  Next
BY DEF TNext, TAclCheck, TTick, TRegistryStep, Next, AclStep

(* They keep all types.                                                     *)
LEMMA TTypeStep ==
  ASSUME TTypeOK, TNext
  PROVE  TTypeOK'
<1>1. TypeOK'
  BY TStep, StepType DEF TTypeOK
<1>2. ASSUME NEW c \in Clients, NEW access \in Access, NEW topic \in Topic,
             TAclCheck(c, access, topic)
      PROVE  TTypeOK'
  <2>1. PICK n \in {0, 1} :
          /\ n = IF Admitted(c, access, topic) THEN 1 ELSE 0
          /\ window' = [window EXCEPT ![c] = WindowAfter(c, n)]
          /\ served_at' = [served_at EXCEPT ![c] = IF n = 1 THEN now ELSE @]
          /\ UNCHANGED <<active_at, gap_at>>
    BY <1>2 DEF TAclCheck
  <2>2. WindowAfter(c, n) \in Window
    BY <1>1, WindowType
  <2>3. QED
    BY <1>1, <2>1, <2>2 DEF TTypeOK, TypeOK
<1>3. CASE TTick
  <2>1. \A c \in Clients : WindowAfter(c, 0) \in Window
    BY <1>1, WindowType
  <2>2. QED
    BY <1>1, <1>3, <2>1 DEF TTypeOK, TypeOK, TTick
<1>4. CASE TRegistryStep
  BY <1>1, <1>4 DEF TTypeOK, TypeOK, TRegistryStep
<1>5. CASE (Advance \/ WorkerStep) /\ UNCHANGED traffic
  BY <1>1, <1>5 DEF TTypeOK, traffic
<1>6. QED
  BY <1>2, <1>3, <1>4, <1>5 DEF TNext

-----------------------------------------------------------------------------
(* The buckets.                                                             *)

(* A step that admits nothing and leaves the bucket of a throttle as it is. *)
LEMMA BucketStays ==
  ASSUME TTypeOK, TypeOK', Buckets, NEW c \in Clients,
         now' = now, mode' = mode,
         window'[c] = WindowAfter(c, 0), served_at'[c] = served_at[c],
         verdict_cache'[c] # Absent =>
           mode # "fingerprint" /\ verdict_cache'[c].tokens_ts <= now,
         SameThrottle(verdict_cache[c], verdict_cache'[c]) =>
           /\ verdict_cache'[c].tokens = verdict_cache[c].tokens
           /\ verdict_cache'[c].tokens_ts = verdict_cache[c].tokens_ts
  PROVE  Bucket(verdict_cache'[c], window'[c], now', served_at'[c])
<1>1. PICK e : e = verdict_cache[c]
  OBVIOUS
<1>2. PICK f : f = verdict_cache'[c]
  OBVIOUS
<1>3. PICK w : w = window[c]
  OBVIOUS
<1>4. PICK x : x = window'[c]
  OBVIOUS
<1>5. PICK s : s = served_at[c]
  OBVIOUS
<1>6. /\ f \in Entry \cup {Absent} /\ w \in Window /\ now \in Nat /\ s \in Nat
      /\ x \in Window
  BY <1>2, <1>3, <1>4, <1>5, WindowType DEF TTypeOK, TypeOK
<1>7. SUFFICES ASSUME Throttled(f)
               PROVE  Bucket(f, x, now, s)
  BY <1>2, <1>4, <1>5 DEF Bucket
<1>8. f \in Entry /\ f.tokens_ts <= now
  BY <1>2, <1>6, <1>7 DEF Throttled
<1>9. CASE SameThrottle(e, f)
  <2>1. x = [w EXCEPT !.sent = @ + 0]
    BY <1>1, <1>2, <1>3, <1>4, <1>7, <1>9 DEF WindowAfter
  <2>2. x = w
    BY <1>6, <2>1 DEF Window
  <2>3. Bucket(e, w, now, s)
    BY <1>1, <1>3, <1>5 DEF Buckets
  <2>4. f.tokens = e.tokens /\ f.tokens_ts = e.tokens_ts /\ f.rate = e.rate
    BY <1>1, <1>2, <1>9 DEF SameThrottle
  <2>5. QED
    BY <1>9, <2>2, <2>3, <2>4 DEF Bucket, SameThrottle
<1>10. CASE ~SameThrottle(e, f)
  <2>1. x = [start |-> now, budget |-> Larger(f.tokens, 2 * f.rate),
             sent |-> 0]
    BY <1>1, <1>2, <1>4, <1>7, <1>10 DEF WindowAfter
  <2>2. QED
    BY <1>6, <1>8, <2>1, BucketOpens
<1>11. QED
  BY <1>9, <1>10

(* An ACL check, of whatever access.                                        *)
LEMMA AclBuckets ==
  ASSUME TTypeOK, Buckets, NEW c \in Clients, NEW access \in Access,
         NEW topic \in Topic, TAclCheck(c, access, topic)
  PROVE  Buckets'
<1>1. TypeOK' /\ TTypeOK'
  <2>1. TNext
    BY DEF TNext
  <2>2. QED
    BY <2>1, TTypeStep DEF TTypeOK
<1>2. /\ now' = now /\ mode' = mode
      /\ \A d \in Clients \ {c} :
           /\ verdict_cache'[d] = verdict_cache[d]
           /\ window'[d] = window[d]
           /\ served_at'[d] = served_at[d]
  BY DEF TAclCheck, AclCheck, TTypeOK, TypeOK
<1>3. \A d \in Clients \ {c} :
        /\ verdict_cache'[d] # Absent => /\ verdict_cache'[d].tokens_ts <= now'
                                         /\ mode' # "fingerprint"
        /\ Bucket(verdict_cache'[d], window'[d], now', served_at'[d])
  BY <1>2 DEF Buckets
<1>4. PICK e : e = verdict_cache[c]
  OBVIOUS
<1>5. PICK f : f = verdict_cache'[c]
  OBVIOUS
<1>6. PICK n : n = IF Admitted(c, access, topic) THEN 1 ELSE 0
  OBVIOUS
<1>7. PICK w : w = window[c]
  OBVIOUS
<1>8. PICK s : s = served_at[c]
  OBVIOUS
<1>9. /\ e \in Entry \cup {Absent} /\ f \in Entry \cup {Absent}
      /\ now \in Nat /\ w \in Window /\ s \in Nat
      /\ e # Absent => e.tokens_ts <= now /\ mode # "fingerprint"
      /\ Bucket(e, w, now, s)
  BY <1>1, <1>4, <1>5, <1>7, <1>8 DEF TTypeOK, TypeOK, Buckets
<1>10. /\ f = IF mode = "fingerprint" THEN e ELSE AfterCheck(e, access, now)
       /\ window'[c] = WindowAfter(c, n)
       /\ served_at'[c] = IF n = 1 THEN now ELSE s
  BY <1>4, <1>5, <1>6, <1>8 DEF TAclCheck, AclCheck, TTypeOK, TypeOK
<1>11. /\ f # Absent => f.tokens_ts <= now /\ mode # "fingerprint"
       /\ Bucket(f, window'[c], now, served_at'[c])
  <2>1. CASE Throttled(e) /\ access = "write"
    <3>1. f = Consumed(e, now) /\ e \in Entry /\ e.tokens_ts <= now
      BY <1>9, <1>10, <2>1 DEF Throttled, AfterCheck
    <3>2. n = IF HasToken(e, now) THEN 1 ELSE 0
      BY <1>4, <1>6, <2>1 DEF Admitted, Denies, Throttled, THROTTLE
    <3>3. f \in Entry /\ SameThrottle(e, f)
      <4>1. f = AfterCheck(e, access, now)
        BY <2>1, <3>1 DEF Throttled, AfterCheck
      <4>2. f \in Entry /\ f.level = e.level
        BY <1>9, <3>1, <4>1, AfterCheckEntry
      <4>3. f.rate = e.rate
        BY <3>1, ConsumedRate, <1>9
      <4>4. QED
        BY <2>1, <4>2, <4>3 DEF SameThrottle, Throttled
    <3>4. window'[c] = [w EXCEPT !.sent = @ + n]
      BY <1>4, <1>5, <1>7, <1>10, <3>3 DEF WindowAfter, SameThrottle
    <3>5. PICK x : x = window'[c]
      OBVIOUS
    <3>6. PICK u : u = served_at'[c]
      OBVIOUS
    <3>7. f.tokens_ts = now /\ Bucket(f, x, now, u)
      BY <1>9, <1>10, <2>1, <3>1, <3>2, <3>4, <3>5, <3>6, BucketChecked
    <3>8. mode # "fingerprint"
      BY <1>9, <2>1 DEF Throttled
    <3>9. QED
      BY <1>9, <3>5, <3>6, <3>7, <3>8
  <2>2. CASE ~(Throttled(e) /\ access = "write")
    <3>1. f = e
      BY <1>9, <1>10, <2>2 DEF AfterCheck, Throttled
    <3>2. n = 0
      BY <1>4, <1>6, <2>2 DEF Admitted
    <3>3. served_at'[c] = served_at[c] /\ window'[c] = WindowAfter(c, 0)
      BY <1>8, <1>10, <3>2
    <3>4. /\ verdict_cache'[c].tokens = verdict_cache[c].tokens
          /\ verdict_cache'[c].tokens_ts = verdict_cache[c].tokens_ts
          /\ verdict_cache'[c] # Absent =>
               mode # "fingerprint" /\ verdict_cache'[c].tokens_ts <= now
      BY <1>4, <1>5, <1>9, <3>1
    <3>5. Bucket(verdict_cache'[c], window'[c], now', served_at'[c])
      BY <1>1, <1>2, <3>3, <3>4, BucketStays
    <3>6. QED
      BY <1>2, <1>5, <3>4, <3>5
  <2>3. QED
    BY <2>1, <2>2
<1>12. ASSUME NEW d \in Clients
       PROVE  /\ verdict_cache'[d] # Absent =>
                   /\ verdict_cache'[d].tokens_ts <= now'
                   /\ mode' # "fingerprint"
              /\ Bucket(verdict_cache'[d], window'[d], now', served_at'[d])
  <2>1. CASE d = c
    BY <1>2, <1>5, <1>11, <2>1
  <2>2. CASE d # c
    BY <1>3, <2>2
  <2>3. QED
    BY <2>1, <2>2
<1>13. QED
  BY <1>12 DEF Buckets

(* A TICK, fetching or not.                                                 *)
LEMMA TickBuckets ==
  ASSUME TTypeOK, Buckets, TTick
  PROVE  Buckets'
<1>1. TypeOK' /\ TTypeOK'
  <2>1. TNext
    BY DEF TNext
  <2>2. QED
    BY <2>1, TTypeStep DEF TTypeOK
<1>2. /\ DryTick \/ RefreshTick
      /\ now' = now /\ mode' = mode
      /\ now \in Nat
  BY DEF TTick, DryTick, RefreshTick, TickNoRefresh, TickNobody,
         TickUnreachable, TickRefresh, TickBody, TTypeOK, TypeOK
<1>3. ASSUME NEW c \in Clients
      PROVE  /\ verdict_cache'[c] # Absent =>
                  /\ verdict_cache'[c].tokens_ts <= now'
                  /\ mode' # "fingerprint"
             /\ Bucket(verdict_cache'[c], window'[c], now', served_at'[c])
  <2>1. PICK e : e = verdict_cache[c]
    OBVIOUS
  <2>2. PICK f : f = verdict_cache'[c]
    OBVIOUS
  <2>3. /\ e \in Entry \cup {Absent} /\ f \in Entry \cup {Absent}
        /\ e # Absent => e.tokens_ts <= now /\ mode # "fingerprint"
    BY <1>1, <2>1, <2>2 DEF TTypeOK, TypeOK, Buckets
  <2>4. TickedEntry(e, f)
    <3>1. CASE DryTick
      <4>1. verdict_cache' = CacheAfterKicks
        BY <3>1 DEF DryTick, TickNoRefresh, TickNobody, TickUnreachable
      <4>2. f = Demoted(Decayed(e, now))
        BY <2>1, <2>2, <4>1 DEF CacheAfterKicks
      <4>3. QED
        BY <4>2 DEF TickedEntry
    <3>2. CASE RefreshTick
      <4>1. PICK answered \in SUBSET Clients :
              verdict_cache' = [d \in Clients |->
                IF d \in answered /\ verdictp[d] # Absent
                THEN Upsert(CacheAfterKicks[d], verdictp[d].packed, now)
                ELSE CacheAfterKicks[d]]
        BY <3>2 DEF RefreshTick, TickRefresh
      <4>2. CacheAfterKicks[c] = Demoted(Decayed(e, now))
        BY <2>1 DEF CacheAfterKicks
      <4>3. CASE c \in answered /\ verdictp[c] # Absent
        <5>1. PICK v : v = verdictp[c].packed
          OBVIOUS
        <5>2. v \in Verdict
          BY <4>3, <5>1 DEF TTypeOK, TypeOK, Stored
        <5>3. f = Upsert(Demoted(Decayed(e, now)), v, now)
          BY <2>2, <4>1, <4>2, <4>3, <5>1
        <5>4. QED
          BY <5>2, <5>3 DEF TickedEntry
      <4>4. CASE ~(c \in answered /\ verdictp[c] # Absent)
        <5>1. f = Demoted(Decayed(e, now))
          BY <2>2, <4>1, <4>2, <4>4
        <5>2. QED
          BY <5>1 DEF TickedEntry
      <4>5. QED
        BY <4>3, <4>4
    <3>3. QED
      BY <1>2, <3>1, <3>2
  <2>5. /\ f # Absent => f.tokens_ts <= now
        /\ Throttled(e) /\ f # Absent =>
             f.tokens = e.tokens /\ f.tokens_ts = e.tokens_ts
    BY <1>2, <2>3, <2>4, TickedBucket
  <2>6. f # Absent => mode # "fingerprint"
    <3>1. CASE mode = "fingerprint"
      <4>1. DryTick
        BY <1>2, <3>1 DEF RefreshTick, TickRefresh, RefreshDue
      <4>2. verdict_cache' = CacheAfterKicks
        BY <4>1 DEF DryTick, TickNoRefresh, TickNobody, TickUnreachable
      <4>3. e = Absent
        BY <2>3, <3>1
      <4>4. f = Absent
        BY <2>1, <2>2, <4>2, <4>3
           DEF CacheAfterKicks, Decayed, Demoted, MustKick
      <4>5. QED
        BY <4>4
    <3>2. QED
      BY <3>1
  <2>7. window'[c] = WindowAfter(c, 0) /\ served_at'[c] = served_at[c]
    BY DEF TTick
  <2>8. SameThrottle(e, f) => f.tokens = e.tokens /\ f.tokens_ts = e.tokens_ts
    BY <2>5 DEF SameThrottle, Throttled
  <2>9. Bucket(verdict_cache'[c], window'[c], now', served_at'[c])
    BY <1>1, <1>2, <2>1, <2>2, <2>5, <2>6, <2>7, <2>8, BucketStays
  <2>10. QED
    BY <1>2, <2>2, <2>5, <2>6, <2>9
<1>4. QED
  BY <1>3 DEF Buckets

(* The clock moves.                                                         *)
LEMMA AgedBuckets ==
  ASSUME TTypeOK, Buckets, Advance, UNCHANGED traffic
  PROVE  Buckets'
<1>1. /\ now \in Nat /\ now' = now + 1 /\ mode' = mode
      /\ verdict_cache' = verdict_cache
      /\ window' = window /\ served_at' = served_at
  BY DEF Advance, traffic, TTypeOK, TypeOK
<1>2. ASSUME NEW c \in Clients
      PROVE  /\ verdict_cache'[c] # Absent =>
                  /\ verdict_cache'[c].tokens_ts <= now'
                  /\ mode' # "fingerprint"
             /\ Bucket(verdict_cache'[c], window'[c], now', served_at'[c])
  <2>1. PICK e : e = verdict_cache[c]
    OBVIOUS
  <2>2. PICK w : w = window[c]
    OBVIOUS
  <2>3. PICK s : s = served_at[c]
    OBVIOUS
  <2>4. /\ e \in Entry \cup {Absent} /\ w \in Window /\ s \in Nat
        /\ e # Absent => e.tokens_ts <= now /\ mode # "fingerprint"
        /\ Bucket(e, w, now, s)
    BY <2>1, <2>2, <2>3 DEF TTypeOK, TypeOK, Buckets
  <2>5. CASE e = Absent
    BY <1>1, <2>1, <2>5 DEF Bucket, Throttled
  <2>6. CASE e \in Entry /\ e # Absent
    <3>1. Bucket(e, w, now + 1, s)
      BY <1>1, <2>4, <2>6, BucketAges
    <3>2. e.tokens_ts \in Nat
      BY <2>6 DEF Entry
    <3>3. e.tokens_ts <= now + 1
      BY <1>1, <2>4, <2>6, <3>2
    <3>4. QED
      BY <1>1, <2>1, <2>2, <2>3, <2>4, <2>6, <3>1, <3>3
  <2>7. QED
    BY <2>4, <2>5, <2>6
<1>3. QED
  BY <1>2 DEF Buckets

(* The other steps leave cache, clock and windows alone.                    *)
LEMMA SameBuckets ==
  ASSUME Buckets,
         UNCHANGED <<now, mode, verdict_cache, window, served_at>>
  PROVE  Buckets'
BY DEF Buckets

(* No step breaks a bucket.                                                 *)
LEMMA BucketsStep ==
  ASSUME TTypeOK, Buckets, TNext
  PROVE  Buckets'
<1>1. CASE \E c \in Clients, access \in Access, topic \in Topic :
             TAclCheck(c, access, topic)
  BY <1>1, AclBuckets
<1>2. CASE TTick
  BY <1>2, TickBuckets
<1>3. CASE TRegistryStep
  <2>1. UNCHANGED <<now, mode, verdict_cache, window, served_at>>
    BY <1>3, RegistryStepKeeps DEF TRegistryStep
  <2>2. QED
    BY <2>1, SameBuckets
<1>4. CASE Advance /\ UNCHANGED traffic
  BY <1>4, AgedBuckets
<1>5. CASE WorkerStep /\ UNCHANGED traffic
  <2>1. UNCHANGED <<now, mode, verdict_cache, window, served_at>>
    BY <1>5 DEF WorkerStep, WriteVerdict, traffic
  <2>2. QED
    BY <2>1, SameBuckets
<1>6. QED
  BY <1>1, <1>2, <1>3, <1>4, <1>5 DEF TNext

-----------------------------------------------------------------------------
(* The reports of silence.                                                  *)

(* Events differ where their names or their clients do.                     *)
LEMMA EventFields ==
  ASSUME NEW n, NEW c
  PROVE  Event(n, c).event = n /\ Event(n, c).client_id = c
BY DEF Event

(* A TICK reports the clients whose report is due, and no others.           *)
LEMMA TickReported ==
  ASSUME TickBody, NEW c \in Clients
  PROVE  Event("ka_gap", c) \in emitted' <=> KaGapDue(registry[c], now)
<1>1. emitted' = TickEvents
  BY DEF TickBody
<1>2. ASSUME KaGapDue(registry[c], now)
      PROVE  Event("ka_gap", c) \in TickEvents
  BY <1>2 DEF TickEvents
<1>3. ASSUME Event("ka_gap", c) \in TickEvents
      PROVE  KaGapDue(registry[c], now)
  <2>1. PICK x : x = Event("ka_gap", c)
    OBVIOUS
  <2>2. ASSUME NEW d \in Clients
        PROVE  x # Event("enforcement", d) /\ x # Event("disconnect", d)
    <3>1. x.event = "ka_gap"
      BY <2>1, EventFields
    <3>2. /\ Event("enforcement", d).event = "enforcement"
          /\ Event("disconnect", d).event = "disconnect"
      BY EventFields
    <3>3. QED
      BY <3>1, <3>2
  <2>3. x # [event |-> "plugin_stats"]
    <3>1. x.event = "ka_gap"
      BY <2>1, EventFields
    <3>2. [event |-> "plugin_stats"].event = "plugin_stats"
      OBVIOUS
    <3>3. QED
      BY <3>1, <3>2
  <2>4. x \in {Event("ka_gap", d) :
                 d \in {b \in Clients : KaGapDue(registry[b], now)}}
    BY <1>3, <2>1, <2>2, <2>3 DEF TickEvents, KickTargets
  <2>5. PICK d \in Clients :
          KaGapDue(registry[d], now) /\ x = Event("ka_gap", d)
    BY <2>4
  <2>6. c = d
    <3>1. x.client_id = c
      BY <2>1, EventFields
    <3>2. x.client_id = d
      BY <2>5, EventFields
    <3>3. QED
      BY <3>1, <3>2
  <2>7. QED
    BY <2>5, <2>6
<1>4. QED
  BY <1>1, <1>2, <1>3

(* A TICK reports whom it must and notes when.                              *)
LEMMA TickReports ==
  ASSUME TTypeOK, Reports, TTick
  PROVE  Reports' /\ SilenceIsReported'
<1>1. TickBody
  BY DEF TTick, DryTick, RefreshTick, TickNoRefresh, TickNobody,
         TickUnreachable, TickRefresh
<1>2. /\ now' = now /\ last_tick' = now /\ now \in Nat
      /\ registry' = RegistryAfterKicks
      /\ active_at' = active_at
      /\ StartTime <= now
  BY <1>1 DEF TickBody, TTick, TTypeOK, TypeOK, Reports
<1>3. ASSUME NEW c \in Clients
      PROVE  /\ gap_at'[c] = IF KaGapDue(registry[c], now) THEN now
                             ELSE gap_at[c]
             /\ registry'[c] # Gone => registry'[c] = Scanned(registry[c], now)
             /\ active_at[c] \in Nat /\ gap_at[c] \in Nat
             /\ registry[c] \in Node \cup {Gone}
             /\ active_at[c] <= now /\ gap_at[c] <= now
             /\ registry[c] # Gone =>
                  /\ registry[c].keepalive \in KeepAlives
                  /\ registry[c].last_activity_ts = active_at[c]
                  /\ registry[c].last_ka_gap_emit_ts \in {0, gap_at[c]}
  <2>1. gap_at'[c] = IF KaGapDue(registry[c], now) THEN now ELSE gap_at[c]
    BY <1>1, TickReported DEF TTick
  <2>2. registry'[c] # Gone => registry'[c] = Scanned(registry[c], now)
    BY <1>2 DEF RegistryAfterKicks
  <2>3. QED
    BY <2>1, <2>2 DEF TTypeOK, TypeOK, Reports
<1>4. Reports'
  <2>1. ASSUME NEW c \in Clients
        PROVE  /\ active_at'[c] <= now'
               /\ gap_at'[c] <= now'
               /\ registry'[c] # Gone =>
                    /\ registry'[c].keepalive \in KeepAlives
                    /\ registry'[c].last_activity_ts = active_at'[c]
                    /\ registry'[c].last_ka_gap_emit_ts \in {0, gap_at'[c]}
    <3>1. active_at'[c] <= now' /\ gap_at'[c] <= now'
      BY <1>2, <1>3
    <3>2. ASSUME registry'[c] # Gone
          PROVE  /\ registry'[c].keepalive \in KeepAlives
                 /\ registry'[c].last_activity_ts = active_at'[c]
                 /\ registry'[c].last_ka_gap_emit_ts \in {0, gap_at'[c]}
      <4>1. PICK n : n = registry[c]
        OBVIOUS
      <4>2. registry'[c] = Scanned(n, now)
        BY <1>3, <3>2, <4>1
      <4>3. n # Gone /\ n \in Node
        BY <1>3, <3>2, <4>1, <4>2 DEF Scanned, KaGapDue
      <4>4. CASE KaGapDue(n, now)
        <5>1. registry'[c] = [n EXCEPT !.last_ka_gap_emit_ts = now]
          BY <4>2, <4>4 DEF Scanned
        <5>2. /\ registry'[c].keepalive = n.keepalive
              /\ registry'[c].last_activity_ts = n.last_activity_ts
              /\ registry'[c].last_ka_gap_emit_ts = now
          BY <4>3, <5>1 DEF Node
        <5>3. QED
          BY <1>2, <1>3, <4>1, <4>3, <4>4, <5>2
      <4>5. CASE ~KaGapDue(n, now)
        <5>1. registry'[c] = n
          BY <4>2, <4>5 DEF Scanned
        <5>2. QED
          BY <1>2, <1>3, <4>1, <4>3, <4>5, <5>1
      <4>6. QED
        BY <4>4, <4>5
    <3>3. QED
      BY <3>1, <3>2
  <2>2. StartTime <= now' /\ last_tick' <= now'
    BY <1>2
  <2>3. QED
    BY <2>1, <2>2 DEF Reports
<1>5. SilenceIsReported'
  <2>1. SUFFICES ASSUME NEW c \in Clients, registry'[c] # Gone,
                        registry'[c].keepalive > 0,
                        2 * (now' - active_at'[c]) > 3 * registry'[c].keepalive
                 PROVE  /\ gap_at'[c] > active_at'[c]
                        /\ now' - gap_at'[c] < registry'[c].keepalive
    <3>1. DOMAIN registry' = Clients
      BY <1>2 DEF RegistryAfterKicks
    <3>2. QED
      BY <3>1 DEF SilenceIsReported, Registered
  <2>2. PICK n : n = registry[c]
    OBVIOUS
  <2>3. PICK k : k = n.keepalive
    OBVIOUS
  <2>4. registry'[c] = Scanned(n, now) /\ n # Gone /\ n \in Node
    <3>1. registry'[c] = Scanned(n, now)
      BY <1>3, <2>1, <2>2
    <3>2. QED
      BY <1>3, <2>1, <2>2, <3>1 DEF Scanned, KaGapDue
  <2>5. registry'[c].keepalive = k
    BY <2>3, <2>4 DEF Scanned, Node
  <2>6. /\ k > 0 /\ k \in Nat /\ k <= StartTime
        /\ 2 * (now - active_at[c]) > 3 * k
        /\ n.last_activity_ts = active_at[c]
        /\ n.last_ka_gap_emit_ts \in {0, gap_at[c]}
    BY <1>2, <1>3, <2>1, <2>2, <2>3, <2>4, <2>5
  <2>7. CASE KaGapDue(n, now)
    BY <1>2, <1>3, <2>2, <2>5, <2>6, <2>7
  <2>8. CASE ~KaGapDue(n, now)
    <3>1. now - n.last_ka_gap_emit_ts < k
      BY <1>2, <1>3, <2>3, <2>4, <2>6, <2>8 DEF KaGapDue
    <3>2. n.last_ka_gap_emit_ts = gap_at[c]
      BY <1>2, <2>6, <3>1
    <3>3. gap_at'[c] = gap_at[c] /\ active_at'[c] = active_at[c]
      BY <1>2, <1>3, <2>2, <2>8
    <3>4. QED
      BY <1>2, <1>3, <2>5, <2>6, <3>1, <3>2, <3>3
  <2>9. QED
    BY <2>7, <2>8
<1>6. QED
  BY <1>4, <1>5

(* What a callback of a client's own does to its node and activity time.    *)
LEMMA Callbacks ==
  ASSUME TTypeOK, TRegistryStep, NEW c \in Clients
  PROVE  \/ /\ registry'[c] = registry[c]
            /\ active_at'[c] = active_at[c]
         \/ registry'[c] = Gone /\ active_at'[c] = active_at[c]
         \/ /\ \E k \in KeepAlives : registry'[c] = Connected(k, now)
            /\ active_at'[c] = now
         \/ /\ registry[c] # Gone
            /\ registry'[c] = Touched(registry[c], now)
            /\ active_at'[c] = now
<1>1. /\ registry \in [Clients -> Node \cup {Gone}]
      /\ active_at'[c] = IF \E name \in ActivityEvents :
                              Event(name, c) \in emitted'
                         THEN now ELSE active_at[c]
  BY DEF TTypeOK, TypeOK, TRegistryStep
<1>2. ASSUME NEW d \in Clients, NEW name, emitted' = {Event(name, d)}
      PROVE  active_at'[c] = IF c = d /\ name \in ActivityEvents
                             THEN now ELSE active_at[c]
  <2>1. ASSUME NEW m \in ActivityEvents
        PROVE  Event(m, c) \in emitted' <=> m = name /\ c = d
    <3>1. Event(m, c).event = m /\ Event(m, c).client_id = c
      BY EventFields
    <3>2. Event(name, d).event = name /\ Event(name, d).client_id = d
      BY EventFields
    <3>3. QED
      BY <1>2, <3>1, <3>2
  <2>2. QED
    BY <1>1, <2>1
<1>3. ASSUME NEW d \in Clients, NEW k \in KeepAlives, Connect(d, k)
      PROVE  \/ /\ registry'[c] = registry[c]
                /\ active_at'[c] = active_at[c]
             \/ registry'[c] = Connected(k, now) /\ active_at'[c] = now
  <2>1. active_at'[c] = IF c = d THEN now ELSE active_at[c]
    BY <1>2, <1>3 DEF Connect, ActivityEvents
  <2>2. registry'[c] = IF c = d THEN Connected(k, now) ELSE registry[c]
    BY <1>1, <1>3 DEF Connect
  <2>3. QED
    BY <2>1, <2>2
<1>4. ASSUME NEW d \in Clients, Disconnect(d) \/ ClientOffline(d)
      PROVE  /\ active_at'[c] = active_at[c]
             /\ registry'[c] \in {registry[c], Gone}
  <2>1. active_at'[c] = active_at[c]
    BY <1>2, <1>4 DEF Disconnect, ClientOffline, ActivityEvents
  <2>2. registry'[c] \in {registry[c], Gone}
    BY <1>1, <1>4 DEF Disconnect, ClientOffline
  <2>3. QED
    BY <2>1, <2>2
<1>5. ASSUME NEW d \in Clients, MessageIn(d) \/ Subscribe(d) \/ Unsubscribe(d)
      PROVE  \/ /\ registry'[c] = registry[c]
                /\ active_at'[c] = active_at[c]
             \/ /\ registry[c] # Gone
                /\ registry'[c] = Touched(registry[c], now)
                /\ active_at'[c] = now
  <2>1. active_at'[c] = IF c = d THEN now ELSE active_at[c]
    BY <1>2, <1>5 DEF MessageIn, Subscribe, Unsubscribe, Activity,
                      ActivityEvents
  <2>2. /\ registry[d] # Gone
        /\ registry'[c] = IF c = d THEN Touched(registry[c], now)
                          ELSE registry[c]
    BY <1>1, <1>5 DEF MessageIn, Subscribe, Unsubscribe, Activity
  <2>3. QED
    BY <2>1, <2>2
<1>6. ASSUME NEW d \in Clients, BasicAuth(d)
      PROVE  registry'[c] = registry[c] /\ active_at'[c] = active_at[c]
  BY <1>2, <1>6 DEF BasicAuth, ActivityEvents
<1>7. QED
  BY <1>3, <1>4, <1>5, <1>6 DEF TRegistryStep, RegistryStep

(* A callback ends the silence of its client or leaves it as it was.        *)
LEMMA CallbackReports ==
  ASSUME TTypeOK, Reports, SilenceIsReported, TRegistryStep
  PROVE  Reports' /\ SilenceIsReported'
<1>1. /\ now' = now /\ last_tick' = last_tick /\ gap_at' = gap_at
      /\ now \in Nat
  BY RegistryStepKeeps DEF TRegistryStep, TTypeOK, TypeOK
<1>2. ASSUME NEW c \in Clients
      PROVE  /\ active_at'[c] <= now
             /\ registry'[c] # Gone =>
                  /\ registry'[c].keepalive \in KeepAlives
                  /\ registry'[c].last_activity_ts = active_at'[c]
                  /\ registry'[c].last_ka_gap_emit_ts \in {0, gap_at[c]}
             /\ \/ active_at'[c] = now
                \/ registry'[c] = Gone
                \/ registry'[c] = registry[c] /\ active_at'[c] = active_at[c]
  <2>1. PICK n : n = registry[c]
    OBVIOUS
  <2>2. /\ n \in Node \cup {Gone}
        /\ active_at[c] <= now
        /\ n # Gone => /\ n.keepalive \in KeepAlives
                       /\ n.last_activity_ts = active_at[c]
                       /\ n.last_ka_gap_emit_ts \in {0, gap_at[c]}
    BY <2>1 DEF TTypeOK, TypeOK, Reports
  <2>3. CASE registry'[c] = n /\ active_at'[c] = active_at[c]
    BY <2>1, <2>2, <2>3
  <2>4. CASE registry'[c] = Gone /\ active_at'[c] = active_at[c]
    BY <2>2, <2>4
  <2>5. CASE /\ \E k \in KeepAlives : registry'[c] = Connected(k, now)
             /\ active_at'[c] = now
    BY <1>1, <2>5 DEF Connected
  <2>6. CASE /\ n # Gone
             /\ registry'[c] = Touched(n, now)
             /\ active_at'[c] = now
    <3>1. registry'[c] = [n EXCEPT !.last_activity_ts = now]
      BY <2>6 DEF Touched
    <3>2. /\ registry'[c].keepalive = n.keepalive
          /\ registry'[c].last_activity_ts = now
          /\ registry'[c].last_ka_gap_emit_ts = n.last_ka_gap_emit_ts
      BY <2>2, <2>6, <3>1 DEF Node
    <3>3. QED
      BY <1>1, <2>2, <2>6, <3>2
  <2>7. QED
    BY <2>1, <2>3, <2>4, <2>5, <2>6, Callbacks
<1>3. Reports'
  BY <1>1, <1>2 DEF Reports
<1>4. SilenceIsReported'
  <2>1. SUFFICES ASSUME NEW c \in Clients, registry'[c] # Gone,
                        registry'[c].keepalive > 0,
                        last_tick' = now',
                        2 * (now' - active_at'[c]) > 3 * registry'[c].keepalive
                 PROVE  /\ gap_at'[c] > active_at'[c]
                        /\ now' - gap_at'[c] < registry'[c].keepalive
    <3>1. DOMAIN registry' = Clients
      <4>1. TypeOK'
        BY TTypeStep DEF TNext, TTypeOK
      <4>2. QED
        BY <4>1 DEF TypeOK
    <3>2. QED
      BY <3>1 DEF SilenceIsReported, Registered
  <2>2. registry'[c].keepalive \in Nat
    BY <1>2, <2>1
  <2>3. CASE active_at'[c] = now
    BY <1>1, <2>1, <2>2, <2>3
  <2>4. CASE registry'[c] = registry[c] /\ active_at'[c] = active_at[c]
    BY <1>1, <2>1, <2>4 DEF SilenceIsReported, Registered, TTypeOK, TypeOK
  <2>5. QED
    BY <1>2, <2>1, <2>3, <2>4
<1>5. QED
  BY <1>3, <1>4

(* When the clock moves, no TICK has looked at it yet.                      *)
LEMMA AgedReports ==
  ASSUME TTypeOK, Reports, Advance, UNCHANGED traffic
  PROVE  Reports' /\ SilenceIsReported'
<1>1. /\ now \in Nat /\ now' = now + 1
      /\ last_tick \in Nat /\ last_tick' = last_tick
      /\ registry' = registry /\ active_at' = active_at /\ gap_at' = gap_at
      /\ active_at \in [Clients -> Nat] /\ gap_at \in [Clients -> Nat]
  BY DEF Advance, traffic, TTypeOK, TypeOK
<1>2. Reports'
  BY <1>1 DEF Reports
<1>3. last_tick' # now'
  BY <1>1 DEF Reports
<1>4. QED
  BY <1>2, <1>3 DEF SilenceIsReported

(* Steps that touch neither clock, nodes nor history.                       *)
LEMMA SameReports ==
  ASSUME Reports, SilenceIsReported,
         UNCHANGED <<now, last_tick, registry, active_at, gap_at>>
  PROVE  Reports' /\ SilenceIsReported'
BY DEF Reports, SilenceIsReported, Registered

(* No step leaves a silence unreported.                                     *)
LEMMA ReportsStep ==
  ASSUME TTypeOK, Reports, SilenceIsReported, TNext
  PROVE  Reports' /\ SilenceIsReported'
<1>1. CASE \E c \in Clients, access \in Access, topic \in Topic :
             TAclCheck(c, access, topic)
  <2>1. UNCHANGED <<now, last_tick, registry, active_at, gap_at>>
    BY <1>1 DEF TAclCheck, AclCheck
  <2>2. QED
    BY <2>1, SameReports
<1>2. CASE TTick
  BY <1>2, TickReports
<1>3. CASE TRegistryStep
  BY <1>3, CallbackReports
<1>4. CASE Advance /\ UNCHANGED traffic
  BY <1>4, AgedReports
<1>5. CASE WorkerStep /\ UNCHANGED traffic
  <2>1. UNCHANGED <<now, last_tick, registry, active_at, gap_at>>
    BY <1>5 DEF WorkerStep, WriteVerdict, traffic
  <2>2. QED
    BY <2>1, SameReports
<1>6. QED
  BY <1>1, <1>2, <1>3, <1>4, <1>5 DEF TNext

-----------------------------------------------------------------------------
(* The invariant.                                                           *)

(* Nobody is connected yet.                                                 *)
LEMMA TInitial ==
  ASSUME TInit
  PROVE  TIInv
<1>1. TypeOK /\ Init
  BY InitType DEF TInit
<1>2. TTypeOK
  BY <1>1 DEF TInit, TTypeOK, NoWindow, Window
<1>3. \A c \in Clients : verdict_cache[c] = Absent /\ registry[c] = Gone
  BY <1>1 DEF Init
<1>4. Buckets
  BY <1>3 DEF Buckets, Bucket, Throttled
<1>5. Reports
  BY <1>1, <1>3 DEF TInit, Init, Reports
<1>6. SilenceIsReported
  BY <1>1, <1>3 DEF SilenceIsReported, Registered, Init
<1>7. QED
  BY <1>2, <1>4, <1>5, <1>6 DEF TIInv

(* All of it, always.                                                       *)
LEMMA TInvariant == TSpec => []TIInv
<1>1. TInit => TIInv
  BY TInitial
<1>2. TIInv /\ [TNext]_tvars => TIInv'
  <2>1. ASSUME TIInv, TNext
        PROVE  TIInv'
    BY <2>1, TTypeStep, BucketsStep, ReportsStep DEF TIInv
  <2>2. ASSUME TIInv, UNCHANGED tvars
        PROVE  TIInv'
    <3>1. UNCHANGED vars /\ UNCHANGED traffic
      BY <2>2 DEF tvars
    <3>2. TTypeOK'
      BY <2>2, <3>1 DEF TIInv, TTypeOK, TypeOK, vars, pluginVars, traffic
    <3>3. Buckets'
      BY <2>2, <3>1, SameBuckets DEF TIInv, vars, pluginVars, traffic
    <3>4. Reports' /\ SilenceIsReported'
      BY <2>2, <3>1, SameReports DEF TIInv, vars, pluginVars, traffic
    <3>5. QED
      BY <3>2, <3>3, <3>4 DEF TIInv
  <2>3. QED
    BY <2>1, <2>2
<1>3. QED
  BY <1>1, <1>2, PTL DEF TSpec

-----------------------------------------------------------------------------
(* What the clients can rely on.                                            *)

(* A throttled client gets through at most its burst and its rate           *)
(* (verdict_cache_try_consume_token), whatever the refresher re-reads.      *)
THEOREM ThrottleBoundsTraffic == TSpec => []BurstBound
<1>1. TIInv => BurstBound
  <2>1. SUFFICES ASSUME TIInv, NEW c \in Clients, Throttled(verdict_cache[c])
                 PROVE  window[c].sent <=
                          window[c].budget
                            + verdict_cache[c].rate * (now - window[c].start)
    BY DEF BurstBound
  <2>2. PICK e : e = verdict_cache[c]
    OBVIOUS
  <2>3. PICK w : w = window[c]
    OBVIOUS
  <2>4. PICK r : r = e.rate
    OBVIOUS
  <2>5. PICK a : a = e.tokens_ts
    OBVIOUS
  <2>6. PICK b : b = w.start
    OBVIOUS
  <2>7. /\ e \in Entry /\ w \in Window /\ now \in Nat
        /\ a <= now /\ Bucket(e, w, now, served_at[c])
    BY <2>1, <2>2, <2>3, <2>5
       DEF TIInv, TTypeOK, TypeOK, Buckets, Throttled
  <2>8. /\ r \in Nat /\ a \in Nat /\ b \in Nat /\ e.tokens \in Nat
        /\ w.sent \in Nat /\ w.budget \in Nat
    BY <2>4, <2>5, <2>6, <2>7 DEF Entry, Window
  <2>9. /\ b <= now
        /\ a < b => w.sent = 0
        /\ a >= b => e.tokens + w.sent <= w.budget + r * (a - b)
    BY <2>1, <2>2, <2>4, <2>5, <2>6, <2>7 DEF Bucket
  <2>10. r * (now - b) \in Nat
    <3>1. now - b \in Nat
      BY <2>7, <2>8, <2>9
    <3>2. QED
      BY <2>8, <3>1
  <2>11. CASE a < b
    BY <2>3, <2>8, <2>9, <2>10, <2>11, <2>2, <2>4, <2>6
  <2>12. CASE a >= b
    <3>1. (now - a) * r \in Nat
      <4>1. now - a \in Nat
        BY <2>7, <2>8
      <4>2. QED
        BY <2>8, <4>1
    <3>2. (now - a) * r + r * (a - b) = r * (now - b)
      BY <2>7, <2>8, Distributed
    <3>3. a - b \in Nat
      BY <2>8, <2>12
    <3>4. r * (a - b) \in Nat
      BY <2>8, <3>3
    <3>5. w.sent <= w.budget + r * (a - b)
      BY <2>8, <2>9, <2>12, <3>4
    <3>6. w.sent <= w.budget + r * (now - b)
      BY <2>8, <2>10, <3>1, <3>2, <3>4, <3>5
    <3>7. QED
      BY <2>2, <2>3, <2>4, <2>6, <3>6
  <2>13. QED
    BY <2>8, <2>11, <2>12
<1>2. QED
  BY <1>1, TInvariant, PTL

(* Nor is it starved: refused at a later reading of the clock, it was       *)
(* served at this very reading (handle_acl_check in enforce mode).          *)
THEOREM ThrottleServes == TSpec => []ThrottledNotStarved
<1>1. TIInv => ThrottledNotStarved
  <2>1. SUFFICES ASSUME TIInv, NEW c \in Clients,
                        Throttled(verdict_cache[c]),
                        verdict_cache[c].rate >= 1,
                        now > window[c].start,
                        Answer(c, "write", "other") = "deny"
                 PROVE  served_at[c] = now
    BY DEF ThrottledNotStarved
  <2>2. PICK e : e = verdict_cache[c]
    OBVIOUS
  <2>3. PICK w : w = window[c]
    OBVIOUS
  <2>4. PICK r : r = e.rate
    OBVIOUS
  <2>5. /\ e \in Entry /\ w \in Window /\ now \in Nat
        /\ e.tokens_ts <= now /\ Bucket(e, w, now, served_at[c])
    BY <2>1, <2>2, <2>3
       DEF TIInv, TTypeOK, TypeOK, Buckets, Throttled
  <2>6. r \in Nat /\ e.tokens_ts \in Nat /\ e.tokens \in Nat /\ w.start \in Nat
    BY <2>4, <2>5 DEF Entry, Window
  <2>7. ~HasToken(e, now)
    BY <2>1, <2>2 DEF Answer, Denies, Throttled, THROTTLE
  <2>8. e.tokens_ts = now
    <3>1. SUFFICES ASSUME now > e.tokens_ts
                   PROVE  HasToken(e, now)
      BY <2>5, <2>6, <2>7
    <3>2. PICK m : m = (now - e.tokens_ts) * r
      OBVIOUS
    <3>3. m \in Nat /\ m >= 1
      <4>1. now - e.tokens_ts \in Nat /\ now - e.tokens_ts >= 1
        BY <2>5, <2>6, <3>1
      <4>2. r >= 1
        BY <2>1, <2>2, <2>4
      <4>3. QED
        BY <2>6, <3>2, <4>1, <4>2
    <3>4. Refilled(e, now).tokens =
            IF e.tokens + m > 2 * r THEN 2 * r ELSE e.tokens + m
      BY <2>4, <2>5, <3>1, <3>2 DEF Refilled, Entry
    <3>5. 2 * r >= 1 /\ e.tokens + m >= 1
      BY <2>1, <2>2, <2>4, <2>6, <3>3
    <3>6. QED
      BY <3>4, <3>5 DEF HasToken
  <2>9. QED
    BY <2>1, <2>2, <2>3, <2>5, <2>8 DEF Bucket
<1>2. QED
  BY <1>1, TInvariant, PTL

(* Nobody stays silent unreported (scan_ka_gaps).                           *)
THEOREM SilenceReported == TSpec => []SilenceIsReported
<1>1. TIInv => SilenceIsReported
  BY DEF TIInv
<1>2. QED
  BY <1>1, TInvariant, PTL
=============================================================================
