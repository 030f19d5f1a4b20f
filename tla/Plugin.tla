------------------------------- MODULE Plugin -------------------------------
(***************************************************************************)
(* The Mosquitto plugin (plugin/src/plugin.c) seen from the broker's main  *)
(* thread: every registered callback is one action, because Mosquitto runs *)
(* them one at a time to completion.  The only other thread, the emitter,  *)
(* shares nothing but the event ring with them (module EventPipe); here an *)
(* event is put in `emitted', what the last callback pushed.               *)
(*                                                                         *)
(* The environment is the clock, the clients, and the worker, which writes *)
(* a verdict string with a time to live into Redis (verdicts.py).          *)
(***************************************************************************)
EXTENDS VerdictCache, ClientRegistry

CONSTANTS
  Clients,         (* client identifiers                                    *)
  Modes,           (* the values of plugin_opt_mode explored                *)
  KeepAlives,      (* negotiated keep-alive intervals                       *)
  Talkers,         (* clients whose publish/subscribe events are explored   *)
  Rates,           (* rates a THROTTLE verdict may carry                    *)
  Writes,          (* levels the worker may write                           *)
  Second,          (* clock units in a second                               *)
  VerdictTTL,      (* VERDICT_TTL_S: life of a verdict in Redis             *)
  RefreshPeriod,   (* verdict_refresh_ms in clock units                     *)
  StatsPeriod,     (* TMQ_STATS_EVENT_PERIOD_S in clock units               *)
  BackoffStart,    (* TMQ_VERDICT_BACKOFF_START_MS                          *)
  BackoffCap,      (* TMQ_VERDICT_BACKOFF_CAP_MS                            *)
  TickEvery,       (* the broker fires TICK at least this often             *)
  StartTime,       (* clock reading when the plugin is loaded               *)
  MaxTime          (* bound on the clock                                    *)

AllModes == {"enforce", "monitor", "fingerprint"}

ASSUME PluginAssumption ==
  /\ Modes \subseteq AllModes
  /\ KeepAlives \subseteq Nat
  /\ Talkers \subseteq Clients
  /\ Rates \subseteq Nat \ {0}
  /\ Writes \subseteq Level
  /\ Second \in Nat \ {0}
  /\ VerdictTTL \in Nat
  /\ RefreshPeriod \in Nat
  /\ StatsPeriod \in Nat
  /\ BackoffStart \in Nat \ {0}
  /\ BackoffCap \in Nat
  /\ BackoffStart <= BackoffCap
  /\ TickEvery \in Nat \ {0}
  /\ StartTime \in Nat \ {0}
  /\ MaxTime \in Nat
  /\ \A k \in KeepAlives : k <= StartTime

VARIABLES
  now,                       (* CLOCK_REALTIME                              *)
  mode,                      (* g_state.config.mode, set once               *)
  registry,                  (* g_state.registry                            *)
  verdict_cache,             (* g_state.verdict_cache                       *)
  verdict_redis_ctx,         (* whether g_state.verdict_redis_ctx is set    *)
  verdict_backoff_ms,        (* g_state.verdict_backoff_ms                  *)
  last_verdict_refresh_ts,   (* g_state.last_verdict_refresh_ts             *)
  last_stats_emit_ts,        (* g_state.last_stats_emit_ts                  *)
  emitted,                   (* events pushed by the last callback          *)
  verdictp,                  (* Redis: tmq:verdictp:<client>                *)
  last_tick                  (* when the broker last fired TICK             *)

pluginVars == <<mode, registry, verdict_cache, verdict_redis_ctx,
                verdict_backoff_ms, last_verdict_refresh_ts,
                last_stats_emit_ts, emitted>>
vars == <<now, pluginVars, verdictp, last_tick>>

Event(name, c) == [event |-> name, client_id |-> c]
EventNames == {"connect", "disconnect", "client_offline", "publish",
               "subscribe", "unsubscribe", "auth_observe", "enforcement",
               "ka_gap"}
Events == [event : EventNames, client_id : Clients]
            \cup {[event |-> "plugin_stats"]}

(* A string in Redis, and when Redis drops it.                              *)
Stored == [packed : Verdict, until : Nat]

TypeOK ==
  /\ now \in Nat
  /\ mode \in AllModes
  /\ registry \in [Clients -> Node \cup {Gone}]
  /\ verdict_cache \in [Clients -> Entry \cup {Absent}]
  /\ verdict_redis_ctx \in BOOLEAN
  /\ verdict_backoff_ms \in BackoffStart..BackoffCap
  /\ last_verdict_refresh_ts \in Nat
  /\ last_stats_emit_ts \in Nat
  /\ emitted \subseteq Events
  /\ verdictp \in [Clients -> Stored \cup {Absent}]
  /\ last_tick \in Nat

(* mosquitto_plugin_init: memset to zero, then parse_options.               *)
Init ==
  /\ now = StartTime
  /\ mode \in Modes
  /\ registry = [c \in Clients |-> Gone]
  /\ verdict_cache = [c \in Clients |-> Absent]
  /\ verdict_redis_ctx = FALSE
  /\ verdict_backoff_ms = BackoffStart
  /\ last_verdict_refresh_ts = 0
  /\ last_stats_emit_ts = 0
  /\ emitted = {}
  /\ verdictp = [c \in Clients |-> Absent]
  /\ last_tick = StartTime

-----------------------------------------------------------------------------
(* Environment.                                                             *)

(* Time passes, never a whole TICK interval without a TICK, and Redis drops *)
(* the strings whose time to live has run out.                              *)
Advance ==
  /\ now < MaxTime
  /\ now - last_tick < TickEvery
  /\ now' = now + 1
  /\ verdictp' = [c \in Clients |->
       IF verdictp[c] # Absent /\ now' > verdictp[c].until
       THEN Absent ELSE verdictp[c]]
  /\ emitted' = {}
  /\ UNCHANGED <<mode, registry, verdict_cache, verdict_redis_ctx,
                 verdict_backoff_ms, last_verdict_refresh_ts,
                 last_stats_emit_ts, last_tick>>

(* int(expires_at): the string carries whole seconds, the time to live of   *)
(* the string does not lose the fraction.                                   *)
Truncated(t) == t - (t % Second)

(* write_verdict; policy.py gives a rate to THROTTLE verdicts only.         *)
WriteVerdict(c, level, rate) ==
  /\ (level = THROTTLE) <=> (rate # 0)
  /\ verdictp' = [verdictp EXCEPT ![c] =
       [packed |-> [level |-> level, rate |-> rate,
                    expires_at |-> Truncated(now + VerdictTTL)],
        until  |-> now + VerdictTTL]]
  /\ emitted' = {}
  /\ UNCHANGED <<now, mode, registry, verdict_cache, verdict_redis_ctx,
                 verdict_backoff_ms, last_verdict_refresh_ts,
                 last_stats_emit_ts, last_tick>>

-----------------------------------------------------------------------------
(* Callbacks that only keep the registry and report.                        *)
refreshVars == <<verdict_redis_ctx, verdict_backoff_ms,
                 last_verdict_refresh_ts, last_stats_emit_ts>>

Connect(c, keepalive) ==
  /\ registry' = [registry EXCEPT ![c] = Connected(keepalive, now)]
  /\ emitted' = {Event("connect", c)}
  /\ UNCHANGED <<now, mode, verdict_cache, refreshVars, verdictp, last_tick>>

Disconnect(c) ==
  /\ registry[c] # Gone
  /\ registry' = [registry EXCEPT ![c] = Gone]
  /\ emitted' = {Event("disconnect", c)}
  /\ UNCHANGED <<now, mode, verdict_cache, refreshVars, verdictp, last_tick>>

(* A session that outlives its connection goes offline instead.             *)
ClientOffline(c) ==
  /\ registry[c] # Gone
  /\ registry' = [registry EXCEPT ![c] = Gone]
  /\ emitted' = {Event("client_offline", c)}
  /\ UNCHANGED <<now, mode, verdict_cache, refreshVars, verdictp, last_tick>>

Activity(c, name) ==
  /\ registry[c] # Gone
  /\ registry' = [registry EXCEPT ![c] = Touched(@, now)]
  /\ emitted' = {Event(name, c)}
  /\ UNCHANGED <<now, mode, verdict_cache, refreshVars, verdictp, last_tick>>

MessageIn(c)   == Activity(c, "publish")
Subscribe(c)   == Activity(c, "subscribe")
Unsubscribe(c) == Activity(c, "unsubscribe")

(* Always defers: the broker's own authentication decides.                  *)
BasicAuth(c) ==
  /\ emitted' = {Event("auth_observe", c)}
  /\ UNCHANGED <<now, mode, registry, verdict_cache, refreshVars, verdictp,
                 last_tick>>

-----------------------------------------------------------------------------
(* A variant of Answer that enforces in monitor mode too.                   *)
AnswerInMonitorToo(c, access, topic) ==
  IF /\ mode # "fingerprint"
     /\ Denies(verdict_cache[c], access, topic, now)
  THEN "deny" ELSE "defer"

(* What handle_acl_check returns to the broker.                             *)
Answer(c, access, topic) ==
  IF /\ mode = "enforce"
     /\ Denies(verdict_cache[c], access, topic, now)
  THEN "deny" ELSE "defer"

(* handle_acl_check.  Monitor mode takes tokens as enforcement would.  An   *)
(* offline session is only ever checked for reading.                        *)
AclCheck(c, access, topic) ==
  /\ registry[c] # Gone \/ access = "read"
  /\ verdict_cache' = IF mode = "fingerprint" THEN verdict_cache
                      ELSE [verdict_cache EXCEPT ![c] =
                              AfterCheck(@, access, now)]
  /\ emitted' = {}
  /\ UNCHANGED <<now, mode, registry, refreshVars, verdictp, last_tick>>

-----------------------------------------------------------------------------
(* handle_tick: keep-alive scan, decay pass, kicks, refresh, statistics, in *)
(* that order and all at one reading of the clock.                          *)
KickTargets == {c \in Clients : MustKick(Decayed(verdict_cache[c], now))}

CacheAfterKicks ==
  [c \in Clients |-> Demoted(Decayed(verdict_cache[c], now))]

(* Mosquitto disconnects a kicked client before the call returns, and so    *)
(* runs handle_disconnect for it.                                           *)
RegistryAfterKicks ==
  [c \in Clients |-> IF c \in KickTargets THEN Gone
                     ELSE Scanned(registry[c], now)]

StatsDue == now - last_stats_emit_ts >= StatsPeriod

TickEvents ==
  {Event("ka_gap", c) : c \in {d \in Clients : KaGapDue(registry[d], now)}}
    \cup {Event("enforcement", c) : c \in KickTargets}
    \cup {Event("disconnect", c) : c \in KickTargets \cap Registered(registry)}
    \cup (IF StatsDue THEN {[event |-> "plugin_stats"]} ELSE {})

RefreshDue ==
  /\ mode # "fingerprint"
  /\ now - last_verdict_refresh_ts >= RefreshPeriod

TickBody ==
  /\ registry' = RegistryAfterKicks
  /\ emitted' = TickEvents
  /\ last_stats_emit_ts' = IF StatsDue THEN now ELSE last_stats_emit_ts
  /\ last_tick' = now
  /\ UNCHANGED <<now, mode, verdictp>>

TickNoRefresh ==
  /\ ~RefreshDue
  /\ TickBody
  /\ verdict_cache' = CacheAfterKicks
  /\ UNCHANGED <<verdict_redis_ctx, verdict_backoff_ms,
                 last_verdict_refresh_ts>>

TickNobody ==
  /\ RefreshDue
  /\ Registered(RegistryAfterKicks) = {}
  /\ TickBody
  /\ verdict_cache' = CacheAfterKicks
  /\ last_verdict_refresh_ts' = now
  /\ UNCHANGED <<verdict_redis_ctx, verdict_backoff_ms>>

NextBackoff ==
  IF 2 * verdict_backoff_ms > BackoffCap
  THEN BackoffCap ELSE 2 * verdict_backoff_ms

(* No connection and none to be had: the callback sleeps for the backoff.   *)
TickUnreachable ==
  /\ RefreshDue
  /\ Registered(RegistryAfterKicks) # {}
  /\ ~verdict_redis_ctx
  /\ TickBody
  /\ verdict_cache' = CacheAfterKicks
  /\ verdict_backoff_ms' = NextBackoff
  /\ last_verdict_refresh_ts' = now
  /\ UNCHANGED verdict_redis_ctx

(* The pipelined GETs.  `answered' are the ids whose reply came and was not *)
(* an error (Redis answers with errors while it loads its data set); a      *)
(* broken connection leaves at least one reply unread and is given up.      *)
TickRefresh(ids, answered, broken) ==
  /\ RefreshDue
  /\ ids # {}
  /\ IsSnapshot(ids, RegistryAfterKicks)
  /\ answered \subseteq ids
  /\ broken => answered # ids
  /\ TickBody
  /\ verdict_cache' = [c \in Clients |->
       IF c \in answered /\ verdictp[c] # Absent
       THEN Upsert(CacheAfterKicks[c], verdictp[c].packed, now)
       ELSE CacheAfterKicks[c]]
  /\ verdict_redis_ctx' = ~broken
  /\ verdict_backoff_ms' = IF verdict_redis_ctx THEN verdict_backoff_ms
                                                ELSE BackoffStart
  /\ last_verdict_refresh_ts' = now

-----------------------------------------------------------------------------
(* The callbacks that leave the verdict cache and Redis alone.              *)
RegistryStep ==
  \/ \E c \in Clients :
       \/ \E k \in KeepAlives : Connect(c, k)
       \/ Disconnect(c)
       \/ ClientOffline(c)
  \/ \E c \in Talkers :
       MessageIn(c) \/ Subscribe(c) \/ Unsubscribe(c) \/ BasicAuth(c)

WorkerStep ==
  \E c \in Clients, level \in Writes, rate \in Rates \cup {0} :
    WriteVerdict(c, level, rate)

AclStep ==
  \E c \in Clients, access \in Access, topic \in Topic :
    AclCheck(c, access, topic)

(* A TICK that fetches nothing.                                             *)
DryTick == TickNoRefresh \/ TickNobody \/ TickUnreachable

RefreshTick ==
  \E ids, answered \in SUBSET Clients, broken \in BOOLEAN :
    TickRefresh(ids, answered, broken)

Next == Advance \/ WorkerStep \/ RegistryStep \/ AclStep \/ DryTick \/ RefreshTick

Spec == Init /\ [][Next]_vars
=============================================================================
