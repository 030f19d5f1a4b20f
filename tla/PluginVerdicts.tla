--------------------------- MODULE PluginVerdicts ---------------------------
(***************************************************************************)
(* What the plugin's verdict cache owes the verdicts it fetched, from the  *)
(* moment they are read out of Redis to the end of the outage that follows *)
(* the last one.  Three history variables are added to Plugin; no action   *)
(* of the plugin reads them.                                               *)
(***************************************************************************)
EXTENDS Plugin

VARIABLES
  fetched,     (* the last verdict put in the cache for a client            *)
  refetched,   (* clients whose verdict was fetched since their last kick   *)
  kicked       (* clients kicked since the worker last wrote their verdict  *)

history == <<fetched, refetched, kicked>>
vvars == <<vars, history>>

VInit ==
  /\ Init
  /\ fetched = [c \in Clients |-> Absent]
  /\ refetched = {}
  /\ kicked = {}

KickHistory(got) ==
  /\ refetched' = (refetched \ KickTargets) \cup got
  /\ kicked' = kicked \cup KickTargets

VRefreshTick(ids, answered, broken) ==
  LET got == {c \in answered : verdictp[c] # Absent} IN
  /\ TickRefresh(ids, answered, broken)
  /\ fetched' = [c \in Clients |->
                   IF c \in got THEN verdictp[c].packed ELSE fetched[c]]
  /\ KickHistory(got)

VDryTick ==
  /\ DryTick
  /\ KickHistory({})
  /\ UNCHANGED fetched

VWriteVerdict(c, level, rate) ==
  /\ WriteVerdict(c, level, rate)
  /\ kicked' = kicked \ {c}
  /\ UNCHANGED <<fetched, refetched>>

VNext ==
  \/ \E ids, answered \in SUBSET Clients, broken \in BOOLEAN :
       VRefreshTick(ids, answered, broken)
  \/ VDryTick
  \/ \E c \in Clients, level \in Writes, rate \in Rates \cup {0} :
       VWriteVerdict(c, level, rate)
  \/ /\ Advance \/ RegistryStep \/ AclStep
     /\ UNCHANGED history

VSpec == VInit /\ [][VNext]_vvars

VTypeOK ==
  /\ TypeOK
  /\ fetched \in [Clients -> Verdict \cup {Absent}]
  /\ refetched \subseteq Clients
  /\ kicked \subseteq Clients

-----------------------------------------------------------------------------
Fresh(c) == fetched[c] # Absent /\ now <= fetched[c].expires_at

Kicks(c) == Event("enforcement", c) \in emitted'

(* While the last verdict fetched for a client has not expired, the cache   *)
(* holds that verdict and no other, whatever ticks, kicks, outages,         *)
(* disconnections and reconnections came since; a KICK may have become the  *)
(* QUARANTINE it is demoted to.                                             *)
CacheTracksFetched ==
  \A c \in Clients : Fresh(c) =>
    /\ verdict_cache[c] # Absent
    /\ verdict_cache[c].expires_at = fetched[c].expires_at
    /\ \/ verdict_cache[c].level = fetched[c].level
       \/ /\ fetched[c].level = KICK
          /\ verdict_cache[c].level = QUARANTINE

(* Steps an entry of this level takes to leave the cache.                   *)
StepsOut(level) == IF level = ALLOW THEN 1 ELSE level

(* How long an outage can keep a fetched verdict alive: it may be read up   *)
(* to a second after the time written in it, the first decay may then wait  *)
(* for DecayGap, each later one for a renewed life, and each for TICK.      *)
OutageDeadline(v) ==
  v.expires_at + (Second - 1) + DecayGap + (TickEvery - 1)
    + (StepsOut(v.level) - 1) * (DecayRenew + TickEvery)

(* Fail-open under a Redis outage: a client is forgotten by a deadline set  *)
(* by the last verdict fetched for it, so no outage of any length keeps it  *)
(* contained (verdict_cache_decay_pass).                                    *)
OutageFailsOpen ==
  \A c \in Clients : verdict_cache[c] # Absent =>
    fetched[c] # Absent /\ now <= OutageDeadline(fetched[c])

(* The plugin denies nothing to a client for which it never fetched a       *)
(* verdict of THROTTLE or worse: neither decay, nor kicks, nor an outage    *)
(* make a milder client deniable.                                           *)
DenialsAreJustified ==
  \A c \in Clients, access \in Access, topic \in Topic :
    Answer(c, access, topic) = "deny" =>
      fetched[c] # Absent /\ fetched[c].level >= THROTTLE

(* In enforce mode a client whose last fetched verdict is QUARANTINE or     *)
(* KICK publishes to tmq/quarantine/# and nowhere else until the verdict    *)
(* expires, also after it was kicked and came back.                         *)
ContainmentHolds ==
  \A c \in Clients :
    (mode = "enforce" /\ Fresh(c) /\ fetched[c].level >= QUARANTINE) =>
      /\ Answer(c, "write", "other") = "deny"
      /\ Answer(c, "subscribe", "other") = "deny"
      /\ Answer(c, "write", "quarantine") = "defer"

(* Every kick is paid for by a fetch made since the previous kick of that   *)
(* client: the local demotion alone never kicks twice.                      *)
KickNeedsFetch ==
  [][\A c \in Clients : Kicks(c) => c \in refetched]_vvars

(* A KICK entry whose verdict has not expired leaves its level only by      *)
(* kicking the client: decay running before the kicks does not swallow it.  *)
KickIsNotSkipped ==
  [][\A c \in Clients :
       (/\ MustKick(verdict_cache[c])
        /\ now <= verdict_cache[c].expires_at
        /\ verdict_cache'[c] # verdict_cache[c]) => Kicks(c)]_vvars

(* In fingerprint mode no verdict is ever fetched or held.                  *)
FingerprintHoldsNothing ==
  mode = "fingerprint" =>
    /\ \A c \in Clients : verdict_cache[c] = Absent
    /\ ~verdict_redis_ctx

-----------------------------------------------------------------------------
(* What the documentation says and the code does not do.                    *)

(* SPEC.md 6.2: in monitor mode kicks are replaced by log lines.            *)
MonitorNeverKicks ==
  mode = "monitor" =>
    \A c \in Clients : Event("enforcement", c) \notin emitted

(* verdict_cache.h: the local demotion keeps a reconnect storm from being   *)
(* re-kicked, so one verdict kicks a client once.                           *)
KickOncePerVerdict ==
  [][\A c \in Clients : Kicks(c) => c \notin kicked]_vvars

(* verdict_cache.h: an entry whose verdict has expired loses one level      *)
(* every DecayGap until it is removed, each step waiting at most for TICK.  *)
DecaysEveryGap ==
  \A c \in Clients : verdict_cache[c] # Absent =>
    now <= fetched[c].expires_at + (Second - 1)
             + StepsOut(fetched[c].level) * (DecayGap + TickEvery)

(* SPEC.md 5.4: a THROTTLE client is served at a rate of at least one.      *)
ThrottledIsServed ==
  \A c \in Clients :
    (verdict_cache[c] # Absent /\ verdict_cache[c].level = THROTTLE) =>
      verdict_cache[c].rate >= 1
=============================================================================
