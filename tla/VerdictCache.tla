---------------------------- MODULE VerdictCache ----------------------------
(***************************************************************************)
(* The plugin's verdict cache (plugin/src/verdict_cache.c) and the access  *)
(* decision taken from it (plugin/src/enforce.c).  The hash table maps a   *)
(* client to at most one entry, so a cache is a function from clients to   *)
(* an entry or Absent, and each C function is an operator on one entry.    *)
(* Time is an integer clock reading; rates and tokens are whole tokens     *)
(* per unit of that clock.  The score is carried by the code and read by   *)
(* no decision, so it is left out.                                         *)
(***************************************************************************)
EXTENDS Integers

CONSTANTS
  Absent,      (* no entry: the lookup fails                                *)
  DecayGap,    (* least time between two decay steps of an entry (60 s)     *)
  DecayRenew   (* life given to a decayed entry (120 s)                     *)

ALLOW      == 0
WATCH      == 1
THROTTLE   == 2
QUARANTINE == 3
KICK       == 4
Level      == ALLOW..KICK

(* What a decoded "level|score|expires_at|rate" string carries.             *)
Verdict == [level : Level, expires_at : Nat, rate : Nat]

Entry == [level : Level, expires_at : Nat, rate : Nat,
          tokens : Nat, tokens_ts : Nat, last_decay_ts : Nat]

ASSUME CacheAssumption ==
  /\ Absent \notin Entry
  /\ Absent \notin Verdict
  /\ DecayGap \in Nat \ {0}
  /\ DecayRenew \in Nat
  /\ DecayRenew >= DecayGap

-----------------------------------------------------------------------------
(* Variants of Upsert: one fills the bucket at every refresh, one empties   *)
(* it and restarts its clock.                                               *)
UpsertFills(e, v, t) ==
  [level |-> v.level, expires_at |-> v.expires_at, rate |-> v.rate,
   tokens |-> 2 * v.rate, tokens_ts |-> t,
   last_decay_ts |-> IF e = Absent THEN t ELSE e.last_decay_ts]

UpsertEmpties(e, v, t) ==
  [UpsertFills(e, v, t) EXCEPT !.tokens = 0]

(* verdict_cache_upsert: a new entry starts with a full bucket; an existing *)
(* one keeps its bucket and its decay clock.                                *)
Upsert(e, v, t) ==
  IF e = Absent
  THEN [level |-> v.level, expires_at |-> v.expires_at, rate |-> v.rate,
        tokens |-> 2 * v.rate, tokens_ts |-> t, last_decay_ts |-> t]
  ELSE [e EXCEPT !.level = v.level, !.expires_at = v.expires_at,
                 !.rate = v.rate]

(* A variant of Refilled without the cap at twice the rate.                 *)
RefilledUncapped(e, t) ==
  IF t > e.tokens_ts
  THEN [e EXCEPT !.tokens = @ + (t - e.tokens_ts) * e.rate, !.tokens_ts = t]
  ELSE e

(* The refill at the head of verdict_cache_try_consume_token.               *)
Refilled(e, t) ==
  IF t > e.tokens_ts
  THEN LET due == e.tokens + (t - e.tokens_ts) * e.rate
           cap == 2 * e.rate
       IN  [e EXCEPT !.tokens = IF due > cap THEN cap ELSE due,
                     !.tokens_ts = t]
  ELSE e

HasToken(e, t) == Refilled(e, t).tokens >= 1

(* verdict_cache_try_consume_token: the entry it leaves.                    *)
Consumed(e, t) ==
  IF HasToken(e, t) THEN [Refilled(e, t) EXCEPT !.tokens = @ - 1]
                    ELSE Refilled(e, t)

(* Variants of DecayDue: one that only spaces the steps out and never looks *)
(* at the expiry, and one that never finds an entry due.                    *)
DecayDueUnexpired(e, t) == t - e.last_decay_ts >= DecayGap
DecayNeverDue(e, t)     == FALSE

DecayDue(e, t) == t > e.expires_at /\ t - e.last_decay_ts >= DecayGap

(* verdict_cache_decay_pass on one entry: one level down, and out of the    *)
(* cache in the same step when that reaches ALLOW.                          *)
Decayed(e, t) ==
  IF e = Absent \/ ~DecayDue(e, t) THEN e
  ELSE IF e.level <= WATCH THEN Absent
  ELSE [e EXCEPT !.level = @ - 1, !.last_decay_ts = t,
                 !.expires_at = t + DecayRenew]

MustKick(e) == e # Absent /\ e.level = KICK

(* A variant of Demoted that leaves the entry at KICK.                      *)
DemotedNot(e) == e

(* verdict_cache_process_kicks on one entry, after its callback.            *)
Demoted(e) == IF MustKick(e) THEN [e EXCEPT !.level = QUARANTINE] ELSE e

-----------------------------------------------------------------------------
Access == {"subscribe", "write", "read"}

(* Topics are told apart only by whether tmq/quarantine/# matches them.     *)
Topic == {"quarantine", "other"}

(* A variant that looks tokens up for every access of a throttled client    *)
(* but lets a quarantined client write anywhere.                            *)
DeniesWriteLeak(e, access, topic, t) ==
  /\ e # Absent
  /\ \/ /\ e.level = THROTTLE
        /\ access = "write"
        /\ ~HasToken(e, t)
     \/ e.level > THROTTLE /\ access # "write"

(* A variant that denies whoever is merely watched.                         *)
DeniesFromWatch(e, access, topic, t) ==
  /\ e # Absent
  /\ e.level >= WATCH
  /\ ~(access = "write" /\ topic = "quarantine")

(* tmq_enforce_check answers DENY.                                          *)
Denies(e, access, topic, t) ==
  /\ e # Absent
  /\ \/ /\ e.level = THROTTLE
        /\ access = "write"
        /\ ~HasToken(e, t)
     \/ /\ e.level > THROTTLE
        /\ ~(access = "write" /\ topic = "quarantine")

(* The entry tmq_enforce_check leaves: only a throttled write takes a token.*)
AfterCheck(e, access, t) ==
  IF e # Absent /\ e.level = THROTTLE /\ access = "write"
  THEN Consumed(e, t)
  ELSE e
=============================================================================
