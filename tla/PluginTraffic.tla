--------------------------- MODULE PluginTraffic ----------------------------
(***************************************************************************)
(* What the plugin promises a client about its traffic: how much a         *)
(* throttled client can publish and at least must be able to, and when a   *)
(* silent client is reported.  History variables over Plugin follow one    *)
(* throttle window per client (a period at one THROTTLE rate) and the      *)
(* times of the client's own events and of the reports about it.           *)
(***************************************************************************)
EXTENDS Plugin

VARIABLES
  window,      (* start, budget at start, writes admitted since             *)
  served_at,   (* when a throttled write was last admitted                  *)
  active_at,   (* last connect, publish, subscribe or unsubscribe           *)
  gap_at       (* last ka_gap event                                         *)

traffic == <<window, served_at, active_at, gap_at>>
tvars == <<vars, traffic>>

Throttled(e) == e # Absent /\ e.level = THROTTLE
SameThrottle(e, f) == Throttled(e) /\ Throttled(f) /\ e.rate = f.rate

NoWindow == [start |-> 0, budget |-> 0, sent |-> 0]

Larger(a, b) == IF a > b THEN a ELSE b

(* A window opens when a client becomes throttled or its rate changes.      *)
WindowAfter(c, admitted) ==
  LET e == verdict_cache[c]
      f == verdict_cache'[c]
  IN IF ~Throttled(f) THEN NoWindow
     ELSE IF SameThrottle(e, f)
          THEN [window[c] EXCEPT !.sent = @ + admitted]
          ELSE [start |-> now, budget |-> Larger(f.tokens, 2 * f.rate),
                sent |-> 0]

TInit ==
  /\ Init
  /\ window = [c \in Clients |-> NoWindow]
  /\ served_at = [c \in Clients |-> 0]
  /\ active_at = [c \in Clients |-> 0]
  /\ gap_at = [c \in Clients |-> 0]

(* The write is admitted against the bucket.                                *)
Admitted(c, access, topic) ==
  /\ Throttled(verdict_cache[c])
  /\ access = "write"
  /\ ~Denies(verdict_cache[c], access, topic, now)

TAclCheck(c, access, topic) ==
  LET n == IF Admitted(c, access, topic) THEN 1 ELSE 0 IN
  /\ AclCheck(c, access, topic)
  /\ window' = [window EXCEPT ![c] = WindowAfter(c, n)]
  /\ served_at' = [served_at EXCEPT ![c] = IF n = 1 THEN now ELSE @]
  /\ UNCHANGED <<active_at, gap_at>>

TTick ==
  /\ DryTick \/ RefreshTick
  /\ window' = [c \in Clients |-> WindowAfter(c, 0)]
  /\ gap_at' = [c \in Clients |->
       IF Event("ka_gap", c) \in emitted' THEN now ELSE gap_at[c]]
  /\ UNCHANGED <<served_at, active_at>>

ActivityEvents == {"connect", "publish", "subscribe", "unsubscribe"}

TRegistryStep ==
  /\ RegistryStep
  /\ active_at' = [c \in Clients |->
       IF \E name \in ActivityEvents : Event(name, c) \in emitted'
       THEN now ELSE active_at[c]]
  /\ UNCHANGED <<window, served_at, gap_at>>

TNext ==
  \/ \E c \in Clients, access \in Access, topic \in Topic :
       TAclCheck(c, access, topic)
  \/ TTick
  \/ TRegistryStep
  \/ (Advance \/ WorkerStep) /\ UNCHANGED traffic

TSpec == TInit /\ [][TNext]_tvars

-----------------------------------------------------------------------------
(* Over a period at one THROTTLE rate a client gets through at most the     *)
(* burst it started with (twice the rate, or what an earlier higher rate    *)
(* left in its bucket) and the rate for the time elapsed, whatever the      *)
(* refresher re-reads meanwhile (verdict_cache_try_consume_token).          *)
BurstBound ==
  \A c \in Clients :
    LET e == verdict_cache[c] IN
    Throttled(e) =>
      window[c].sent <= window[c].budget + e.rate * (now - window[c].start)

(* A client throttled at a rate of at least one since an earlier reading of *)
(* the clock is refused a write only if another one was admitted at this    *)
(* very reading: refreshes and refusals do not starve it.                   *)
ThrottledNotStarved ==
  \A c \in Clients :
    LET e == verdict_cache[c] IN
    (/\ Throttled(e)
     /\ e.rate >= 1
     /\ now > window[c].start
     /\ Answer(c, "write", "other") = "deny") => served_at[c] = now

(* After every TICK a connected client silent for over one and a half       *)
(* keep-alives has been reported during its present silence and within the  *)
(* last keep-alive.                                                         *)
SilenceIsReported ==
  \A c \in Registered(registry) :
    (/\ registry[c].keepalive > 0
     /\ last_tick = now
     /\ 2 * (now - active_at[c]) > 3 * registry[c].keepalive) =>
       /\ gap_at[c] > active_at[c]
       /\ now - gap_at[c] < registry[c].keepalive
=============================================================================
