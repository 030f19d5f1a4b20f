------------------------------- MODULE Policy -------------------------------
(***************************************************************************)
(* The worker's PolicyEngine (tmq_worker/policy.py): the graduated verdict *)
(* level of each client, with its hysteresis, as trust scores of closed    *)
(* windows arrive.  Trust scores and thresholds are hundredths, rates are  *)
(* hundredths of a packet per second.  The engine's state lives in memory  *)
(* only, so a restart of the worker forgets it.                            *)
(***************************************************************************)
EXTENDS Integers, Sequences

CONSTANTS
  Clients,
  Trusts,             (* trust scores a closed window may get               *)
  Baselines,          (* baseline publish rates, packets per second         *)
  Watch, Throttle, Quarantine, Kick, KickSingle,   (* thresholds            *)
  Margin,             (* hysteresis.margin                                  *)
  DeescalateWindows   (* hysteresis.deescalate_windows                      *)

ALLOW      == 0
WATCH      == 1
THROTTLE   == 2
QUARANTINE == 3
KICK       == 4
VerdictLevel == ALLOW..KICK

(* The thresholds of config.py and tmq.yaml are ordered; no code checks it. *)
ASSUME PolicyAssumption ==
  /\ Trusts \subseteq 0..100
  /\ Baselines \subseteq Nat
  /\ {Watch, Throttle, Quarantine, Kick, KickSingle} \subseteq Nat
  /\ Watch < Throttle
  /\ Throttle < Quarantine
  /\ Quarantine < Kick
  /\ Kick < KickSingle
  /\ Margin \in Nat
  /\ DeescalateWindows \in Nat \ {0}

VARIABLES
  level,                        (* ClientPolicyState of each client ...     *)
  consecutive_below,
  consecutive_kick_threshold,
  verdict,                      (* the last Verdict returned, or none       *)
  windows                       (* history: the windows evaluated so far    *)

state == <<level, consecutive_below, consecutive_kick_threshold>>
vars == <<state, verdict, windows>>

Window == [trust : 0..100, is_learning : BOOLEAN]
Verdict == [level : VerdictLevel, rate : Nat]
NoVerdict == [level |-> ALLOW, rate |-> 0]

TypeOK ==
  /\ level \in [Clients -> VerdictLevel]
  /\ consecutive_below \in [Clients -> Nat]
  /\ consecutive_kick_threshold \in [Clients -> Nat]
  /\ verdict \in [Clients -> Verdict]
  /\ windows \in [Clients -> Seq(Window)]

(* setdefault(client_id, ClientPolicyState()): an unknown client is one in  *)
(* this state.                                                              *)
Init ==
  /\ level = [c \in Clients |-> ALLOW]
  /\ consecutive_below = [c \in Clients |-> 0]
  /\ consecutive_kick_threshold = [c \in Clients |-> 0]
  /\ verdict = [c \in Clients |-> NoVerdict]
  /\ windows = [c \in Clients |-> <<>>]

-----------------------------------------------------------------------------
(* _raw_target_level                                                        *)
RawTargetLevel(trust) ==
  CASE trust >= Kick -> KICK
    [] trust >= Quarantine /\ trust < Kick -> QUARANTINE
    [] trust >= Throttle /\ trust < Quarantine -> THROTTLE
    [] trust >= Watch /\ trust < Throttle -> WATCH
    [] trust < Watch -> ALLOW

(* _lower_bound_for                                                         *)
LowerBoundFor(l) ==
  CASE l = WATCH -> Watch
    [] l = THROTTLE -> Throttle
    [] l = QUARANTINE -> Quarantine
    [] l = KICK -> Kick
    [] l = ALLOW -> 0

(* Variant of LearningCap: no cap.                                          *)
LearningCapNone(trust, is_learning) == RawTargetLevel(trust)

(* The new-client cap of evaluate: WATCH at most below the hard ceiling.    *)
LearningCap(trust, is_learning) ==
  IF /\ is_learning
     /\ trust < KickSingle
     /\ RawTargetLevel(trust) > WATCH
  THEN WATCH
  ELSE RawTargetLevel(trust)

(* A window in [Kick, KickSingle) that asks for KICK only counts towards it.*)
KickGated(trust, is_learning) ==
  LearningCap(trust, is_learning) = KICK /\ trust < KickSingle

(* Variant of NextKickCount: a calm window in between does not reset.       *)
NextKickCountSticky(trust, is_learning, n) ==
  IF KickGated(trust, is_learning) THEN n + 1
  ELSE IF trust >= KickSingle THEN 1 ELSE n

NextKickCount(trust, is_learning, n) ==
  IF KickGated(trust, is_learning) THEN n + 1
  ELSE IF trust >= KickSingle THEN 1 ELSE 0

(* The target level after the learning cap and the KICK gate.               *)
Target(trust, is_learning, n) ==
  IF KickGated(trust, is_learning) /\ n + 1 < 2
  THEN QUARANTINE
  ELSE LearningCap(trust, is_learning)

(* Variants of NextBelow: a window back above the bound does not reset the  *)
(* count; only windows that ask for a level above ALLOW count.              *)
NextBelowSticky(l, target, trust, n) ==
  IF target < l /\ trust < LowerBoundFor(l) - Margin THEN n + 1 ELSE n

NextBelowNotAllow(l, target, trust, n) ==
  IF target < l /\ target > ALLOW /\ trust < LowerBoundFor(l) - Margin
  THEN n + 1 ELSE 0

(* consecutive_below before the level moves.                                *)
NextBelow(l, target, trust, n) ==
  IF target < l /\ trust < LowerBoundFor(l) - Margin THEN n + 1 ELSE 0

(* Escalation is immediate, de-escalation waits for enough windows below.   *)
NextLevel(l, target, below) ==
  IF target > l \/ (target < l /\ below >= DeescalateWindows)
  THEN target ELSE l

(* The rate of a THROTTLE verdict, in hundredths.                           *)
RateFor(l, trust, baseline) ==
  IF l # THROTTLE THEN 0
  ELSE IF baseline * (100 - trust) > 100 THEN baseline * (100 - trust) ELSE 100

-----------------------------------------------------------------------------
Evaluate(c, trust, baseline, is_learning) ==
  LET target == Target(trust, is_learning, consecutive_kick_threshold[c])
      below  == NextBelow(level[c], target, trust, consecutive_below[c])
      l      == NextLevel(level[c], target, below)
  IN
  /\ level' = [level EXCEPT ![c] = l]
  /\ consecutive_below' =
       [consecutive_below EXCEPT ![c] = IF l = level[c] THEN below ELSE 0]
  /\ consecutive_kick_threshold' =
       [consecutive_kick_threshold EXCEPT
          ![c] = NextKickCount(trust, is_learning, @)]
  /\ verdict' = [verdict EXCEPT
       ![c] = [level |-> l, rate |-> RateFor(l, trust, baseline)]]
  /\ windows' = [windows EXCEPT
       ![c] = Append(@, [trust |-> trust, is_learning |-> is_learning])]

(* The process restarts: PolicyEngine() starts from no client at all.       *)
Restart ==
  /\ level' = [c \in Clients |-> ALLOW]
  /\ consecutive_below' = [c \in Clients |-> 0]
  /\ consecutive_kick_threshold' = [c \in Clients |-> 0]
  /\ verdict' = [c \in Clients |-> NoVerdict]
  /\ windows' = [c \in Clients |-> <<>>]

Next ==
  \/ \E c \in Clients, trust \in Trusts, baseline \in Baselines,
        is_learning \in BOOLEAN : Evaluate(c, trust, baseline, is_learning)
  \/ Restart

Spec == Init /\ [][Next]_vars

-----------------------------------------------------------------------------
Count(c) == Len(windows[c])

(* The levels of c given up by this step, and those taken.                  *)
StepsDown(c) == level'[c] < level[c] /\ windows'[c] # <<>>
StepsToKick(c) == level'[c] = KICK /\ level[c] # KICK

(* The last m windows of c after this step all lie below the bound of the   *)
(* level of c before it, less the margin.                                   *)
WindowsBelow(c, m) ==
  LET n == Len(windows'[c]) IN
  /\ n >= m
  /\ \A i \in (n - m + 1)..n :
       windows'[c][i].trust < LowerBoundFor(level[c]) - Margin

TwoKickWindows(c) ==
  LET n == Len(windows'[c]) IN
  /\ n >= 2
  /\ windows'[c][n].trust >= Kick
  /\ windows'[c][n - 1].trust >= Kick

CeilingWindow(c) == windows'[c][Len(windows'[c])].trust >= KickSingle

(* Every de-escalation was earned by DeescalateWindows windows in a row     *)
(* (this one included) below the bound of the level given up, less the      *)
(* margin; the restart, which forgets the client, aside.                    *)
DeescalationIsEarned ==
  [][\A c \in Clients :
       StepsDown(c) => WindowsBelow(c, DeescalateWindows)]_vars

(* A client reaches KICK on a window at the single-window ceiling or on two *)
(* windows in a row at the kick threshold, never on one noisy window.       *)
KickIsEarned ==
  [][\A c \in Clients :
       StepsToKick(c) => CeilingWindow(c) \/ TwoKickWindows(c)]_vars

(* A client still in its learning period is never enforced on, whatever its *)
(* scores, unless one of them reached the hard ceiling.                     *)
LearnersAreNotEnforced ==
  \A c \in Clients :
    (\A i \in 1..Count(c) : /\ windows[c][i].is_learning
                            /\ windows[c][i].trust < KickSingle)
      => level[c] <= WATCH

(* Enough windows in a row below every bound clear a client completely,     *)
(* from whatever level and whatever count it started.                       *)
CalmClientIsCleared ==
  \A c \in Clients :
    (/\ Count(c) >= DeescalateWindows
     /\ \A i \in (Count(c) - DeescalateWindows + 1)..Count(c) :
          windows[c][i].trust < Watch - Margin) => level[c] = ALLOW
=============================================================================
