---------------------------- MODULE PolicyProofs ----------------------------
(***************************************************************************)
(* The properties of Policy for every set of clients, every trust score    *)
(* and every ordered set of thresholds.  The engine keeps two counters per *)
(* client where the properties speak of the windows themselves; the        *)
(* inductive invariant says what the counters know of the windows.         *)
(***************************************************************************)
EXTENDS Policy, TLAPS

(* The last m windows of a client all lie below every bound.                *)
Calm(c, m) ==
  /\ Count(c) >= m
  /\ \A i \in (Count(c) - m + 1)..Count(c) :
       windows[c][i].trust < Watch - Margin

(* consecutive_below counts windows below the bound of the present level.   *)
BelowInv ==
  \A c \in Clients :
    /\ consecutive_below[c] < DeescalateWindows
    /\ consecutive_below[c] <= Count(c)
    /\ \A i \in (Count(c) - consecutive_below[c] + 1)..Count(c) :
         windows[c][i].trust < LowerBoundFor(level[c]) - Margin

(* A nonzero kick counter remembers a window at the kick threshold.         *)
KickInv ==
  \A c \in Clients : consecutive_kick_threshold[c] > 0 =>
    Count(c) >= 1 /\ windows[c][Count(c)].trust >= Kick

(* A level kept through m calm windows has counted them.                    *)
CalmInv ==
  \A c \in Clients, m \in 0..DeescalateWindows :
    (Calm(c, m) /\ level[c] # ALLOW) => consecutive_below[c] >= m

IInv == TypeOK /\ BelowInv /\ KickInv /\ CalmInv /\ LearnersAreNotEnforced

USE PolicyAssumption

-----------------------------------------------------------------------------
(* What the helpers of evaluate return.                                     *)
LEMMA RawTargetLevelType ==
  ASSUME NEW t \in 0..100
  PROVE  /\ RawTargetLevel(t) \in VerdictLevel
         /\ RawTargetLevel(t) = KICK <=> t >= Kick
         /\ t < Watch => RawTargetLevel(t) = ALLOW
BY DEF RawTargetLevel, VerdictLevel, ALLOW, WATCH, THROTTLE, QUARANTINE, KICK

(* The lower bound of a level is a natural number.                          *)
LEMMA LowerBoundForType ==
  ASSUME NEW l \in VerdictLevel
  PROVE  /\ LowerBoundFor(l) \in Nat
         /\ l # ALLOW => LowerBoundFor(l) >= Watch
BY DEF LowerBoundFor, VerdictLevel, ALLOW, WATCH, THROTTLE, QUARANTINE, KICK

(* The target of a window is a level.                                       *)
LEMMA TargetType ==
  ASSUME NEW t \in 0..100, NEW b \in BOOLEAN, NEW n \in Nat
  PROVE  /\ Target(t, b, n) \in VerdictLevel
         /\ Target(t, b, n) = KICK => t >= Kick /\ (t >= KickSingle \/ n > 0)
         /\ (b /\ t < KickSingle) => Target(t, b, n) <= WATCH
         /\ t < Watch => Target(t, b, n) = ALLOW
<1>1. /\ LearningCap(t, b) \in VerdictLevel
      /\ LearningCap(t, b) = KICK => t >= Kick
      /\ (b /\ t < KickSingle) => LearningCap(t, b) <= WATCH
      /\ t < Watch => LearningCap(t, b) = ALLOW
  BY RawTargetLevelType
     DEF LearningCap, VerdictLevel, ALLOW, WATCH, THROTTLE, QUARANTINE, KICK
<1>2. QED
  BY <1>1 DEF Target, KickGated, VerdictLevel, ALLOW, WATCH, QUARANTINE, KICK

(* So is the level the hysteresis makes of it.                              *)
LEMMA NextLevelType ==
  ASSUME NEW l \in VerdictLevel, NEW g \in VerdictLevel, NEW n \in Nat
  PROVE  NextLevel(l, g, n) \in VerdictLevel
BY DEF NextLevel

(* The count of windows below the bound is a natural number.                *)
LEMMA NextBelowType ==
  ASSUME NEW l \in VerdictLevel, NEW g \in VerdictLevel, NEW t \in 0..100,
         NEW n \in Nat
  PROVE  /\ NextBelow(l, g, t, n) \in Nat
         /\ NextBelow(l, g, t, n) > 0 =>
              /\ NextBelow(l, g, t, n) = n + 1
              /\ g < l
              /\ t < LowerBoundFor(l) - Margin
BY LowerBoundForType DEF NextBelow, VerdictLevel, ALLOW, KICK

(* So is the count of windows at the kick threshold.                        *)
LEMMA NextKickCountType ==
  ASSUME NEW t \in 0..100, NEW b \in BOOLEAN, NEW n \in Nat
  PROVE  /\ NextKickCount(t, b, n) \in Nat
         /\ NextKickCount(t, b, n) > 0 => t >= Kick
<1>1. KickGated(t, b) => t >= Kick
  BY RawTargetLevelType DEF KickGated, LearningCap, WATCH, KICK
<1>2. QED
  BY <1>1 DEF NextKickCount

(* The rate of a verdict is not negative.                                   *)
LEMMA RateForType ==
  ASSUME NEW l \in VerdictLevel, NEW t \in 0..100, NEW r \in Nat
  PROVE  RateFor(l, t, r) \in Nat
<1>1. CASE l = THROTTLE
  <2>1. r * (100 - t) \in Int
    OBVIOUS
  <2>2. QED
    BY <1>1, <2>1 DEF RateFor
<1>2. CASE l # THROTTLE
  BY <1>2 DEF RateFor
<1>3. QED
  BY <1>1, <1>2

-----------------------------------------------------------------------------
(* The invariant holds of an engine that knows no client.                   *)
LEMMA InitIInv == Init => IInv
<1> SUFFICES ASSUME Init PROVE IInv
  OBVIOUS
<1>1. TypeOK
  BY DEF Init, TypeOK, VerdictLevel, Verdict, NoVerdict, ALLOW, KICK
<1>2. \A c \in Clients : Count(c) = 0
  BY DEF Init, Count
<1>3. BelowInv /\ KickInv
  BY <1>2 DEF Init, BelowInv, KickInv
<1>4. CalmInv /\ LearnersAreNotEnforced
  BY <1>2 DEF Init, CalmInv, LearnersAreNotEnforced, ALLOW, WATCH
<1>5. QED
  BY <1>1, <1>3, <1>4 DEF IInv

(* What one evaluation does: the target and the count of windows below it   *)
(* works with, the window it records, the state it moves the client to, and *)
(* the clients it leaves alone.                                             *)
TargetOf(c, t, b) == Target(t, b, consecutive_kick_threshold[c])
BelowOf(c, t, b) ==
  NextBelow(level[c], TargetOf(c, t, b), t, consecutive_below[c])

Recorded(c, t, b) ==
  /\ Count(c)' = Count(c) + 1
  /\ \A i \in 1..Count(c) : windows'[c][i] = windows[c][i]
  /\ windows'[c][Count(c) + 1] = [trust |-> t, is_learning |-> b]

Moved(c, t, b) ==
  /\ level'[c] = NextLevel(level[c], TargetOf(c, t, b), BelowOf(c, t, b))
  /\ consecutive_below'[c] =
       IF level'[c] = level[c] THEN BelowOf(c, t, b) ELSE 0
  /\ consecutive_kick_threshold'[c] =
       NextKickCount(t, b, consecutive_kick_threshold[c])

Kept(d) ==
  /\ level'[d] = level[d]
  /\ consecutive_below'[d] = consecutive_below[d]
  /\ consecutive_kick_threshold'[d] = consecutive_kick_threshold[d]
  /\ windows'[d] = windows[d]

(* What an evaluation reads and computes, and when it counts a window.      *)
LEMMA EvaluateValues ==
  ASSUME TypeOK, NEW c \in Clients, NEW t \in Trusts, NEW b \in BOOLEAN
  PROVE  /\ t \in 0..100
         /\ level[c] \in VerdictLevel
         /\ consecutive_below[c] \in Nat
         /\ consecutive_kick_threshold[c] \in Nat
         /\ Count(c) \in Nat
         /\ TargetOf(c, t, b) \in VerdictLevel
         /\ BelowOf(c, t, b) \in Nat
         /\ BelowOf(c, t, b) > 0 =>
              /\ BelowOf(c, t, b) = consecutive_below[c] + 1
              /\ TargetOf(c, t, b) < level[c]
              /\ t < LowerBoundFor(level[c]) - Margin
<1>1. /\ t \in 0..100
      /\ level[c] \in VerdictLevel
      /\ consecutive_below[c] \in Nat
      /\ consecutive_kick_threshold[c] \in Nat
      /\ Count(c) \in Nat
  BY DEF TypeOK, Count
<1>2. TargetOf(c, t, b) \in VerdictLevel
  BY <1>1, TargetType DEF TargetOf
<1>3. QED
  BY <1>1, <1>2, NextBelowType DEF BelowOf

(* Evaluate moves its client and leaves every other one alone.              *)
LEMMA EvaluateEffect ==
  ASSUME TypeOK, NEW c \in Clients, NEW t \in Trusts, NEW r \in Baselines,
         NEW b \in BOOLEAN, Evaluate(c, t, r, b)
  PROVE  /\ Recorded(c, t, b)
         /\ Moved(c, t, b)
         /\ \A d \in Clients \ {c} : Kept(d)
<1> DEFINE w == [trust |-> t, is_learning |-> b]
<1>1. windows' = [windows EXCEPT ![c] = Append(@, w)]
  BY DEF Evaluate
<1>2. windows[c] \in Seq(Window) /\ windows'[c] = Append(windows[c], w)
  BY <1>1 DEF TypeOK
<1>3. Recorded(c, t, b)
  BY <1>2 DEF Count, Recorded
<1>4. Moved(c, t, b)
  BY DEF Evaluate, TypeOK, Moved, TargetOf, BelowOf
<1>5. \A d \in Clients \ {c} : Kept(d)
  BY <1>1 DEF Evaluate, TypeOK, Kept
<1>6. QED
  BY <1>3, <1>4, <1>5

(* Evaluate keeps all types.                                                *)
LEMMA EvaluateType ==
  ASSUME TypeOK, NEW c \in Clients, NEW t \in Trusts, NEW r \in Baselines,
         NEW b \in BOOLEAN, Evaluate(c, t, r, b)
  PROVE  TypeOK'
<1> DEFINE w == [trust |-> t, is_learning |-> b]
           l == NextLevel(level[c], TargetOf(c, t, b), BelowOf(c, t, b))
<1>1. l \in VerdictLevel
  BY EvaluateValues, NextLevelType
<1>2. NextKickCount(t, b, consecutive_kick_threshold[c]) \in Nat
  BY EvaluateValues, NextKickCountType
<1>3. RateFor(l, t, r) \in Nat
  BY <1>1, EvaluateValues, RateForType
<1>4. Append(windows[c], w) \in Seq(Window)
  <2>1. w \in Window
    BY EvaluateValues DEF Window
  <2>2. windows[c] \in Seq(Window)
    BY DEF TypeOK
  <2>3. QED
    BY <2>1, <2>2
<1>5. BelowOf(c, t, b) \in Nat
  BY EvaluateValues
<1>6. /\ level' = [level EXCEPT ![c] = l]
      /\ consecutive_below' =
           [consecutive_below EXCEPT
              ![c] = IF l = level[c] THEN BelowOf(c, t, b) ELSE 0]
      /\ consecutive_kick_threshold' =
           [consecutive_kick_threshold EXCEPT
              ![c] = NextKickCount(t, b, @)]
      /\ verdict' =
           [verdict EXCEPT ![c] = [level |-> l, rate |-> RateFor(l, t, r)]]
      /\ windows' = [windows EXCEPT ![c] = Append(@, w)]
  BY DEF Evaluate, TargetOf, BelowOf
<1> HIDE DEF l, w
<1>7. QED
  BY <1>1, <1>2, <1>3, <1>4, <1>5, <1>6 DEF TypeOK, Verdict

(* The windows of the client before and after, by length and position.      *)
LEMMA RecordedWindows ==
  ASSUME NEW c \in Clients, NEW t, NEW b, Recorded(c, t, b),
         NEW k \in Nat, Count(c) = k
  PROVE  /\ Len(windows'[c]) = k + 1
         /\ windows'[c][k + 1].trust = t
         /\ \A i \in 1..k : windows'[c][i].trust = windows[c][i].trust
<1>1. Count(c)' = Len(windows'[c])
  BY DEF Count
<1>2. QED
  BY <1>1 DEF Recorded

-----------------------------------------------------------------------------
(* One step per conjunct of the invariant that an evaluation can disturb.   *)
LEMMA EvaluateIInv ==
  ASSUME IInv, NEW c \in Clients, NEW t \in Trusts, NEW r \in Baselines,
         NEW b \in BOOLEAN, Evaluate(c, t, r, b)
  PROVE  IInv'
<1> DEFINE g == TargetOf(c, t, b)
           n == BelowOf(c, t, b)
           k == Count(c)
<1>1. /\ t \in 0..100
      /\ level[c] \in VerdictLevel
      /\ consecutive_below[c] \in Nat
      /\ consecutive_kick_threshold[c] \in Nat
      /\ k \in Nat
  BY EvaluateValues DEF IInv
<1>2. TypeOK'
  BY EvaluateType DEF IInv
<1>3. /\ Count(c)' = k + 1
      /\ \A i \in 1..k : windows'[c][i] = windows[c][i]
      /\ windows'[c][k + 1] = [trust |-> t, is_learning |-> b]
  BY EvaluateEffect DEF IInv, Recorded
<1>4. /\ level'[c] = NextLevel(level[c], g, n)
      /\ consecutive_below'[c] = IF level'[c] = level[c] THEN n ELSE 0
      /\ consecutive_kick_threshold'[c] =
           NextKickCount(t, b, consecutive_kick_threshold[c])
  BY EvaluateEffect DEF IInv, Moved
<1>5. ASSUME NEW d \in Clients \ {c}
      PROVE  Kept(d) /\ Count(d)' = Count(d)
  <2>1. Kept(d)
    BY EvaluateEffect DEF IInv
  <2>2. QED
    BY <2>1 DEF Kept, Count
<1>6. /\ g \in VerdictLevel
      /\ (b /\ t < KickSingle) => g <= WATCH
      /\ t < Watch => g = ALLOW
  BY <1>1, TargetType DEF TargetOf
<1>7. /\ n \in Nat
      /\ n > 0 => /\ n = consecutive_below[c] + 1
                  /\ g < level[c]
                  /\ t < LowerBoundFor(level[c]) - Margin
  BY EvaluateValues DEF IInv
<1> HIDE DEF g, n, k
<1>8. BelowInv'
  <2> SUFFICES ASSUME NEW d \in Clients
               PROVE  /\ consecutive_below'[d] < DeescalateWindows
                      /\ consecutive_below'[d] <= Count(d)'
                      /\ \A i \in (Count(d)' - consecutive_below'[d] + 1)
                                    ..Count(d)' :
                           windows'[d][i].trust
                             < LowerBoundFor(level'[d]) - Margin
    BY DEF BelowInv
  <2>1. CASE d # c
    BY <1>5, <2>1 DEF IInv, BelowInv, Kept
  <2>2. CASE d = c /\ consecutive_below'[c] = 0
    BY <1>1, <1>3, <2>2
  <2>3. CASE d = c /\ consecutive_below'[c] # 0
    <3>1. level'[c] = level[c] /\ consecutive_below'[c] = n /\ n > 0
      BY <1>4, <1>7, <2>3
    <3>2. n < DeescalateWindows
      BY <1>1, <1>4, <1>6, <1>7, <3>1
         DEF NextLevel, VerdictLevel, ALLOW, KICK
    <3>3. /\ consecutive_below[c] <= k
          /\ \A i \in (k - consecutive_below[c] + 1)..k :
               windows[c][i].trust < LowerBoundFor(level[c]) - Margin
      BY DEF IInv, BelowInv, k
    <3>4. ASSUME NEW i \in (k + 1 - n + 1)..(k + 1)
          PROVE  windows'[c][i].trust < LowerBoundFor(level[c]) - Margin
      <4>1. CASE i = k + 1
        BY <1>3, <1>7, <3>1, <4>1
      <4>2. CASE i # k + 1
        BY <1>1, <1>3, <1>7, <3>1, <3>3, <4>2
      <4>3. QED
        BY <4>1, <4>2
    <3>5. QED
      BY <1>1, <1>3, <1>7, <2>3, <3>1, <3>2, <3>3, <3>4
  <2>4. QED
    BY <2>1, <2>2, <2>3
<1>9. KickInv'
  <2>1. consecutive_kick_threshold'[c] > 0 => t >= Kick
    BY <1>1, <1>4, NextKickCountType
  <2>2. QED
    BY <1>1, <1>3, <1>5, <2>1 DEF IInv, KickInv, Kept
<1>10. CalmInv'
  <2> SUFFICES ASSUME NEW d \in Clients, NEW m \in 0..DeescalateWindows,
                      Calm(d, m)', level'[d] # ALLOW
               PROVE  consecutive_below'[d] >= m
    BY DEF CalmInv
  <2>1. CASE d # c
    <3>1. Calm(d, m) /\ level[d] # ALLOW
      BY <1>5, <2>1 DEF Calm, Kept
    <3>2. QED
      BY <1>5, <2>1, <3>1 DEF IInv, CalmInv, Kept
  <2>2. CASE d = c /\ m = 0
    BY <1>4, <1>7, <2>2
  <2>3. CASE d = c /\ m > 0
    <3>1. Calm(c, m)'
      BY <2>3
    <3>2. /\ m <= k + 1
          /\ \A i \in (k + 1 - m + 1)..(k + 1) :
               windows'[c][i].trust < Watch - Margin
      BY <1>1, <1>3, <3>1 DEF Calm
    <3>3. t < Watch - Margin
      BY <1>1, <1>3, <2>3, <3>2
    <3>4. g = ALLOW
      BY <1>1, <1>6, <3>3
    <3>5. level'[c] = level[c] /\ level[c] # ALLOW
      BY <1>4, <2>3, <3>4 DEF NextLevel
    <3>6. n = consecutive_below[c] + 1
      BY <1>1, <3>3, <3>4, <3>5, LowerBoundForType
         DEF g, n, BelowOf, NextBelow, VerdictLevel, ALLOW, KICK
    <3>7. Calm(c, m - 1)
      BY <1>1, <1>3, <2>3, <3>2 DEF Calm, k
    <3>8. consecutive_below[c] >= m - 1
      BY <2>3, <3>5, <3>7 DEF IInv, CalmInv
    <3>9. QED
      BY <1>1, <1>4, <2>3, <3>5, <3>6, <3>8
  <2>4. QED
    BY <2>1, <2>2, <2>3
<1>11. LearnersAreNotEnforced'
  <2> SUFFICES ASSUME NEW d \in Clients,
                      \A i \in 1..Count(d)' :
                        /\ windows'[d][i].is_learning
                        /\ windows'[d][i].trust < KickSingle
               PROVE  level'[d] <= WATCH
    BY DEF LearnersAreNotEnforced
  <2>1. CASE d # c
    BY <1>5, <2>1 DEF IInv, LearnersAreNotEnforced, Kept
  <2>2. CASE d = c
    <3>1. \A i \in 1..k : /\ windows[c][i].is_learning
                          /\ windows[c][i].trust < KickSingle
      BY <1>1, <1>3, <2>2
    <3>2. level[c] <= WATCH
      BY <3>1 DEF IInv, LearnersAreNotEnforced, k
    <3>3. b /\ t < KickSingle
      BY <1>1, <1>3, <2>2
    <3>4. QED
      BY <1>4, <1>6, <2>2, <3>2, <3>3 DEF NextLevel
  <2>3. QED
    BY <2>1, <2>2
<1>12. QED
  BY <1>2, <1>8, <1>9, <1>10, <1>11 DEF IInv

(* Every window and every restart keeps the invariant.                      *)
LEMMA NextIInv == IInv /\ [Next]_vars => IInv'
<1> SUFFICES ASSUME IInv, [Next]_vars PROVE IInv'
  OBVIOUS
<1>1. ASSUME NEW c \in Clients, NEW t \in Trusts, NEW r \in Baselines,
             NEW b \in BOOLEAN, Evaluate(c, t, r, b)
      PROVE  IInv'
  BY <1>1, EvaluateIInv
<1>2. CASE Restart
  <2>1. TypeOK'
    BY <1>2 DEF Restart, TypeOK, VerdictLevel, Verdict, NoVerdict, ALLOW, KICK
  <2>2. \A c \in Clients : Count(c)' = 0
    BY <1>2 DEF Restart, Count
  <2>3. BelowInv' /\ KickInv'
    BY <1>2, <2>2 DEF Restart, BelowInv, KickInv
  <2>4. CalmInv' /\ LearnersAreNotEnforced'
    BY <1>2, <2>2 DEF Restart, CalmInv, LearnersAreNotEnforced, ALLOW, WATCH
  <2>5. QED
    BY <2>1, <2>3, <2>4 DEF IInv
<1>3. CASE UNCHANGED vars
  BY <1>3 DEF vars, state, IInv, TypeOK, BelowInv, KickInv, CalmInv, Calm,
              LearnersAreNotEnforced, Count
<1>4. QED
  BY <1>1, <1>2, <1>3 DEF Next

-----------------------------------------------------------------------------
(* The inductive invariant of the engine and its history.                   *)
THEOREM Invariance == Spec => []IInv
<1>1. Init => IInv
  BY InitIInv
<1>2. IInv /\ [Next]_vars => IInv'
  BY NextIInv
<1>3. QED
  BY <1>1, <1>2, PTL DEF Spec

(* The engine's state and the verdicts it returns are of their types: in    *)
(* particular no verdict has a negative publish rate.                       *)
THEOREM TypeCorrect == Spec => []TypeOK
BY Invariance, PTL DEF IInv

(* Clients in their learning period stay below enforcement.                 *)
THEOREM LearnersSpared == Spec => []LearnersAreNotEnforced
BY Invariance, PTL DEF IInv

(* DeescalateWindows calm windows in a row clear a client.                  *)
THEOREM CalmClears == Spec => []CalmClientIsCleared
<1>1. IInv => CalmClientIsCleared
  <2> SUFFICES ASSUME IInv, NEW c \in Clients, Calm(c, DeescalateWindows)
               PROVE  level[c] = ALLOW
    BY DEF CalmClientIsCleared, Calm
  <2>1. /\ consecutive_below[c] \in Nat
        /\ consecutive_below[c] < DeescalateWindows
    BY DEF IInv, TypeOK, BelowInv
  <2>2. level[c] # ALLOW => consecutive_below[c] >= DeescalateWindows
    BY DEF IInv, CalmInv
  <2>3. QED
    BY <2>1, <2>2
<1>2. QED
  BY <1>1, Invariance, PTL

(* The hysteresis lowers a level only when enough windows were counted.     *)
LEMMA StepDownCounts ==
  ASSUME NEW l \in VerdictLevel, NEW g \in VerdictLevel, NEW n \in Nat,
         NextLevel(l, g, n) < l
  PROVE  n >= DeescalateWindows
BY DEF NextLevel, VerdictLevel, ALLOW, KICK

(* The last m + 1 of k + 1 windows, without the very last.                  *)
LEMMA AllButLast ==
  ASSUME NEW k \in Nat, NEW m \in Nat, m <= k,
         NEW i \in (k + 1 - (m + 1) + 1)..(k + 1), i # k + 1
  PROVE  i \in (k - m + 1)..k /\ i \in 1..k
OBVIOUS

(* A level is only given up after DeescalateWindows windows in a row below  *)
(* its bound.                                                               *)
THEOREM DeescalationEarned == Spec => DeescalationIsEarned
<1>1. IInv /\ Next =>
        \A c \in Clients : StepsDown(c) => WindowsBelow(c, DeescalateWindows)
  <2> SUFFICES ASSUME IInv, Next, NEW d \in Clients,
                      level'[d] < level[d], windows'[d] # <<>>
               PROVE  WindowsBelow(d, DeescalateWindows)
    BY DEF StepsDown
  <2>1. ~Restart
    BY DEF Restart
  <2>2. PICK c \in Clients, t \in Trusts, r \in Baselines, b \in BOOLEAN :
          Evaluate(c, t, r, b)
    BY <2>1 DEF Next
  <2> DEFINE n == BelowOf(c, t, b)
             k == Count(c)
  <2>3. /\ level[c] \in VerdictLevel
        /\ consecutive_below[c] \in Nat
        /\ k \in Nat
        /\ TargetOf(c, t, b) \in VerdictLevel
        /\ n \in Nat
        /\ n > 0 => /\ n = consecutive_below[c] + 1
                    /\ t < LowerBoundFor(level[c]) - Margin
    BY EvaluateValues DEF IInv
  <2>4. Recorded(c, t, b) /\ Moved(c, t, b)
    BY <2>2, EvaluateEffect DEF IInv
  <2>5. d = c
    <3>1. d # c => level'[d] = level[d]
      BY <2>2, EvaluateEffect DEF IInv, Kept
    <3>2. level[d] \in VerdictLevel
      BY DEF IInv, TypeOK
    <3>3. QED
      BY <3>1, <3>2 DEF VerdictLevel, ALLOW, KICK
  <2>6. n >= DeescalateWindows
    <3>1. NextLevel(level[c], TargetOf(c, t, b), n) < level[c]
      BY <2>4, <2>5 DEF Moved
    <3>2. QED
      BY <2>3, <3>1, StepDownCounts
  <2>7. BelowInv
    BY DEF IInv
  <2>8. /\ consecutive_below[c] < DeescalateWindows
        /\ consecutive_below[c] <= k
    BY <2>7 DEF BelowInv
  <2>9. \A i \in (k - consecutive_below[c] + 1)..k :
          windows[c][i].trust < LowerBoundFor(level[c]) - Margin
    BY <2>7, Zenon DEF BelowInv
  <2>10. /\ Len(windows'[c]) = k + 1
         /\ windows'[c][k + 1].trust = t
         /\ \A i \in 1..k : windows'[c][i].trust = windows[c][i].trust
    BY <2>3, <2>4, RecordedWindows
  <2> HIDE DEF n, k
  <2>11. n = consecutive_below[c] + 1 /\ t < LowerBoundFor(level[c]) - Margin
    BY <2>3, <2>6
  <2>12. DeescalateWindows = consecutive_below[c] + 1
    BY <2>3, <2>6, <2>8, <2>11
  <2>13. ASSUME NEW i \in (k + 1 - DeescalateWindows + 1)..(k + 1)
         PROVE  windows'[c][i].trust < LowerBoundFor(level[c]) - Margin
    <3>1. CASE i = k + 1
      BY <2>10, <2>11, <3>1
    <3>2. CASE i # k + 1
      <4>1. k \in Nat /\ consecutive_below[c] \in Nat
        BY <2>3
      <4>2. i \in (k - consecutive_below[c] + 1)..k /\ i \in 1..k
        BY <2>8, <2>12, <3>2, <4>1, AllButLast
      <4>3. windows[c][i].trust < LowerBoundFor(level[c]) - Margin
        BY <2>9, <4>2, Zenon
      <4>4. windows'[c][i].trust = windows[c][i].trust
        BY <2>10, <4>2, Zenon
      <4>5. QED
        BY <4>3, <4>4
    <3>3. QED
      BY <3>1, <3>2
  <2>14. k \in Nat /\ k + 1 >= DeescalateWindows
    BY <2>3, <2>8, <2>12
  <2>15. WindowsBelow(c, DeescalateWindows)
    BY <2>10, <2>13, <2>14 DEF WindowsBelow
  <2>16. QED
    BY <2>5, <2>15
<1>2. QED
  BY <1>1, Invariance, PTL DEF Spec, DeescalationIsEarned

(* KICK takes one window at the ceiling or two in a row at the threshold.   *)
THEOREM KickEarned == Spec => KickIsEarned
<1>1. IInv /\ Next =>
        \A c \in Clients :
          StepsToKick(c) => CeilingWindow(c) \/ TwoKickWindows(c)
  <2> SUFFICES ASSUME IInv, Next, NEW d \in Clients,
                      level'[d] = KICK, level[d] # KICK
               PROVE  CeilingWindow(d) \/ TwoKickWindows(d)
    BY DEF StepsToKick
  <2>1. ~Restart
    BY DEF Restart, ALLOW, KICK
  <2>2. PICK c \in Clients, t \in Trusts, r \in Baselines, b \in BOOLEAN :
          Evaluate(c, t, r, b)
    BY <2>1 DEF Next
  <2>3. t \in 0..100 /\ consecutive_kick_threshold[c] \in Nat
    BY EvaluateValues DEF IInv
  <2>4. Recorded(c, t, b) /\ Moved(c, t, b)
    BY <2>2, EvaluateEffect DEF IInv
  <2>5. d = c
    BY <2>2, EvaluateEffect DEF IInv, Kept
  <2>6. Target(t, b, consecutive_kick_threshold[c]) = KICK
    BY <2>4, <2>5 DEF Moved, NextLevel, TargetOf
  <2>7. t >= Kick /\ (t >= KickSingle \/ consecutive_kick_threshold[c] > 0)
    BY <2>3, <2>6, TargetType
  <2>8. consecutive_kick_threshold[c] > 0 =>
          Count(c) >= 1 /\ windows[c][Count(c)].trust >= Kick
    BY DEF IInv, KickInv
  <2> DEFINE k == Count(c)
  <2>9. k \in Nat
    BY EvaluateValues DEF IInv
  <2>10. /\ Len(windows'[c]) = k + 1
         /\ windows'[c][k + 1].trust = t
         /\ \A i \in 1..k : windows'[c][i].trust = windows[c][i].trust
    BY <2>4, <2>9, RecordedWindows
  <2>11. CASE t >= KickSingle
    BY <2>5, <2>10, <2>11 DEF CeilingWindow
  <2>12. CASE t < KickSingle
    <3>1. k >= 1 /\ windows[c][k].trust >= Kick
      BY <2>3, <2>7, <2>8, <2>12
    <3> HIDE DEF k
    <3>2. TwoKickWindows(c)
      BY <2>7, <2>9, <2>10, <3>1 DEF TwoKickWindows
    <3>3. QED
      BY <2>5, <3>2
  <2>13. QED
    BY <2>3, <2>11, <2>12
<1>2. QED
  BY <1>1, Invariance, PTL DEF Spec, KickIsEarned
=============================================================================
