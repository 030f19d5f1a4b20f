---------------------------- MODULE FleetProofs -----------------------------
(***************************************************************************)
(* For any fleet, any features and all window lengths: the alarms of Fleet *)
(* are justified, and windows that drift together raise one.               *)
(***************************************************************************)
EXTENDS Fleet, FiniteSetTheorems, FunctionTheorems, WellFoundedInduction,
        TLAPS

USE WindowAssumption, FleetAssumption

Observed == [client : Clients, start : Nat, z : Z, active : Nat,
             alarm : BOOLEAN]

(* An open window began in the past and is not overdue for a sweep.         *)
OpenOnTime ==
  \A c \in Clients :
    acc[c] # NoWindow =>
      /\ acc[c].window_start <= now
      /\ now < acc[c].window_start + WindowLen + IdleGrace + SweepLate

(* Windows are observed after their end, and so in the order of their       *)
(* starts up to their lateness.                                             *)
ObservedOnTime ==
  /\ \A i \in 1..Len(observed) : observed[i].start + WindowLen <= now
  /\ \A i, j \in 1..Len(observed) :
       i < j => observed[i].start <= observed[j].start + Late

(* Where the observations of the present fleet window begin.                *)
Before == Len(observed) - Len(window_zscores)

(* The z-scores in the fleet window are those of the latest observations;   *)
(* the first of them is where it starts, and none lies past its end.        *)
Latest ==
  /\ Before \in Nat
  /\ \A k \in 1..Len(window_zscores) :
       /\ window_zscores[k].client = observed[Before + k].client
       /\ window_zscores[k].start = observed[Before + k].start
       /\ window_zscores[k].z = observed[Before + k].z
       /\ window_start \in Nat
       /\ window_zscores[k].start < window_start + FleetWindow
  /\ window_zscores # <<>> => window_start = window_zscores[1].start
  /\ window_start = NoStart <=> window_zscores = <<>>

IInv ==
  /\ TypeOK
  /\ OpenOnTime
  /\ ObservedOnTime
  /\ Latest
  /\ AlarmIsJustified

-----------------------------------------------------------------------------
(* What observe is given and what it leaves.                                *)
Observes(c, start, z) ==
  /\ c \in Clients /\ start \in Nat /\ z \in Z
  /\ start + WindowLen <= now
  /\ now < start + WindowLen + IdleGrace + SweepLate
  /\ now' = now
  /\ Observe(c, start, z)

(* A window is observed when it closes, and closes on time.                 *)
LEMMA StepObserves ==
  ASSUME TypeOK, OpenOnTime, Next
  PROVE  \/ \E c \in Clients, start \in Nat, z \in Z : Observes(c, start, z)
         \/ now' \in Nat /\ now <= now' /\ UNCHANGED fleet
<1>1. ASSUME NEW c \in Clients, NEW z \in Explored, OnEvent(c, z)
      PROVE  \/ Observes(c, acc[c].window_start, z)
             \/ now' \in Nat /\ now <= now' /\ UNCHANGED fleet
  <2>1. now \in Nat /\ now' = now /\ z \in Z
    BY <1>1 DEF OnEvent, TypeOK, Explored
  <2>2. CASE Rolls(acc[c], now)
    <3>1. acc[c] # NoWindow /\ now >= acc[c].window_start + WindowLen
      BY <2>2 DEF Rolls
    <3>2. acc[c].window_start \in Nat
      BY <3>1 DEF TypeOK, Accumulator
    <3>3. now < acc[c].window_start + WindowLen + IdleGrace + SweepLate
      BY <3>1 DEF OpenOnTime
    <3>4. Observe(c, acc[c].window_start, z)
      BY <1>1, <2>2 DEF OnEvent
    <3>5. QED
      BY <2>1, <3>1, <3>2, <3>3, <3>4 DEF Observes
  <2>3. CASE ~Rolls(acc[c], now)
    BY <1>1, <2>1, <2>3 DEF OnEvent
  <2>4. QED
    BY <2>2, <2>3
<1>2. ASSUME NEW c \in Clients, NEW z \in Explored, SweepOne(c, z)
      PROVE  Observes(c, acc[c].window_start, z)
  <2>1. now \in Nat /\ now' = now /\ z \in Z
    BY <1>2 DEF SweepOne, TypeOK, Explored
  <2>2. acc[c] # NoWindow /\ now >= acc[c].window_start + WindowLen + IdleGrace
    BY <1>2 DEF SweepOne, StaleClients, Stale
  <2>3. acc[c].window_start \in Nat
    BY <2>2 DEF TypeOK, Accumulator
  <2>4. now < acc[c].window_start + WindowLen + IdleGrace + SweepLate
    BY <2>2 DEF OpenOnTime
  <2>5. now >= acc[c].window_start + WindowLen
    BY <2>1, <2>2, <2>3
  <2>6. Observe(c, acc[c].window_start, z)
    BY <1>2 DEF SweepOne
  <2>7. QED
    BY <2>1, <2>3, <2>4, <2>5, <2>6 DEF Observes
<1>3. ASSUME NEW c \in Clients, NEW z \in Explored,
             Observes(c, acc[c].window_start, z)
      PROVE  \E d \in Clients, start \in Nat, y \in Z : Observes(d, start, y)
  <2>1. acc[c].window_start \in Nat /\ z \in Z
    BY <1>3 DEF Observes
  <2>2. QED
    BY <1>3, <2>1
<1>4. CASE Advance
  BY <1>4 DEF Advance, TypeOK
<1>5. QED
  BY <1>1, <1>2, <1>3, <1>4 DEF Next

(* The open windows.                                                        *)
LEMMA OpenStep ==
  ASSUME TypeOK, OpenOnTime, Next
  PROVE  /\ acc' \in [Clients -> Accumulator \cup {NoWindow}]
         /\ OpenOnTime'
<1>1. /\ now \in Nat /\ WindowLen \in Nat /\ IdleGrace \in Nat
      /\ WindowLen > 0 /\ SweepLate \in Nat /\ SweepLate > 0
  BY DEF TypeOK
<1>2. ASSUME NEW c \in Clients, NEW z, OnEvent(c, z)
      PROVE  /\ acc' \in [Clients -> Accumulator \cup {NoWindow}]
             /\ OpenOnTime'
  <2>1. PICK w : w = acc[c]
    OBVIOUS
  <2>2. PICK x : x = AfterEvent(w, 0, now)
    OBVIOUS
  <2>3. acc' = [acc EXCEPT ![c] = x] /\ now' = now
    BY <1>2, <2>1, <2>2 DEF OnEvent
  <2>4. /\ x \in Accumulator
        /\ x.window_start <= now
        /\ now < x.window_start + WindowLen + IdleGrace + SweepLate
    <3>1. CASE w = NoWindow
      <4>1. x = [window_start |-> now, entries |-> {0}]
        BY <2>2, <3>1 DEF AfterEvent
      <4>2. QED
        BY <1>1, <4>1 DEF Accumulator
    <3>2. CASE w \in Accumulator
      <4>1. w # NoWindow /\ w.window_start \in Nat /\ w.entries \in SUBSET Nat
        BY <3>2 DEF Accumulator
      <4>2. /\ w.window_start <= now
            /\ now < w.window_start + WindowLen + IdleGrace + SweepLate
        BY <2>1, <4>1 DEF OpenOnTime
      <4>3. CASE Rolls(w, now)
        <5>1. x = [window_start |-> w.window_start + WindowLen,
                   entries |-> {0}]
          BY <2>2, <4>1, <4>3 DEF AfterEvent
        <5>2. now >= w.window_start + WindowLen
          BY <4>3 DEF Rolls
        <5>3. x.window_start = w.window_start + WindowLen /\ x \in Accumulator
          BY <1>1, <4>1, <5>1 DEF Accumulator
        <5>4. QED
          BY <1>1, <4>1, <4>2, <5>2, <5>3
      <4>4. CASE ~Rolls(w, now)
        <5>1. x = [w EXCEPT !.entries = @ \cup {0}]
          BY <2>2, <4>1, <4>4 DEF AfterEvent
        <5>2. x.window_start = w.window_start /\ x \in Accumulator
          BY <3>2, <4>1, <5>1 DEF Accumulator
        <5>3. QED
          BY <4>2, <5>2
      <4>5. QED
        BY <4>3, <4>4
    <3>3. QED
      BY <2>1, <3>1, <3>2 DEF TypeOK
  <2>5. acc' \in [Clients -> Accumulator \cup {NoWindow}]
    BY <2>3, <2>4 DEF TypeOK
  <2>6. ASSUME NEW d \in Clients, acc'[d] # NoWindow
        PROVE  /\ acc'[d].window_start <= now'
               /\ now' < acc'[d].window_start + WindowLen
                           + IdleGrace + SweepLate
    <3>1. CASE d = c
      BY <2>3, <2>4, <3>1 DEF TypeOK
    <3>2. CASE d # c
      BY <2>3, <2>6, <3>2 DEF TypeOK, OpenOnTime
    <3>3. QED
      BY <3>1, <3>2
  <2>7. QED
    BY <2>5, <2>6 DEF OpenOnTime
<1>3. ASSUME NEW c \in Clients, NEW z, SweepOne(c, z)
      PROVE  /\ acc' \in [Clients -> Accumulator \cup {NoWindow}]
             /\ OpenOnTime'
  <2>1. acc' = [acc EXCEPT ![c] = NoWindow] /\ now' = now
    BY <1>3 DEF SweepOne
  <2>2. QED
    BY <2>1 DEF TypeOK, OpenOnTime
<1>4. ASSUME Advance
      PROVE  /\ acc' \in [Clients -> Accumulator \cup {NoWindow}]
             /\ OpenOnTime'
  <2>1. acc' = acc /\ now' = now + 1
    BY <1>4 DEF Advance
  <2>2. ASSUME NEW c \in Clients, acc[c] # NoWindow
        PROVE  /\ acc[c].window_start <= now + 1
               /\ now + 1 < acc[c].window_start + WindowLen
                              + IdleGrace + SweepLate
    <3>1. acc[c].window_start \in Nat /\ acc[c].window_start <= now
      BY <2>2 DEF TypeOK, Accumulator, OpenOnTime
    <3>2. QED
      BY <1>1, <1>4, <2>2, <3>1 DEF Advance
  <2>3. QED
    BY <2>1, <2>2 DEF TypeOK, OpenOnTime
<1>5. QED
  BY <1>2, <1>3, <1>4 DEF Next

-----------------------------------------------------------------------------
(* Observing a window.                                                      *)

(* The fleet window it falls into, and the new ends of both sequences.      *)
LEMMA ObserveEffect ==
  ASSUME TypeOK, Latest, NEW c, NEW start, NEW z, Observes(c, start, z)
  PROVE  \E kept \in Seq([client : Clients, start : Nat, z : Z]),
            o \in Observed :
           /\ window_zscores' =
                Append(kept, [client |-> c, start |-> start, z |-> z])
           /\ observed' = Append(observed, o)
           /\ o.client = c /\ o.start = start /\ o.z = z
           /\ o.active = Cardinality(active_clients')
           /\ o.alarm = CheckCoordinated(window_zscores', active_clients', c)
           /\ active_clients' \subseteq Clients
           /\ \/ kept = <<>> /\ window_start' = start
              \/ /\ kept = window_zscores
                 /\ window_start' = window_start
                 /\ window_start \in Nat
                 /\ start < window_start + FleetWindow
<1> DEFINE seen == [client |-> c, start |-> start, z |-> z]
           kept == IF FleetRolls(start) THEN <<>> ELSE window_zscores
           active == active_clients \cup {c}
           o == [client |-> c, start |-> start, z |-> z,
                 active |-> Cardinality(active),
                 alarm |-> CheckCoordinated(window_zscores', active, c)]
<1>1. c \in Clients /\ start \in Nat /\ z \in Z
  BY DEF Observes
<1>2. /\ window_zscores' = Append(kept, seen)
      /\ active_clients' = active
      /\ observed' = Append(observed, o)
      /\ window_start' = IF window_start = NoStart \/ FleetRolls(start)
                         THEN start ELSE window_start
  BY DEF Observes, Observe
<1>3. kept \in Seq([client : Clients, start : Nat, z : Z])
  BY DEF TypeOK
<1>4. active \subseteq Clients /\ Cardinality(active) \in Nat
  <2>1. active \in SUBSET Clients
    BY <1>1 DEF TypeOK
  <2>2. QED
    BY <2>1, FS_Subset, FS_CardinalityType
<1>5. CheckCoordinated(window_zscores', active, c) \in BOOLEAN
  BY DEF CheckCoordinated
<1>6. o \in Observed
  BY <1>1, <1>4, <1>5 DEF Observed
<1>7. \/ kept = <<>> /\ window_start' = start
      \/ /\ kept = window_zscores
         /\ window_start' = window_start
         /\ window_start \in Nat
         /\ start < window_start + FleetWindow
  <2>1. CASE FleetRolls(start)
    BY <1>2, <2>1
  <2>2. CASE ~FleetRolls(start) /\ window_start = NoStart
    BY <1>2, <2>2 DEF Latest
  <2>3. CASE ~FleetRolls(start) /\ window_start # NoStart
    <3>1. window_start \in Nat
      BY <2>3 DEF TypeOK
    <3>2. start - window_start < FleetWindow
      BY <1>1, <2>3, <3>1 DEF FleetRolls
    <3>3. start < window_start + FleetWindow
      BY <1>1, <3>1, <3>2
    <3>4. QED
      BY <1>2, <2>3, <3>1, <3>3
  <2>4. QED
    BY <2>1, <2>2, <2>3
<1>8. /\ o.client = c /\ o.start = start /\ o.z = z
      /\ o.active = Cardinality(active_clients')
      /\ o.alarm = CheckCoordinated(window_zscores', active_clients', c)
  BY <1>2
<1>9. window_zscores' = Append(kept, [client |-> c, start |-> start, z |-> z])
  BY <1>2
<1> HIDE DEF kept, o, active, seen
<1>10. QED
  BY <1>2, <1>3, <1>4, <1>6, <1>7, <1>8, <1>9

(* A window observed keeps types and order.                                 *)
LEMMA ObserveKeeps ==
  ASSUME IInv, NEW c, NEW start, NEW z, Observes(c, start, z)
  PROVE  /\ active_clients' \subseteq Clients
         /\ window_zscores' \in Seq([client : Clients, start : Nat, z : Z])
         /\ window_start' \in Nat \cup {NoStart}
         /\ observed' \in Seq(Observed)
         /\ ObservedOnTime'
         /\ Latest'
<1>1. /\ c \in Clients /\ start \in Nat /\ z \in Z /\ now \in Nat
      /\ now' = now
      /\ start + WindowLen <= now
      /\ now < start + WindowLen + IdleGrace + SweepLate
      /\ WindowLen \in Nat /\ IdleGrace \in Nat /\ SweepLate \in Nat
  BY DEF Observes, IInv, TypeOK
<1>2. PICK kept \in Seq([client : Clients, start : Nat, z : Z]),
           o \in Observed :
        /\ window_zscores' =
             Append(kept, [client |-> c, start |-> start, z |-> z])
        /\ observed' = Append(observed, o)
        /\ o.client = c /\ o.start = start /\ o.z = z
        /\ o.active = Cardinality(active_clients')
        /\ o.alarm = CheckCoordinated(window_zscores', active_clients', c)
        /\ active_clients' \subseteq Clients
        /\ \/ kept = <<>> /\ window_start' = start
           \/ /\ kept = window_zscores
              /\ window_start' = window_start
              /\ window_start \in Nat
              /\ start < window_start + FleetWindow
  <2>1. TypeOK /\ Latest
    BY DEF IInv
  <2>2. QED
    BY <2>1, ObserveEffect
<1>3. observed \in Seq(Observed)
  BY DEF IInv, TypeOK, Observed
<1>4. PICK n \in Nat : n = Len(observed)
  BY <1>3
<1>5. PICK k \in Nat : k = Len(kept)
  BY <1>2
<1>6. PICK s : s = [client |-> c, start |-> start, z |-> z]
  OBVIOUS
<1>7. s \in [client : Clients, start : Nat, z : Z]
  BY <1>1, <1>6
<1>8. /\ observed' \in Seq(Observed) /\ Len(observed') = n + 1
      /\ \A i \in 1..n : observed'[i] = observed[i]
      /\ observed'[n + 1] = o
  BY <1>2, <1>3, <1>4
<1>9. /\ window_zscores' \in Seq([client : Clients, start : Nat, z : Z])
      /\ Len(window_zscores') = k + 1
      /\ \A i \in 1..k : window_zscores'[i] = kept[i]
      /\ window_zscores'[k + 1] = s
  BY <1>2, <1>5, <1>6, <1>7
<1>10. s.client = c /\ s.start = start /\ s.z = z
  BY <1>6
<1>11. window_start' \in Nat \cup {NoStart}
  BY <1>1, <1>2
<1>12. \A i \in 1..n : observed[i].start \in Nat
  <2>1. \A i \in 1..n : observed[i] \in Observed
    BY <1>3, <1>4
  <2>2. QED
    BY <2>1 DEF Observed
<1>13. ObservedOnTime'
  <2>1. ASSUME NEW i \in 1..(n + 1)
        PROVE  observed'[i].start + WindowLen <= now
    <3>1. CASE i \in 1..n
      BY <1>4, <1>8, <3>1 DEF IInv, ObservedOnTime
    <3>2. CASE i = n + 1
      BY <1>1, <1>2, <1>8, <3>2
    <3>3. QED
      BY <3>1, <3>2
  <2>2. ASSUME NEW i \in 1..(n + 1), NEW j \in 1..(n + 1), i < j
        PROVE  observed'[i].start <= observed'[j].start + Late
    <3>1. i \in 1..n
      BY <2>2
    <3>2. CASE j \in 1..n
      BY <1>4, <1>8, <2>2, <3>1, <3>2 DEF IInv, ObservedOnTime, Late
    <3>3. CASE j = n + 1
      <4>1. observed'[j].start = start
        BY <1>2, <1>8, <3>3
      <4>2. observed'[i].start = observed[i].start
        BY <1>8, <3>1
      <4>3. observed[i].start + WindowLen <= now
        BY <1>4, <3>1 DEF IInv, ObservedOnTime
      <4>4. observed[i].start \in Nat
        BY <1>12, <3>1
      <4>5. PICK m : m = observed[i].start
        OBVIOUS
      <4>6. m <= start + Late
        BY <1>1, <4>3, <4>4, <4>5 DEF Late
      <4>7. QED
        BY <4>1, <4>2, <4>5, <4>6
    <3>4. QED
      BY <3>2, <3>3
  <2>3. Late' = Late
    BY DEF Late
  <2>4. QED
    BY <1>1, <1>8, <2>1, <2>2, <2>3 DEF ObservedOnTime
<1>14. Latest'
  <2>1. CASE kept = <<>> /\ window_start' = start
    <3>1. k = 0
      BY <1>5, <2>1
    <3>2. Before' = n
      BY <1>4, <1>8, <1>9, <3>1 DEF Before
    <3>3. window_zscores'[1] = s /\ observed'[n + 1] = o
      BY <1>8, <1>9, <3>1
    <3>4. start < start + FleetWindow
      BY <1>1
    <3>5. window_start' # NoStart
      BY <1>1, <2>1
    <3>6. ASSUME NEW i \in 1..Len(window_zscores')
          PROVE  /\ window_zscores'[i].client = observed'[Before' + i].client
                 /\ window_zscores'[i].start = observed'[Before' + i].start
                 /\ window_zscores'[i].z = observed'[Before' + i].z
                 /\ window_start' \in Nat
                 /\ window_zscores'[i].start < window_start' + FleetWindow
      <4>1. i = 1 /\ Before' + i = n + 1
        BY <1>9, <3>1, <3>2
      <4>2. QED
        BY <1>1, <1>2, <1>10, <2>1, <3>3, <3>4, <4>1
    <3>7. window_zscores' # <<>> /\ window_start' = window_zscores'[1].start
      BY <1>9, <1>10, <2>1, <3>3
    <3>8. Before' \in Nat
      BY <3>2
    <3>9. QED
      BY <3>5, <3>6, <3>7, <3>8 DEF Latest
  <2>2. CASE /\ kept = window_zscores
             /\ window_start' = window_start
             /\ window_start \in Nat
             /\ start < window_start + FleetWindow
    <3>1. Before' = Before /\ Before \in Nat /\ Before + k = n
      <4>1. Before \in Nat
        BY DEF IInv, Latest
      <4>2. Before' = (n + 1) - (k + 1) /\ Before = n - k
        BY <1>4, <1>5, <1>8, <1>9, <2>2 DEF Before
      <4>3. QED
        BY <4>1, <4>2
    <3>2. PICK b \in Nat : b = Before
      BY <3>1
    <3>3. ASSUME NEW i \in 1..(k + 1)
          PROVE  /\ window_zscores'[i].client = observed'[b + i].client
                 /\ window_zscores'[i].start = observed'[b + i].start
                 /\ window_zscores'[i].z = observed'[b + i].z
                 /\ window_zscores'[i].start < window_start + FleetWindow
      <4>1. CASE i \in 1..k
        <5>1. window_zscores'[i] = window_zscores[i]
          BY <1>9, <2>2, <4>1
        <5>2. b + i \in 1..n
          BY <3>1, <3>2, <4>1
        <5>3. observed'[b + i] = observed[b + i]
          BY <1>8, <5>2
        <5>4. i \in 1..Len(window_zscores)
          BY <1>5, <2>2, <4>1
        <5>5. QED
          BY <3>2, <5>1, <5>3, <5>4 DEF IInv, Latest
      <4>2. CASE i = k + 1
        <5>1. window_zscores'[i] = s
          BY <1>9, <4>2
        <5>2. b + i = n + 1
          BY <3>1, <3>2, <4>2
        <5>3. observed'[b + i] = o
          BY <1>8, <5>2
        <5>4. QED
          BY <1>2, <1>10, <2>2, <5>1, <5>3
      <4>3. QED
        BY <4>1, <4>2
    <3>4. window_start = window_zscores'[1].start
      <4>1. CASE k = 0
        (* The fleet window had no scores only before the first of them.    *)
        BY <1>5, <2>2, <4>1 DEF IInv, Latest
      <4>2. CASE k > 0
        <5>1. window_zscores'[1] = window_zscores[1] /\ window_zscores # <<>>
          BY <1>5, <1>9, <2>2, <4>2
        <5>2. QED
          BY <5>1 DEF IInv, Latest
      <4>3. QED
        BY <4>1, <4>2
    <3>5. window_start' \in Nat /\ window_start' # NoStart
      BY <2>2
    <3>6. ASSUME NEW i \in 1..Len(window_zscores')
          PROVE  /\ window_zscores'[i].client = observed'[Before' + i].client
                 /\ window_zscores'[i].start = observed'[Before' + i].start
                 /\ window_zscores'[i].z = observed'[Before' + i].z
                 /\ window_start' \in Nat
                 /\ window_zscores'[i].start < window_start' + FleetWindow
      <4>1. i \in 1..(k + 1) /\ Before' + i = b + i
        BY <1>9, <3>1, <3>2
      <4>2. QED
        BY <2>2, <3>3, <4>1
    <3>7. window_zscores' # <<>>
      BY <1>9
    <3>8. window_start' = window_zscores'[1].start /\ Before' \in Nat
      BY <2>2, <3>1, <3>4
    <3>9. QED
      BY <3>5, <3>6, <3>7, <3>8 DEF Latest
  <2>3. QED
    BY <1>2, <2>1, <2>2
<1>15. QED
  BY <1>2, <1>8, <1>9, <1>11, <1>13, <1>14

-----------------------------------------------------------------------------
(* The alarms.                                                              *)

(* What AlarmIsJustified says of the n-th observation.                      *)
Justified(n) ==
  \E f \in Features, sign \in {-1, 1} :
    \E W \in SUBSET {i \in 1..n : Spiked(i, f, sign)} :
      /\ Cardinality(W) >= 2
      /\ Cardinality(W) * 100 >= Percent * observed[n].active
      /\ \E i \in W : observed[i].client = observed[n].client
      /\ \A i \in W : \A j \in W \cup {n} :
           observed[j].start - observed[i].start < FleetWindow + Late

(* An alarm over the present scores and clients, of the last observation.   *)
AlarmsNow ==
  /\ window_zscores # <<>>
  /\ observed[Len(observed)].active = Cardinality(active_clients)
  /\ CheckCoordinated(window_zscores, active_clients,
                      observed[Len(observed)].client)

(* Scores of one fleet window began within its length and the lateness.     *)
LEMMA OneSpan ==
  ASSUME TypeOK, ObservedOnTime, Latest,
         NEW i \in (Before + 1)..Len(observed),
         NEW j \in (Before + 1)..Len(observed)
  PROVE  observed[j].start - observed[i].start < FleetWindow + Late
<1>1. PICK n \in Nat : n = Len(observed)
  BY DEF TypeOK
<1>2. PICK k \in Nat : k = Len(window_zscores)
  BY DEF TypeOK
<1>3. PICK b \in Nat : b = Before
  BY DEF Latest
<1>4. b + k = n
  BY <1>1, <1>2, <1>3 DEF Before
<1>5. i \in (b + 1)..n /\ j \in (b + 1)..n
  BY <1>1, <1>3
<1>6. i - b \in 1..k /\ j - b \in 1..k /\ 1 \in 1..k
  BY <1>4, <1>5
<1>7. /\ window_start \in Nat
      /\ window_zscores[j - b].start = observed[j].start
      /\ window_zscores[j - b].start < window_start + FleetWindow
  <2>1. b + (j - b) = j
    BY <1>5
  <2>2. QED
    BY <1>2, <1>3, <1>6, <2>1 DEF Latest
<1>8. window_start = observed[b + 1].start
  <2>1. window_zscores[1].start = observed[b + 1].start
    BY <1>2, <1>3, <1>6 DEF Latest
  <2>2. window_zscores # <<>>
    BY <1>2, <1>6
  <2>3. QED
    BY <2>1, <2>2 DEF Latest
<1>9. /\ observed[i].start \in Nat /\ observed[j].start \in Nat
      /\ observed[b + 1].start \in Nat
  <2>1. \A m \in 1..n : observed[m] \in Observed
    <3>1. observed \in Seq(Observed)
      BY DEF TypeOK, Observed
    <3>2. QED
      BY <1>1, <3>1
  <2>2. i \in 1..n /\ j \in 1..n /\ b + 1 \in 1..n
    BY <1>4, <1>5, <1>6
  <2>3. QED
    BY <2>1, <2>2 DEF Observed
<1>10. Late \in Nat
  BY DEF Late
<1>11. observed[b + 1].start <= observed[i].start + Late
  <2>1. CASE i = b + 1
    BY <1>9, <1>10, <2>1
  <2>2. CASE b + 1 < i
    <3>1. b + 1 \in 1..n /\ i \in 1..n
      BY <1>4, <1>5, <1>6
    <3>2. QED
      BY <1>1, <2>2, <3>1 DEF ObservedOnTime
  <2>3. QED
    BY <1>5, <2>1, <2>2
<1>12. observed[j].start < observed[b + 1].start + FleetWindow
  BY <1>7, <1>8
<1>13. ASSUME NEW x \in Nat, NEW y \in Nat, NEW u \in Nat, NEW v \in Nat,
              NEW l \in Nat, y < u + v, u <= x + l
       PROVE  y - x < v + l
  BY <1>13
<1>14. QED
  BY <1>9, <1>10, <1>11, <1>12, <1>13

(* There are as many scores beyond the trigger as observations of them.     *)
LEMMA SameNumber ==
  ASSUME TypeOK, Latest, NEW f \in Features, NEW sign \in {-1, 1}
  PROVE  Cardinality({i \in (Before + 1)..Len(observed) :
                        Spiked(i, f, sign)})
           = Beyond(window_zscores, f, sign)
<1>1. PICK n \in Nat : n = Len(observed)
  BY DEF TypeOK
<1>2. PICK k \in Nat : k = Len(window_zscores)
  BY DEF TypeOK
<1>3. PICK b \in Nat : b = Before
  BY DEF Latest
<1>4. b + k = n
  BY <1>1, <1>2, <1>3 DEF Before
<1>5. PICK S : S = {i \in 1..k : window_zscores[i].z[f] = sign}
  OBVIOUS
<1>6. PICK T : T = {i \in (b + 1)..n : observed[i].z[f] = sign}
  OBVIOUS
<1>7. PICK g : g = [i \in S |-> b + i]
  OBVIOUS
<1>8. g \in Bijection(S, T)
  <2>1. \A i \in 1..k : window_zscores[i].z = observed[b + i].z
    BY <1>2, <1>3 DEF Latest
  <2>2. g \in [S -> T]
    <3>1. ASSUME NEW i \in S
          PROVE  b + i \in T
      <4>1. i \in 1..k /\ window_zscores[i].z[f] = sign
        BY <1>5
      <4>2. b + i \in (b + 1)..n
        BY <1>4, <4>1
      <4>3. observed[b + i].z[f] = sign
        BY <2>1, <4>1
      <4>4. QED
        BY <1>6, <4>2, <4>3
    <3>2. QED
      BY <1>7, <3>1
  <2>3. ASSUME NEW i \in S, NEW j \in S, g[i] = g[j]
        PROVE  i = j
    <3>1. i \in Nat /\ j \in Nat
      BY <1>5
    <3>2. b + i = b + j
      BY <1>7, <2>3
    <3>3. QED
      BY <3>1, <3>2
  <2>4. ASSUME NEW t \in T
        PROVE  \E i \in S : g[i] = t
    <3>1. t \in (b + 1)..n /\ observed[t].z[f] = sign
      BY <1>6
    <3>2. t - b \in 1..k /\ b + (t - b) = t
      BY <1>4, <3>1
    <3>3. window_zscores[t - b].z = observed[t].z
      BY <2>1, <3>2
    <3>4. t - b \in S
      BY <1>5, <3>1, <3>2, <3>3
    <3>5. g[t - b] = t
      BY <1>7, <3>2, <3>4
    <3>6. QED
      BY <3>4, <3>5
  <2>5. QED
    BY <2>2, <2>3, <2>4, Fun_IsBij
<1>9. IsFiniteSet(S)
  <2>1. IsFiniteSet(1..k) /\ S \in SUBSET (1..k)
    BY <1>5, FS_Interval
  <2>2. QED
    BY <2>1, FS_Subset
<1>10. Cardinality(T) = Cardinality(S)
  <2>1. ExistsBijection(S, T)
    BY <1>8 DEF ExistsBijection
  <2>2. QED
    BY <1>9, <2>1, FS_Bijection
<1>11. Cardinality(S) = Beyond(window_zscores, f, sign)
  <2>1. DOMAIN window_zscores = 1..k
    BY <1>2 DEF TypeOK
  <2>2. QED
    BY <1>5, <2>1 DEF Beyond
<1>12. T = {i \in (Before + 1)..Len(observed) : Spiked(i, f, sign)}
  BY <1>1, <1>3, <1>6 DEF Spiked
<1>13. QED
  BY <1>10, <1>11, <1>12

(* So an alarm now is justified by what the fleet window holds.             *)
LEMMA JustifiedNow ==
  TypeOK /\ ObservedOnTime /\ Latest /\ AlarmsNow => Justified(Len(observed))
<1> SUFFICES ASSUME TypeOK, ObservedOnTime, Latest, AlarmsNow
             PROVE  Justified(Len(observed))
  OBVIOUS
<1>1. PICK n \in Nat : n = Len(observed)
  BY DEF TypeOK
<1>2. PICK k \in Nat : k = Len(window_zscores)
  BY DEF TypeOK
<1>3. PICK b \in Nat : b = Before
  BY DEF Latest
<1>4. b + k = n /\ k > 0
  <2>1. b + k = n
    BY <1>1, <1>2, <1>3 DEF Before
  <2>2. k # 0
    BY <1>2 DEF AlarmsNow, TypeOK
  <2>3. QED
    BY <2>1, <2>2
<1>5. PICK f \in Features :
        /\ Affected(window_zscores, f) >= 2
        /\ Affected(window_zscores, f) * 100
             >= Percent * Cardinality(active_clients)
        /\ InThisGroup(window_zscores, f, observed[n].client)
  BY <1>1 DEF AlarmsNow, CheckCoordinated
<1>6. PICK sign \in {-1, 1} : sign = Direction(window_zscores, f)
  BY DEF Direction
<1>7. PICK W : W = {i \in (b + 1)..n : Spiked(i, f, sign)}
  OBVIOUS
<1>8. Cardinality(W) = Affected(window_zscores, f)
  BY <1>1, <1>3, <1>6, <1>7, SameNumber DEF Affected
<1>9. W \in SUBSET {i \in 1..n : Spiked(i, f, sign)}
  <2>1. \A i \in (b + 1)..n : i \in 1..n
    OBVIOUS
  <2>2. QED
    BY <1>7, <2>1
<1>10. Cardinality(W) >= 2
  BY <1>5, <1>8
<1>11. Cardinality(W) * 100 >= Percent * observed[n].active
  BY <1>1, <1>5, <1>8 DEF AlarmsNow
<1>12. \E i \in W : observed[i].client = observed[n].client
  <2>1. PICK m \in 1..k :
          /\ window_zscores[m].client = observed[n].client
          /\ window_zscores[m].z[f] = sign
    <3>1. DOMAIN window_zscores = 1..k
      BY <1>2 DEF TypeOK
    <3>2. QED
      BY <1>5, <1>6, <3>1 DEF InThisGroup
  <2>2. /\ window_zscores[m].client = observed[b + m].client
        /\ window_zscores[m].z = observed[b + m].z
    BY <1>2, <1>3 DEF Latest
  <2>3. b + m \in (b + 1)..n
    BY <1>4
  <2>4. b + m \in W
    BY <1>7, <2>1, <2>2, <2>3 DEF Spiked
  <2>5. QED
    BY <2>1, <2>2, <2>4
<1>13. ASSUME NEW i \in W, NEW j \in W \cup {n}
       PROVE  observed[j].start - observed[i].start < FleetWindow + Late
  <2>1. i \in (b + 1)..n /\ j \in (b + 1)..n
    BY <1>4, <1>7
  <2>2. QED
    BY <1>1, <1>3, <2>1, OneSpan
<1>14. QED
  BY <1>1, <1>9, <1>10, <1>11, <1>12, <1>13 DEF Justified

(* And after a step, in the state it leads to.                              *)
LEMMA JustifiedThen ==
  (TypeOK /\ ObservedOnTime /\ Latest /\ AlarmsNow)'
    => Justified(Len(observed))'
BY JustifiedNow, PTL

(* What was justified stays so: only earlier observations matter.           *)
LEMMA AlarmStep ==
  ASSUME IInv, NEW c, NEW start, NEW z, Observes(c, start, z),
         TypeOK', ObservedOnTime', Latest'
  PROVE  AlarmIsJustified'
<1>1. PICK o \in Observed :
        /\ window_zscores' # <<>>
        /\ observed' = Append(observed, o)
        /\ o.client = c
        /\ o.active = Cardinality(active_clients')
        /\ o.alarm = CheckCoordinated(window_zscores', active_clients', c)
  <2>1. TypeOK /\ Latest
    BY DEF IInv
  <2>2. PICK kept \in Seq([client : Clients, start : Nat, z : Z]),
             p \in Observed :
           /\ window_zscores' =
                Append(kept, [client |-> c, start |-> start, z |-> z])
           /\ observed' = Append(observed, p)
           /\ p.client = c /\ p.start = start /\ p.z = z
           /\ p.active = Cardinality(active_clients')
           /\ p.alarm = CheckCoordinated(window_zscores', active_clients', c)
           /\ active_clients' \subseteq Clients
           /\ \/ kept = <<>> /\ window_start' = start
              \/ /\ kept = window_zscores
                 /\ window_start' = window_start
                 /\ window_start \in Nat
                 /\ start < window_start + FleetWindow
    BY <2>1, ObserveEffect
  <2>3. window_zscores' # <<>>
    <3>1. PICK r : r = [client |-> c, start |-> start, z |-> z]
      OBVIOUS
    <3>2. r \in [client : Clients, start : Nat, z : Z]
      BY <3>1 DEF Observes
    <3>3. Len(window_zscores') = Len(kept) + 1 /\ Len(kept) \in Nat
      BY <2>2, <3>1, <3>2
    <3>4. QED
      BY <3>3
  <2>4. QED
    BY <2>2, <2>3
<1>2. PICK n \in Nat : n = Len(observed)
  BY DEF IInv, TypeOK
<1>3. /\ Len(observed') = n + 1
      /\ \A i \in 1..n : observed'[i] = observed[i]
      /\ observed'[n + 1] = o
      /\ DOMAIN observed = 1..n /\ DOMAIN observed' = 1..(n + 1)
  <2>1. observed \in Seq(Observed)
    BY DEF IInv, TypeOK, Observed
  <2>2. QED
    BY <1>1, <1>2, <2>1
<1>4. Late' = Late
  BY DEF Late
<1>5. ASSUME NEW m \in 1..n, observed[m].alarm
      PROVE  Justified(m)'
  <2>1. Justified(m)
    BY <1>3, <1>5 DEF IInv, AlarmIsJustified, Justified
  <2>2. PICK f \in Features, sign \in {-1, 1} :
          \E W \in SUBSET {i \in 1..m : Spiked(i, f, sign)} :
            /\ Cardinality(W) >= 2
            /\ Cardinality(W) * 100 >= Percent * observed[m].active
            /\ \E i \in W : observed[i].client = observed[m].client
            /\ \A i \in W : \A j \in W \cup {m} :
                 observed[j].start - observed[i].start < FleetWindow + Late
    BY <2>1 DEF Justified
  <2>3. PICK W \in SUBSET {i \in 1..m : Spiked(i, f, sign)} :
            /\ Cardinality(W) >= 2
            /\ Cardinality(W) * 100 >= Percent * observed[m].active
            /\ \E i \in W : observed[i].client = observed[m].client
            /\ \A i \in W : \A j \in W \cup {m} :
                 observed[j].start - observed[i].start < FleetWindow + Late
    BY <2>2
  <2>4. \A i \in 1..m : i \in 1..n /\ observed'[i] = observed[i]
    BY <1>3
  <2>5. m \in 1..m
    OBVIOUS
  <2>6. W \in SUBSET {i \in 1..m : Spiked(i, f, sign)'}
    BY <2>3, <2>4 DEF Spiked
  <2>7. /\ Cardinality(W) * 100 >= Percent * observed'[m].active
        /\ \E i \in W : observed'[i].client = observed'[m].client
        /\ \A i \in W : \A j \in W \cup {m} :
             observed'[j].start - observed'[i].start < FleetWindow + Late'
    BY <1>4, <2>3, <2>4, <2>5
  <2>8. QED
    BY <2>3, <2>6, <2>7 DEF Justified
<1>6. o.alarm => Justified(n + 1)'
  <2>1. SUFFICES ASSUME o.alarm
                 PROVE  Justified(n + 1)'
    OBVIOUS
  <2>2. AlarmsNow'
    BY <1>1, <1>3, <2>1 DEF AlarmsNow
  <2>3. Justified(Len(observed))'
    BY <2>2, JustifiedThen
  <2>4. QED
    BY <1>3, <2>3 DEF Justified
<1>7. ASSUME NEW m \in 1..(n + 1), observed'[m].alarm
      PROVE  Justified(m)'
  <2>1. CASE m \in 1..n
    BY <1>3, <1>5, <1>7, <2>1
  <2>2. CASE m = n + 1
    BY <1>3, <1>6, <1>7, <2>2
  <2>3. QED
    BY <2>1, <2>2
<1>8. QED
  BY <1>3, <1>7 DEF AlarmIsJustified, Justified

-----------------------------------------------------------------------------
(* The invariant.                                                           *)

(* No window, no score, no alarm.                                           *)
LEMMA Initial ==
  ASSUME Init
  PROVE  IInv
<1>1. TypeOK
  BY DEF Init, TypeOK
<1>2. Len(observed) = 0 /\ Len(window_zscores) = 0
  BY DEF Init
<1>3. ObservedOnTime
  BY <1>2 DEF ObservedOnTime
<1>4. Latest
  BY <1>2 DEF Init, Latest, Before
<1>5. OpenOnTime
  BY DEF Init, OpenOnTime
<1>6. AlarmIsJustified
  BY DEF Init, AlarmIsJustified
<1>7. QED
  BY <1>1, <1>3, <1>4, <1>5, <1>6 DEF IInv

(* Each step observes one window or leaves the fleet alone.                 *)
LEMMA Step ==
  ASSUME IInv, Next
  PROVE  IInv'
<1>1. /\ acc' \in [Clients -> Accumulator \cup {NoWindow}]
      /\ OpenOnTime'
  BY OpenStep DEF IInv
<1>2. ASSUME NEW c \in Clients, NEW start \in Nat, NEW z \in Z,
             Observes(c, start, z)
      PROVE  IInv'
  <2>1. /\ active_clients' \subseteq Clients
        /\ window_zscores' \in Seq([client : Clients, start : Nat, z : Z])
        /\ window_start' \in Nat \cup {NoStart}
        /\ observed' \in Seq(Observed)
        /\ ObservedOnTime'
        /\ Latest'
    BY <1>2, ObserveKeeps
  <2>2. now' \in Nat
    BY <1>2 DEF Observes, IInv, TypeOK
  <2>3. TypeOK'
    BY <1>1, <2>1, <2>2 DEF TypeOK, Observed
  <2>4. AlarmIsJustified'
    BY <1>2, <2>1, <2>3, AlarmStep
  <2>5. QED
    BY <1>1, <2>1, <2>3, <2>4 DEF IInv
<1>3. CASE now' \in Nat /\ now <= now' /\ UNCHANGED fleet
  <2>1. TypeOK'
    BY <1>1, <1>3 DEF IInv, TypeOK, fleet
  <2>2. Latest'
    BY <1>3 DEF IInv, Latest, Before, fleet
  <2>3. AlarmIsJustified'
    BY <1>3 DEF IInv, AlarmIsJustified, Spiked, Late, fleet
  <2>4. ObservedOnTime'
    <3>1. observed' = observed /\ observed \in Seq(Observed) /\ now \in Nat
      BY <1>3 DEF IInv, TypeOK, Observed, fleet
    <3>2. \A i \in 1..Len(observed) :
            /\ observed[i].start \in Nat
            /\ observed[i].start + WindowLen <= now
      <4>1. \A i \in 1..Len(observed) : observed[i] \in Observed
        BY <3>1
      <4>2. QED
        BY <4>1 DEF IInv, ObservedOnTime, Observed
    <3>3. \A i \in 1..Len(observed) : observed[i].start + WindowLen <= now'
      BY <1>3, <3>1, <3>2
    <3>4. QED
      BY <3>1, <3>3 DEF IInv, ObservedOnTime, Late
  <2>5. QED
    BY <1>1, <2>1, <2>2, <2>3, <2>4 DEF IInv
<1>4. QED
  BY <1>2, <1>3, StepObserves DEF IInv

(* All of it, always.                                                       *)
LEMMA Invariant == Spec => []IInv
<1>1. Init => IInv
  BY Initial
<1>2. IInv /\ [Next]_vars => IInv'
  <2>1. ASSUME IInv, UNCHANGED vars
        PROVE  IInv'
    <3>1. UNCHANGED <<now, acc>> /\ UNCHANGED fleet
      BY <2>1 DEF vars
    <3>2. TypeOK' /\ OpenOnTime'
      BY <2>1, <3>1 DEF IInv, TypeOK, OpenOnTime, fleet
    <3>3. ObservedOnTime'
      BY <2>1, <3>1 DEF IInv, ObservedOnTime, Late, fleet
    <3>4. Latest'
      BY <2>1, <3>1 DEF IInv, Latest, Before, fleet
    <3>5. AlarmIsJustified'
      BY <2>1, <3>1 DEF IInv, AlarmIsJustified, Spiked, Late, fleet
    <3>6. QED
      BY <3>2, <3>3, <3>4, <3>5 DEF IInv
  <2>2. QED
    BY <2>1, Step
<1>3. QED
  BY <1>1, <1>2, PTL DEF Spec

-----------------------------------------------------------------------------
(* Coordinated drift is caught: how the fleet windows cut the observations. *)

(* The latest observation is the one of the latest score.                   *)
Decided ==
  observed # <<>> =>
    /\ window_zscores # <<>>
    /\ window_zscores[Len(window_zscores)].client
         = observed[Len(observed)].client
    /\ observed[Len(observed)].active = Cardinality(active_clients)
    /\ observed[Len(observed)].alarm
         = CheckCoordinated(window_zscores, active_clients,
                            observed[Len(observed)].client)

(* The j-th observation, spiking as the i-th did before it, raised an alarm *)
(* if the fleet was large enough and nothing had spiked the other way.      *)
Due(i, j) ==
  \A f \in Features, sign \in {-1, 1} :
    /\ Spiked(i, f, sign) /\ Spiked(j, f, sign)
    /\ \A m \in 1..j : ~Spiked(m, f, -sign)
    /\ observed[j].active >= MinFleetSize
    /\ Percent * observed[j].active <= 200
    => observed[j].alarm

(* first[i] is the observation that began the fleet window the i-th is in.  *)
Cut(first) ==
  /\ \A i \in 1..Len(observed) :
       /\ first[i] \in 1..i
       /\ observed[i].start < observed[first[i]].start + FleetWindow
       /\ i <= Before => first[i] <= Before
       /\ i > Before => first[i] = Before + 1
  /\ \A i, j \in 1..Len(observed) :
       /\ i < j /\ first[i] # first[j]
            => observed[first[i]].start + FleetWindow
                 <= observed[first[j]].start
       /\ i < j /\ first[i] = first[j] => Due(i, j)

CutInv ==
  /\ Decided
  /\ \E first \in [1..Len(observed) -> Nat] : Cut(first)

LEMMA TwoOf ==
  ASSUME NEW b \in Nat, NEW n \in Nat, NEW T, T \subseteq (b + 1)..n,
         NEW i \in T, NEW j \in T, i # j
  PROVE  Cardinality(T) \in Nat /\ Cardinality(T) >= 2
<1>1. IsFiniteSet(T)
  <2>1. PICK lo \in Nat : lo = b + 1
    OBVIOUS
  <2>2. IsFiniteSet(lo..n) /\ T \in SUBSET (lo..n)
    BY <2>1, FS_Interval
  <2>3. QED
    BY <2>2, FS_Subset
<1>2. Cardinality({i}) = 1 /\ IsFiniteSet({i})
  BY FS_Singleton
<1>3. j \notin {i} /\ {i, j} = {i} \cup {j}
  OBVIOUS
<1>4. Cardinality({i} \cup {j}) = 2
  <2>1. Cardinality({i} \cup {j}) = Cardinality({i}) + 1
    BY <1>2, <1>3, FS_AddElement
  <2>2. QED
    BY <1>2, <2>1
<1>5. {i, j} \in SUBSET T
  OBVIOUS
<1>6. Cardinality({i, j}) <= Cardinality(T)
  BY <1>1, <1>5, FS_Subset
<1>7. Cardinality(T) \in Nat
  BY <1>1, FS_CardinalityType
<1>8. QED
  BY <1>3, <1>4, <1>6, <1>7

(* Two scores that spike the same way, the second of them the latest.       *)
LEMMA DueNow ==
  TypeOK /\ Latest /\ Decided
    => \A i \in (Before + 1)..(Len(observed) - 1) : Due(i, Len(observed))
<1> SUFFICES ASSUME TypeOK, Latest, Decided,
                    NEW i \in (Before + 1)..(Len(observed) - 1),
                    NEW f \in Features, NEW sign \in {-1, 1},
                    Spiked(i, f, sign), Spiked(Len(observed), f, sign),
                    \A m \in 1..Len(observed) : ~Spiked(m, f, -sign),
                    observed[Len(observed)].active >= MinFleetSize,
                    Percent * observed[Len(observed)].active <= 200
             PROVE  observed[Len(observed)].alarm
  BY DEF Due
<1>1. PICK n \in Nat : n = Len(observed)
  BY DEF TypeOK
<1>2. PICK b \in Nat : b = Before
  BY DEF Latest
<1>3. PICK k \in Nat : k = Len(window_zscores)
  BY DEF TypeOK
<1>4. b + k = n /\ i \in (b + 1)..n /\ n \in (b + 1)..n /\ i # n /\ k >= 1
  <2>1. b + k = n
    BY <1>1, <1>2, <1>3 DEF Before
  <2>2. i \in (b + 1)..(n - 1)
    BY <1>1, <1>2
  <2>3. QED
    BY <2>1, <2>2
<1>5. PICK T : T = {m \in (b + 1)..n : Spiked(m, f, sign)}
  OBVIOUS
<1>6. Cardinality(T) = Beyond(window_zscores, f, sign)
  <2>1. Cardinality({m \in (b + 1)..n : Spiked(m, f, sign)})
          = Beyond(window_zscores, f, sign)
    BY <1>1, <1>2, SameNumber
  <2>2. QED
    BY <1>5, <2>1, Zenon
<1>7. Cardinality(T) \in Nat /\ Cardinality(T) >= 2
  <2>1. T \subseteq (b + 1)..n /\ i \in T /\ n \in T
    BY <1>1, <1>4, <1>5
  <2>2. QED
    BY <1>4, <2>1, TwoOf
<1>8. -sign \in {-1, 1} /\ Beyond(window_zscores, f, -sign) = 0
  <2>1. -sign \in {-1, 1}
    OBVIOUS
  <2>2. PICK t \in {-1, 1} : t = -sign
    BY <2>1
  <2>3. {m \in (b + 1)..n : Spiked(m, f, t)} = {}
    <3>1. \A m \in (b + 1)..n : m \in 1..n
      OBVIOUS
    <3>2. QED
      BY <1>1, <2>2, <3>1
  <2>4. Cardinality({m \in (b + 1)..n : Spiked(m, f, t)})
          = Beyond(window_zscores, f, t)
    BY <1>1, <1>2, SameNumber
  <2>5. Beyond(window_zscores, f, t) = 0
    BY <2>3, <2>4, FS_EmptySet
  <2>6. QED
    BY <2>1, <2>2, <2>5
<1>9. Direction(window_zscores, f) = sign
  <2>1. PICK x \in Nat : x = Beyond(window_zscores, f, sign) /\ x >= 2
    BY <1>6, <1>7
  <2>2. CASE sign = 1
    <3>1. Beyond(window_zscores, f, 1) = x /\ Beyond(window_zscores, f, -1) = 0
      BY <1>8, <2>1, <2>2
    <3>2. QED
      BY <2>1, <2>2, <3>1 DEF Direction
  <2>3. CASE sign = -1
    <3>1. Beyond(window_zscores, f, -1) = x /\ Beyond(window_zscores, f, 1) = 0
      BY <1>8, <2>1, <2>3
    <3>2. QED
      BY <2>1, <2>3, <3>1 DEF Direction
  <2>4. QED
    BY <2>2, <2>3
<1>10. PICK a \in Nat : a = Affected(window_zscores, f) /\ a >= 2
  BY <1>6, <1>7, <1>9 DEF Affected
<1>11. PICK s \in Nat : s = Cardinality(active_clients)
  <2>1. active_clients \in SUBSET Clients
    BY DEF TypeOK
  <2>2. QED
    BY <2>1, FS_Subset, FS_CardinalityType
<1>12. observed # <<>>
  BY <1>1, <1>4
<1>13. /\ observed[n].active = s
       /\ observed[n].alarm
            = CheckCoordinated(window_zscores, active_clients,
                               observed[n].client)
       /\ window_zscores[k].client = observed[n].client
  BY <1>1, <1>3, <1>11, <1>12 DEF Decided
<1>14. s >= MinFleetSize /\ Percent * s <= 200
  BY <1>1, <1>13
<1>15. a * 100 >= Percent * s
  <2>1. a * 100 >= 200 /\ Percent * s \in Int
    BY <1>10
  <2>2. QED
    BY <1>14, <2>1
<1>16. InThisGroup(window_zscores, f, observed[n].client)
  <2>1. k \in DOMAIN window_zscores /\ k \in 1..Len(window_zscores)
    BY <1>3, <1>4 DEF TypeOK
  <2>2. window_zscores[k].z = observed[b + k].z
    BY <1>2, <2>1 DEF Latest
  <2>3. window_zscores[k].z[f] = sign
    BY <1>1, <1>4, <2>2 DEF Spiked
  <2>4. QED
    BY <1>9, <1>13, <2>1, <2>3 DEF InThisGroup
<1>17. CheckCoordinated(window_zscores, active_clients, observed[n].client)
  BY <1>10, <1>11, <1>14, <1>15, <1>16 DEF CheckCoordinated
<1>18. QED
  BY <1>1, <1>13, <1>17

LEMMA DueThen ==
  (TypeOK /\ Latest /\ Decided)'
    => (\A i \in (Before + 1)..(Len(observed) - 1) : Due(i, Len(observed)))'
BY DueNow, PTL

(* An observation falls into the fleet window or begins the next.           *)
LEMMA RollsOrStays ==
  ASSUME TypeOK, Latest, NEW c, NEW start, NEW z, Observes(c, start, z)
  PROVE  \/ /\ Before' = Len(observed)
            /\ \/ window_start = NoStart
               \/ /\ window_start \in Nat
                  /\ window_start + FleetWindow <= start
         \/ /\ Before' = Before
            /\ window_start \in Nat
            /\ start < window_start + FleetWindow
<1>1. start \in Nat /\ c \in Clients /\ z \in Z
  BY DEF Observes
<1>2. PICK seen : seen = [client |-> c, start |-> start, z |-> z]
  OBVIOUS
<1>3. seen \in [client : Clients, start : Nat, z : Z]
  BY <1>1, <1>2
<1>4. PICK kept : kept = IF FleetRolls(start) THEN <<>> ELSE window_zscores
  OBVIOUS
<1>5. kept \in Seq([client : Clients, start : Nat, z : Z])
  BY <1>4 DEF TypeOK
<1>6. window_zscores' = Append(kept, seen)
  BY <1>2, <1>4 DEF Observes, Observe
<1>7. PICK k \in Nat : k = Len(kept)
  BY <1>5
<1>8. PICK n \in Nat : n = Len(observed)
  BY DEF TypeOK
<1>9. Len(window_zscores') = k + 1
  BY <1>3, <1>5, <1>6, <1>7
<1>10. Len(observed') = n + 1
  BY <1>8 DEF Observes, Observe, TypeOK
<1>11. Before' = n - k
  BY <1>7, <1>8, <1>9, <1>10 DEF Before
<1>12. CASE kept = <<>>
  <2>1. Before' = n
    BY <1>7, <1>11, <1>12
  <2>2. CASE FleetRolls(start)
    <3>1. window_start \in Nat /\ start - window_start >= FleetWindow
      BY <2>2 DEF FleetRolls, TypeOK
    <3>2. window_start + FleetWindow <= start
      BY <1>1, <3>1
    <3>3. QED
      BY <1>8, <2>1, <3>1, <3>2
  <2>3. CASE ~FleetRolls(start)
    BY <1>4, <1>8, <1>12, <2>1, <2>3 DEF Latest
  <2>4. QED
    BY <2>2, <2>3
<1>13. CASE kept # <<>>
  <2>1. ~FleetRolls(start) /\ kept = window_zscores
    BY <1>4, <1>13
  <2>2. Before' = Before
    BY <1>7, <1>8, <1>11, <2>1 DEF Before
  <2>3. window_start \in Nat
    BY <1>13, <2>1 DEF Latest, TypeOK
  <2>4. start < window_start + FleetWindow
    BY <1>1, <2>1, <2>3 DEF FleetRolls
  <2>5. QED
    BY <2>2, <2>3, <2>4
<1>14. QED
  BY <1>12, <1>13

(* What is observed joins the cut of the present fleet window, or begins    *)
(* one at least a fleet window later.                                       *)
LEMMA ObserveCuts ==
  ASSUME IInv, CutInv, IInv', NEW c, NEW start, NEW z, Observes(c, start, z)
  PROVE  CutInv'
<1>1. TypeOK /\ Latest /\ TypeOK' /\ Latest'
  BY DEF IInv
<1>2. PICK n \in Nat : n = Len(observed)
  BY <1>1 DEF TypeOK
<1>3. PICK b \in Nat : b = Before /\ b <= n
  <2>1. Before \in Nat /\ Len(window_zscores) \in Nat
    BY <1>1 DEF Latest, TypeOK
  <2>2. PICK k \in Nat : k = Len(window_zscores)
    BY <2>1
  <2>3. Before = n - k
    BY <1>2, <2>2 DEF Before
  <2>4. Before <= n
    BY <2>3
  <2>5. QED
    BY <2>1, <2>4
<1>4. PICK kept \in Seq([client : Clients, start : Nat, z : Z]),
           o \in Observed :
        /\ window_zscores' =
             Append(kept, [client |-> c, start |-> start, z |-> z])
        /\ observed' = Append(observed, o)
        /\ o.client = c /\ o.start = start /\ o.z = z
        /\ o.active = Cardinality(active_clients')
        /\ o.alarm = CheckCoordinated(window_zscores', active_clients', c)
        /\ active_clients' \subseteq Clients
        /\ \/ kept = <<>> /\ window_start' = start
           \/ /\ kept = window_zscores
              /\ window_start' = window_start
              /\ window_start \in Nat
              /\ start < window_start + FleetWindow
  BY <1>1, ObserveEffect
<1>5. /\ observed \in Seq(Observed)
      /\ Len(observed') = n + 1
      /\ \A i \in 1..n : observed'[i] = observed[i]
      /\ observed'[n + 1] = o
      /\ \A i \in 1..n : observed[i].start \in Nat
  <2>1. observed \in Seq(Observed)
    BY <1>1 DEF TypeOK, Observed
  <2>2. \A i \in 1..n : observed[i] \in Observed
    BY <1>2, <2>1
  <2>3. \A i \in 1..n : observed[i].start \in Nat
    BY <2>2 DEF Observed
  <2>4. QED
    BY <1>2, <1>4, <2>1, <2>3
<1>6. start \in Nat /\ o.start = start
  BY <1>4 DEF Observes
<1>7. Decided'
  <2>1. PICK s : s = [client |-> c, start |-> start, z |-> z]
    OBVIOUS
  <2>2. s \in [client : Clients, start : Nat, z : Z] /\ s.client = c
    BY <2>1 DEF Observes
  <2>3. PICK k \in Nat : k = Len(kept)
    BY <1>4
  <2>4. /\ Len(window_zscores') = k + 1 /\ window_zscores'[k + 1] = s
        /\ window_zscores' # <<>>
    BY <1>4, <2>1, <2>2, <2>3
  <2>5. QED
    BY <1>4, <1>5, <2>2, <2>4 DEF Decided
<1>8. PICK first \in [1..n -> Nat] : Cut(first)
  BY <1>2 DEF CutInv
<1>9. \A i \in 1..n :
        /\ first[i] \in 1..i
        /\ observed[i].start < observed[first[i]].start + FleetWindow
        /\ i <= b => first[i] <= b
        /\ i > b => first[i] = b + 1
  BY <1>2, <1>3, <1>8 DEF Cut
<1>10. \A i, j \in 1..n :
         /\ i < j /\ first[i] # first[j]
              => observed[first[i]].start + FleetWindow
                   <= observed[first[j]].start
         /\ i < j /\ first[i] = first[j] => Due(i, j)
  BY <1>2, <1>8 DEF Cut
<1>11. PICK p \in Nat :
         /\ p <= n /\ Before' = p
         /\ \/ p = n
            \/ p = b /\ p < n /\ start < observed[p + 1].start + FleetWindow
         /\ p = n => \A i \in 1..n :
              observed[first[i]].start + FleetWindow <= start
         /\ \A i \in 1..p : first[i] <= p
  <2>1. CASE /\ Before' = Len(observed)
             /\ \/ window_start = NoStart
                \/ /\ window_start \in Nat
                   /\ window_start + FleetWindow <= start
    <3>1. ASSUME NEW i \in 1..n
          PROVE  observed[first[i]].start + FleetWindow <= start
      <4>1. window_zscores # <<>>
        BY <1>1, <1>2, <3>1 DEF CutInv, Decided
      <4>2. window_start # NoStart /\ window_start = window_zscores[1].start
        BY <1>1, <4>1 DEF Latest
      <4>3. 1 \in 1..Len(window_zscores)
        BY <1>1, <4>1 DEF TypeOK
      <4>4. window_start = observed[b + 1].start
        BY <1>1, <1>3, <4>2, <4>3 DEF Latest
      <4>5. b + 1 \in 1..n
        <5>1. b = n - Len(window_zscores) /\ Len(window_zscores) \in Nat
          BY <1>1, <1>2, <1>3 DEF Before, TypeOK
        <5>2. QED
          BY <4>3, <5>1
      <4>6. observed[b + 1].start + FleetWindow <= start
        BY <2>1, <4>2, <4>4
      <4>7. CASE i > b
        BY <1>9, <4>6, <4>7
      <4>8. CASE i <= b
        <5>1. first[b + 1] = b + 1 /\ first[i] <= b /\ first[i] \in 1..i
          BY <1>9, <4>5, <4>8
        <5>2. i < b + 1 /\ first[i] # first[b + 1]
          BY <4>8, <5>1
        <5>3. observed[first[i]].start + FleetWindow
                <= observed[b + 1].start
          BY <1>10, <4>5, <5>1, <5>2
        <5>4. first[i] \in 1..n
          BY <5>1
        <5>5. PICK x, y \in Nat :
                x = observed[first[i]].start /\ y = observed[b + 1].start
          BY <1>5, <4>5, <5>4
        <5>6. x + FleetWindow <= y /\ y + FleetWindow <= start
          BY <4>6, <5>3, <5>5
        <5>7. x + FleetWindow <= start
          BY <1>6, <5>6
        <5>8. QED
          BY <5>5, <5>7
      <4>9. QED
        BY <4>7, <4>8
    <3>2. \A i \in 1..n : first[i] <= n
      BY <1>9
    <3>3. QED
      BY <1>2, <2>1, <3>1, <3>2
  <2>2. CASE /\ Before' = Before
             /\ window_start \in Nat
             /\ start < window_start + FleetWindow
    <3>1. window_zscores # <<>> /\ window_start = window_zscores[1].start
      BY <1>1, <2>2 DEF Latest, TypeOK
    <3>2. 1 \in 1..Len(window_zscores) /\ Len(window_zscores) \in Nat
      BY <1>1, <3>1 DEF TypeOK
    <3>3. window_start = observed[b + 1].start
      BY <1>1, <1>3, <3>1, <3>2 DEF Latest
    <3>4. b < n
      BY <1>2, <1>3, <3>2 DEF Before
    <3>5. \A i \in 1..b : first[i] <= b
      BY <1>9, <3>4
    <3>6. QED
      BY <1>3, <2>2, <3>3, <3>4, <3>5
  <2>3. QED
    BY <1>1, <2>1, <2>2, RollsOrStays
<1>12. PICK g : g = [i \in 1..(n + 1) |-> IF i <= n THEN first[i] ELSE p + 1]
  OBVIOUS
<1>13. /\ g \in [1..(n + 1) -> Nat] /\ g[n + 1] = p + 1
       /\ \A i \in 1..n : g[i] = first[i]
  BY <1>9, <1>12
<1>14. \A i \in 1..n, j \in 1..n : Due(i, j) => Due(i, j)'
  <2>1. SUFFICES ASSUME NEW i \in 1..n, NEW j \in 1..n, Due(i, j)
                 PROVE  Due(i, j)'
    OBVIOUS
  <2>2. \A m \in 1..j : observed'[m] = observed[m]
    BY <1>5
  <2>3. observed'[i] = observed[i] /\ observed'[j] = observed[j]
    BY <1>5
  <2>4. QED
    BY <2>1, <2>2, <2>3 DEF Due, Spiked
<1>15. \A i \in (p + 1)..n : Due(i, n + 1)'
  <2>1. \A i \in (Before' + 1)..(Len(observed') - 1) : Due(i, Len(observed))'
    BY <1>1, <1>7, DueThen
  <2>2. ASSUME NEW i \in (p + 1)..n
        PROVE  Due(i, n + 1)'
    <3>1. i \in (Before' + 1)..(Len(observed') - 1)
      BY <1>5, <1>11
    <3>2. Due(i, Len(observed))'
      BY <2>1, <3>1
    <3>3. QED
      BY <1>5, <3>2 DEF Due, Spiked
  <2>3. QED
    BY <2>2
<1>16. ASSUME NEW i \in 1..(n + 1)
       PROVE  /\ g[i] \in 1..i
              /\ observed'[i].start < observed'[g[i]].start + FleetWindow
              /\ i <= p => g[i] <= p
              /\ i > p => g[i] = p + 1
  <2>1. CASE i \in 1..n
    <3>1. /\ g[i] = first[i] /\ first[i] \in 1..i /\ first[i] \in 1..n
          /\ observed'[i] = observed[i]
          /\ observed'[first[i]] = observed[first[i]]
      <4>1. first[i] \in 1..i /\ g[i] = first[i]
        BY <1>9, <1>13, <2>1
      <4>2. first[i] \in 1..n
        BY <2>1, <4>1
      <4>3. QED
        BY <1>5, <2>1, <4>1, <4>2
    <3>2. i <= p => g[i] <= p
      BY <1>11, <3>1
    <3>3. i > p => g[i] = p + 1
      BY <1>9, <1>11, <2>1, <3>1
    <3>4. QED
      BY <1>9, <2>1, <3>1, <3>2, <3>3
  <2>2. CASE i = n + 1
    <3>1. g[i] = p + 1 /\ g[i] \in 1..i /\ i > p
      BY <1>11, <1>13, <2>2
    <3>2. observed'[i].start = start
      BY <1>5, <1>6, <2>2
    <3>3. start < observed'[p + 1].start + FleetWindow
      <4>1. CASE p = n
        BY <1>5, <1>6, <4>1
      <4>2. CASE p < n
        <5>1. p + 1 \in 1..n
          BY <4>2
        <5>2. observed'[p + 1] = observed[p + 1]
          BY <1>5, <5>1
        <5>3. QED
          BY <1>11, <4>2, <5>2
      <4>3. QED
        BY <1>11, <4>1, <4>2
    <3>4. QED
      BY <3>1, <3>2, <3>3
  <2>3. QED
    BY <2>1, <2>2
<1>17. ASSUME NEW i \in 1..(n + 1), NEW j \in 1..(n + 1), i < j
       PROVE  /\ g[i] # g[j]
                   => observed'[g[i]].start + FleetWindow
                        <= observed'[g[j]].start
              /\ g[i] = g[j] => Due(i, j)'
  <2>1. /\ i \in 1..n /\ g[i] = first[i] /\ first[i] \in 1..n
        /\ first[i] <= i
        /\ observed'[first[i]] = observed[first[i]]
    <3>1. i \in 1..n
      BY <1>17
    <3>2. first[i] \in 1..i
      BY <1>9, <3>1
    <3>3. first[i] \in 1..n /\ first[i] <= i
      BY <3>1, <3>2
    <3>4. QED
      BY <1>5, <1>13, <3>1, <3>3
  <2>2. CASE j \in 1..n
    <3>1. /\ g[j] = first[j] /\ first[j] \in 1..n
          /\ observed'[first[j]] = observed[first[j]]
      BY <1>5, <1>9, <1>13, <2>2
    <3>2. QED
      BY <1>10, <1>14, <1>17, <2>1, <2>2, <3>1
  <2>3. CASE j = n + 1
    <3>1. g[j] = p + 1
      BY <1>13, <2>3
    <3>2. CASE p = n
      <4>1. observed'[g[j]].start = start
        BY <1>5, <1>6, <3>1, <3>2
      <4>2. observed[first[i]].start + FleetWindow <= start
        BY <1>11, <2>1, <3>2
      <4>3. g[i] # g[j]
        BY <2>1, <3>1, <3>2
      <4>4. QED
        BY <2>1, <4>1, <4>2, <4>3
    <3>3. CASE p = b /\ p < n
      <4>1. p + 1 \in 1..n /\ first[p + 1] = p + 1
        BY <1>9, <3>3
      <4>2. observed'[g[j]] = observed[p + 1]
        BY <1>5, <3>1, <4>1
      <4>3. CASE i > p
        <5>1. g[i] = g[j] /\ i \in (p + 1)..n
          BY <1>9, <2>1, <3>1, <3>3, <4>3
        <5>2. QED
          BY <1>15, <2>3, <5>1
      <4>4. CASE i <= p
        <5>1. i < p + 1 /\ first[i] # first[p + 1]
          BY <1>9, <2>1, <3>3, <4>1, <4>4
        <5>2. observed[first[i]].start + FleetWindow
                <= observed[first[p + 1]].start
          BY <1>10, <2>1, <4>1, <5>1
        <5>3. QED
          BY <2>1, <3>1, <4>1, <4>2, <5>1, <5>2
      <4>5. QED
        BY <2>1, <4>3, <4>4
    <3>4. QED
      BY <1>11, <3>2, <3>3
  <2>4. QED
    BY <2>2, <2>3
<1>18. Cut(g)'
  BY <1>5, <1>11, <1>16, <1>17 DEF Cut
<1>19. g \in [1..Len(observed') -> Nat]
  BY <1>5, <1>13
<1>20. QED
  BY <1>7, <1>18, <1>19 DEF CutInv

(* Where nothing is observed, the cut stays.                                *)
LEMMA StillCut ==
  ASSUME CutInv, UNCHANGED fleet
  PROVE  CutInv'
<1>1. /\ observed' = observed /\ window_zscores' = window_zscores
      /\ active_clients' = active_clients
  BY DEF fleet
<1>2. Decided'
  BY <1>1 DEF CutInv, Decided
<1>3. Before' = Before
  BY <1>1 DEF Before
<1>4. PICK first \in [1..Len(observed) -> Nat] : Cut(first)
  BY DEF CutInv
<1>5. \A i, j : Due(i, j) => Due(i, j)'
  BY <1>1 DEF Due, Spiked
<1>6. Cut(first)'
  BY <1>1, <1>3, <1>4, <1>5 DEF Cut
<1>7. QED
  BY <1>1, <1>2, <1>4, <1>6 DEF CutInv

LEMMA CutInvariant == Spec => []CutInv
<1>1. Init => CutInv
  <2>1. SUFFICES ASSUME Init PROVE CutInv
    OBVIOUS
  <2>2. Len(observed) = 0 /\ observed = <<>>
    BY <2>1 DEF Init
  <2>3. PICK first : first = [i \in 1..0 |-> i]
    OBVIOUS
  <2>4. first \in [1..Len(observed) -> Nat] /\ Cut(first)
    BY <2>2, <2>3 DEF Cut
  <2>5. QED
    BY <2>2, <2>4 DEF CutInv, Decided
<1>2. IInv /\ IInv' /\ CutInv /\ [Next]_vars => CutInv'
  <2>1. SUFFICES ASSUME IInv, IInv', CutInv, [Next]_vars
                 PROVE  CutInv'
    OBVIOUS
  <2>2. CASE Next
    <3>1. \/ \E c \in Clients, start \in Nat, z \in Z : Observes(c, start, z)
          \/ UNCHANGED fleet
      BY <2>1, <2>2, StepObserves DEF IInv
    <3>2. QED
      BY <2>1, <3>1, ObserveCuts, StillCut
  <2>3. CASE UNCHANGED vars
    <3>1. UNCHANGED fleet
      BY <2>3 DEF vars
    <3>2. QED
      BY <2>1, <3>1, StillCut
  <2>4. QED
    BY <2>1, <2>2, <2>3
<1>3. QED
  BY <1>1, <1>2, Invariant, PTL DEF Spec

-----------------------------------------------------------------------------
(* Whatever the fleet and the lengths of its windows, sweeps and fleet      *)
(* windows, the observations and the open windows stay of their types       *)
(* (FleetBaseline.observe).                                                 *)
THEOREM TypeCorrect == Spec => []TypeOK
<1>1. IInv => TypeOK
  BY DEF IInv
<1>2. QED
  BY <1>1, Invariant, PTL

(* And every alarm is justified (_check_coordinated): it is about the client*)
(* it is raised for, and the windows that reach the quorum began within one *)
(* fleet window and the lateness of a window.                               *)
THEOREM AlarmsJustified == Spec => []AlarmIsJustified
<1>1. IInv => AlarmIsJustified
  BY DEF IInv
<1>2. QED
  BY <1>1, Invariant, PTL

(* Of four windows in one span, two are in the same fleet window: a third   *)
(* fleet window begins two lengths after the first, a fourth one three, and *)
(* a window lies at most Late before the fleet window it falls into.        *)
LEMMA LeastNat ==
  ASSUME NEW T, T \subseteq Nat, T # {}
  PROVE  \E n \in T : \A m \in T : n <= m
<1>1. PICK n \in T : \A m \in T : ~(<<m, n>> \in OpToRel(<, Nat))
  BY WFMin, NatLessThanWellFounded
<1>2. \A m \in T : <<m, n>> \in OpToRel(<, Nat) <=> m < n
  BY DEF OpToRel
<1>3. \A m \in T : ~(m < n)
  BY <1>1, <1>2, Zenon
<1>4. \A m \in T : n <= m
  BY <1>3
<1>5. QED
  BY <1>4

LEMMA NextOf ==
  ASSUME NEW W, W \subseteq Nat, IsFiniteSet(W), NEW k \in Nat,
         Cardinality(W) >= k + 1
  PROVE  \E a \in W : /\ \A m \in W \ {a} : a < m
                      /\ IsFiniteSet(W \ {a})
                      /\ Cardinality(W \ {a}) >= k
<1>1. Cardinality(W) \in Nat /\ W # {}
  BY FS_CardinalityType, FS_EmptySet
<1>2. PICK a \in W : \A m \in W : a <= m
  BY <1>1, LeastNat
<1>3. /\ IsFiniteSet(W \ {a})
      /\ Cardinality(W \ {a}) = Cardinality(W) - 1
  BY <1>2, FS_RemoveElement
<1>4. \A m \in W \ {a} : a < m
  BY <1>2
<1>5. PICK w \in Nat : w = Cardinality(W)
  BY <1>1
<1>6. Cardinality(W \ {a}) >= k
  <2>1. w >= k + 1 /\ Cardinality(W \ {a}) = w - 1
    BY <1>3, <1>5
  <2>2. w - 1 >= k
    BY <2>1
  <2>3. QED
    BY <2>1, <2>2
<1>7. QED
  BY <1>2, <1>3, <1>4, <1>6

LEMMA FourInOrder ==
  ASSUME NEW W, W \subseteq Nat, IsFiniteSet(W), Cardinality(W) >= 4
  PROVE  \E i, j, k, l \in W : i < j /\ j < k /\ k < l
<1>1. PICK i \in W : /\ \A m \in W \ {i} : i < m
                     /\ IsFiniteSet(W \ {i})
                     /\ Cardinality(W \ {i}) >= 3
  <2>1. Cardinality(W) >= 3 + 1
    BY FS_CardinalityType
  <2>2. QED
    BY <2>1, NextOf
<1>2. PICK V : V = W \ {i} /\ V \subseteq Nat
  OBVIOUS
<1>3. PICK j \in V : /\ \A m \in V \ {j} : j < m
                     /\ IsFiniteSet(V \ {j})
                     /\ Cardinality(V \ {j}) >= 2
  <2>1. IsFiniteSet(V) /\ Cardinality(V) >= 2 + 1
    BY <1>1, <1>2, FS_CardinalityType
  <2>2. QED
    BY <1>2, <2>1, NextOf
<1>4. PICK U : U = V \ {j} /\ U \subseteq Nat
  BY <1>2
<1>5. PICK k \in U : /\ \A m \in U \ {k} : k < m
                     /\ IsFiniteSet(U \ {k})
                     /\ Cardinality(U \ {k}) >= 1
  <2>1. IsFiniteSet(U) /\ Cardinality(U) >= 1 + 1
    BY <1>3, <1>4, FS_CardinalityType
  <2>2. QED
    BY <1>4, <2>1, NextOf
<1>6. PICK l \in U \ {k} : k < l
  <2>1. U \ {k} # {}
    BY <1>5, FS_EmptySet
  <2>2. QED
    BY <1>5, <2>1
<1>7. QED
  BY <1>1, <1>2, <1>3, <1>4, <1>5, <1>6

LEMMA Caught ==
  ASSUME Late <= FleetWindow, IInv, CutInv
  PROVE  CoordinationIsCaught
<1> SUFFICES ASSUME NEW f \in Features, NEW sign \in {-1, 1},
                    NEW W \in SUBSET {i \in DOMAIN observed :
                                        Spiked(i, f, sign)},
                    Cardinality(W) >= 4,
                    \A i, j \in W :
                      observed[j].start - observed[i].start < FleetWindow,
                    \A i \in W :
                      /\ observed[i].active >= MinFleetSize
                      /\ Percent * observed[i].active <= 2 * 100,
                    \A i \in DOMAIN observed : ~Spiked(i, f, -sign),
                    \A i \in W : ~observed[i].alarm
             PROVE  FALSE
  BY DEF CoordinationIsCaught
<1>1. PICK n \in Nat : n = Len(observed)
  BY DEF IInv, TypeOK
<1>2. observed \in Seq(Observed) /\ DOMAIN observed = 1..n
  BY <1>1 DEF IInv, TypeOK, Observed
<1>3. \A i \in 1..n : observed[i].start \in Nat
  <2>1. \A i \in 1..n : observed[i] \in Observed
    BY <1>1, <1>2
  <2>2. QED
    BY <2>1 DEF Observed
<1>4. W \subseteq 1..n /\ \A i \in W : Spiked(i, f, sign)
  BY <1>2
<1>5. IsFiniteSet(W)
  <2>1. IsFiniteSet(1..n)
    BY FS_Interval
  <2>2. QED
    BY <1>4, <2>1, FS_Subset
<1>6. PICK i, j, k, l \in W : i < j /\ j < k /\ k < l
  <2>1. W \subseteq Nat
    BY <1>4
  <2>2. QED
    BY <1>5, <2>1, FourInOrder
<1>7. PICK first \in [1..n -> Nat] : Cut(first)
  BY <1>1 DEF CutInv
<1>8. ASSUME NEW x \in W, NEW y \in W, x < y
      PROVE  /\ first[x] # first[y]
             /\ observed[first[x]].start + FleetWindow
                  <= observed[first[y]].start
  <2>1. x \in 1..n /\ y \in 1..n
    BY <1>4
  <2>2. ~Due(x, y)
    <3>1. \A m \in 1..y : m \in DOMAIN observed
      BY <1>2, <2>1
    <3>2. Spiked(x, f, sign) /\ Spiked(y, f, sign)
      BY <1>4
    <3>3. /\ observed[y].active >= MinFleetSize
          /\ Percent * observed[y].active <= 200
          /\ ~observed[y].alarm
      OBVIOUS
    <3>4. QED
      BY <3>1, <3>2, <3>3 DEF Due
  <2>3. QED
    BY <1>1, <1>7, <1>8, <2>1, <2>2 DEF Cut
<1>9. ASSUME NEW x \in W
      PROVE  /\ first[x] \in 1..n
             /\ observed[x].start < observed[first[x]].start + FleetWindow
             /\ observed[first[x]].start <= observed[x].start + Late
  <2>1. x \in 1..n
    BY <1>4
  <2>2. /\ first[x] \in 1..x
        /\ observed[x].start < observed[first[x]].start + FleetWindow
    BY <1>1, <1>7, <2>1 DEF Cut
  <2>3. first[x] \in 1..n
    BY <2>1, <2>2
  <2>4. Late \in Nat
    BY DEF Late
  <2>5. CASE first[x] = x
    BY <1>3, <2>1, <2>2, <2>3, <2>4, <2>5
  <2>6. CASE first[x] < x
    BY <1>1, <2>1, <2>2, <2>3, <2>6 DEF IInv, ObservedOnTime
  <2>7. QED
    BY <2>1, <2>2, <2>3, <2>5, <2>6
<1>10. /\ first[i] \in 1..n /\ first[j] \in 1..n /\ first[k] \in 1..n
       /\ first[l] \in 1..n /\ i \in 1..n /\ l \in 1..n
  BY <1>4, <1>9
<1>11. PICK a, b, c, d, s, t \in Nat :
         /\ a = observed[first[i]].start /\ b = observed[first[j]].start
         /\ c = observed[first[k]].start /\ d = observed[first[l]].start
         /\ s = observed[i].start /\ t = observed[l].start
  BY <1>3, <1>10
<1>12. /\ a + FleetWindow <= b /\ b + FleetWindow <= c
       /\ c + FleetWindow <= d
  BY <1>6, <1>8, <1>11
<1>13. s < a + FleetWindow /\ d <= t + Late /\ t - s < FleetWindow
  BY <1>9, <1>11
<1>14. Late \in Nat
  BY DEF Late
<1>15. QED
  BY <1>12, <1>13, <1>14

(* Four windows that drift together in one span of a fleet window raise an  *)
(* alarm (_maybe_roll_window, _check_coordinated), whatever the fleet and   *)
(* however its windows are cut, if windows reach it no later than a fleet   *)
(* window after their end.                                                  *)
THEOREM CoordinationCaught ==
  ASSUME Late <= FleetWindow
  PROVE  Spec => []CoordinationIsCaught
<1>1. IInv /\ CutInv => CoordinationIsCaught
  BY Caught
<1>2. QED
  BY <1>1, Invariant, CutInvariant, PTL
=============================================================================
