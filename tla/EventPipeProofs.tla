-------------------------- MODULE EventPipeProofs ---------------------------
(***************************************************************************)
(* The safety properties of EventPipe for rings and batches of any size,   *)
(* any number of events and faults; and its refinement of LossyFifo.       *)
(***************************************************************************)
EXTENDS EventPipe, SequenceTheorems, TLAPS

(* The head is where the next event goes; a batch is held exactly while it  *)
(* is being sent.                                                           *)
Shape ==
  /\ head = Slot(count)
  /\ pc \in {"connect", "xadd"} <=> batch # <<>>

(* With Redis up from the beginning no connection is stale.                 *)
NoOutage ==
  redis = "up" /\ faults = 0 =>
    /\ ctx # "stale"
    /\ main # "unloaded" => lost = 0

IInv == /\ TypeOK
        /\ Shape
        /\ PathInOrder
        /\ EveryEventAccounted
        /\ NoOutage

USE PipeAssumption

-----------------------------------------------------------------------------
(* Places in the ring.                                                      *)

(* A step around the ring wraps at most once.                               *)
LEMMA Wraps ==
  ASSUME NEW t \in Index, NEW i \in 0..RingSize
  PROVE  (t + i) % RingSize = IF t + i < RingSize THEN t + i
                              ELSE t + i - RingSize
<1>1. RingSize \in Nat \ {0} /\ t \in 0..(RingSize - 1)
  BY DEF Index
<1>2. CASE t + i < RingSize
  BY <1>1, <1>2
<1>3. CASE RingSize <= t + i
  BY <1>1, <1>3
<1>4. QED
  BY <1>1, <1>2, <1>3

(* Slots of one turn are distinct places of the ring.                       *)
LEMMA Slots ==
  ASSUME TypeOK
  PROVE  /\ \A i \in 0..RingSize : Slot(i) \in Index
         /\ \A i, j \in 0..(RingSize - 1) : Slot(i) = Slot(j) => i = j
         /\ \A i \in 0..RingSize :
              Slot(i) = IF tail + i < RingSize THEN tail + i
                        ELSE tail + i - RingSize
<1>1. tail \in Index
  BY DEF TypeOK
<1>2. \A i \in 0..RingSize :
        Slot(i) = IF tail + i < RingSize THEN tail + i
                  ELSE tail + i - RingSize
  BY <1>1, Wraps DEF Slot
<1>3. QED
  BY <1>1, <1>2 DEF Index

(* What the ring holds is a sequence.                                       *)
LEMMA ContentsType ==
  ASSUME TypeOK
  PROVE  /\ Contents \in Seq(Nat)
         /\ Len(Contents) = count
         /\ \A i \in 1..count : Contents[i] = slots[Slot(i - 1)]
<1>1. count \in 0..RingSize /\ slots \in [Index -> Nat]
  BY DEF TypeOK
<1>2. \A i \in 1..count : slots[Slot(i - 1)] \in Nat
  BY <1>1, Slots
<1>3. Contents \in [1..count -> Nat] /\ count \in Nat
  BY <1>1, <1>2 DEF Contents
<1>4. QED
  BY <1>3 DEF Contents

-----------------------------------------------------------------------------
(* Order along a path.                                                      *)
InOrder(s, n) ==
  /\ \A i, j \in 1..Len(s) : i < j => s[i] < s[j]
  /\ \A i \in 1..Len(s) : s[i] \in 1..n

(* The two parts of a concatenation.                                        *)
LEMMA ConcatParts ==
  ASSUME NEW a \in Seq(Nat), NEW b \in Seq(Nat)
  PROVE  /\ a \o b \in Seq(Nat)
         /\ Len(a \o b) = Len(a) + Len(b)
         /\ \A i \in 1..Len(a) : (a \o b)[i] = a[i]
         /\ \A i \in 1..Len(b) : (a \o b)[Len(a) + i] = b[i]
<1>1. Len(a) \in Nat /\ Len(b) \in Nat
  OBVIOUS
<1>2. \A i \in 1..(Len(a) + Len(b)) :
        (a \o b)[i] = IF i <= Len(a) THEN a[i] ELSE b[i - Len(a)]
  BY ConcatProperties
<1>3. ASSUME NEW i \in 1..Len(b)
      PROVE  (a \o b)[Len(a) + i] = b[i]
  <2>1. /\ Len(a) + i \in 1..(Len(a) + Len(b))
        /\ ~(Len(a) + i <= Len(a))
        /\ (Len(a) + i) - Len(a) = i
    BY <1>1
  <2>2. QED
    BY <1>2, <2>1
<1>4. \A i \in 1..Len(a) : (a \o b)[i] = a[i]
  BY <1>1, <1>2
<1>5. QED
  BY <1>3, <1>4, ConcatProperties

(* A subsequence of a sequence in order is in order.                        *)
LEMMA Picked ==
  ASSUME NEW s \in Seq(Nat), NEW t \in Seq(Nat), NEW n \in Nat,
         InOrder(s, n),
         NEW g \in [1..Len(t) -> 1..Len(s)],
         \A i, j \in 1..Len(t) : i < j => g[i] < g[j],
         \A i \in 1..Len(t) : t[i] = s[g[i]]
  PROVE  InOrder(t, n)
<1>1. \A i \in 1..Len(t) : t[i] \in 1..n
  BY DEF InOrder
<1>2. ASSUME NEW i \in 1..Len(t), NEW j \in 1..Len(t), i < j
      PROVE  t[i] < t[j]
  <2>1. g[i] \in 1..Len(s) /\ g[j] \in 1..Len(s) /\ g[i] < g[j]
    BY <1>2
  <2>2. s[g[i]] < s[g[j]]
    BY <2>1 DEF InOrder
  <2>3. QED
    BY <2>2
<1>3. QED
  BY <1>1, <1>2 DEF InOrder

(* Increasing choices of places.                                            *)
LEMMA IncreasingType ==
  ASSUME NEW n \in Nat, NEW k \in Nat, NEW f \in Increasing(k, n)
  PROVE  /\ \A i \in 1..k : f[i] \in 1..n
         /\ \A i, j \in 1..k : i < j => f[i] < f[j]
BY DEF Increasing

(* A choice of places in the middle part extends to all three parts.        *)
Spliced(la, lb, lc, k, f) ==
  \E g \in [1..(la + k + lc) -> 1..(la + lb + lc)] :
    /\ \A i \in 1..la : g[i] = i
    /\ \A i \in 1..k : g[la + i] = la + f[i]
    /\ \A i \in 1..lc : g[la + k + i] = la + lb + i
    /\ \A i, j \in 1..(la + k + lc) : i < j => g[i] < g[j]

(* Choosing places of the middle part only is an increasing choice.         *)
LEMMA Splice ==
  ASSUME NEW la \in Nat, NEW lb \in Nat, NEW lc \in Nat, NEW k \in Nat,
         k <= lb, NEW f \in Increasing(k, lb)
  PROVE  Spliced(la, lb, lc, k, f)
<1> DEFINE G(i) == IF i <= la THEN i
                   ELSE IF i <= la + k THEN la + f[i - la]
                   ELSE i + (lb - k)
           m == la + k + lc
<1>1. /\ \A i \in 1..k : f[i] \in 1..lb
      /\ \A i, j \in 1..k : i < j => f[i] < f[j]
  BY IncreasingType
<1>2. ASSUME NEW i \in 1..m
      PROVE  /\ i <= la => G(i) = i
             /\ i > la /\ i <= la + k => i - la \in 1..k
                                           /\ G(i) = la + f[i - la]
             /\ i > la + k => G(i) = i + (lb - k)
             /\ G(i) \in 1..(la + lb + lc)
  <2>1. CASE i <= la
    BY <2>1
  <2>2. CASE i > la /\ i <= la + k
    <3>1. i - la \in 1..k
      BY <2>2
    <3>2. f[i - la] \in 1..lb
      BY <1>1, <3>1
    <3>3. QED
      BY <2>2, <3>1, <3>2
  <2>3. CASE i > la + k
    BY <2>3
  <2>4. QED
    BY <2>1, <2>2, <2>3
<1>3. ASSUME NEW i \in 1..m, NEW j \in 1..m, i < j
      PROVE  G(i) < G(j)
  <2> HIDE DEF G
  <2>1. CASE j <= la
    BY <1>2, <1>3, <2>1
  <2>2. CASE i <= la /\ j > la /\ j <= la + k
    <3>1. f[j - la] \in 1..lb
      BY <1>1, <1>2, <2>2
    <3>2. QED
      BY <1>2, <2>2, <3>1
  <2>3. CASE i > la /\ j <= la + k
    <3>1. /\ i - la \in 1..k /\ j - la \in 1..k /\ i - la < j - la
      BY <1>3, <2>3
    <3>2. /\ f[i - la] < f[j - la]
          /\ f[i - la] \in 1..lb /\ f[j - la] \in 1..lb
      BY <1>1, <3>1
    <3>3. G(i) = la + f[i - la] /\ G(j) = la + f[j - la]
      BY <1>2, <1>3, <2>3
    <3>4. QED
      BY <3>2, <3>3
  <2>4. CASE i <= la /\ j > la + k
    BY <1>2, <2>4
  <2>5. CASE i > la /\ i <= la + k /\ j > la + k
    <3>1. f[i - la] \in 1..lb
      BY <1>1, <1>2, <2>5
    <3>2. QED
      BY <1>2, <2>5, <3>1
  <2>6. CASE i > la + k
    BY <1>2, <1>3, <2>6
  <2>7. QED
    BY <1>3, <2>1, <2>2, <2>3, <2>4, <2>5, <2>6
<1> DEFINE g == [i \in 1..m |-> G(i)]
<1>4. g \in [1..m -> 1..(la + lb + lc)] /\ \A i \in 1..m : g[i] = G(i)
  BY <1>2
<1>5. \A i \in 1..la : g[i] = i
  BY <1>4
<1>6. ASSUME NEW i \in 1..k
      PROVE  g[la + i] = la + f[i]
  <2>1. /\ la + i \in 1..m /\ la + i > la /\ la + i <= la + k
        /\ (la + i) - la = i
    OBVIOUS
  <2>2. G(la + i) = la + f[(la + i) - la]
    BY <1>2, <2>1
  <2>3. QED
    BY <1>4, <2>1, <2>2
<1>7. ASSUME NEW i \in 1..lc
      PROVE  g[la + k + i] = la + lb + i
  <2>1. la + k + i \in 1..m /\ la + k + i > la + k
    OBVIOUS
  <2>2. G(la + k + i) = (la + k + i) + (lb - k)
    BY <1>2, <2>1
  <2>3. QED
    BY <1>4, <2>1, <2>2
<1>8. \A i, j \in 1..m : i < j => g[i] < g[j]
  <2> HIDE DEF G, g, m
  <2>1. QED
    BY <1>3, <1>4
<1> HIDE DEF g, G
<1>9. QED
  BY <1>4, <1>5, <1>6, <1>7, <1>8 DEF Spliced

(* Leaving only chosen places of a piece of a path leaves it in order.      *)
LEMMA CutOut ==
  ASSUME NEW a \in Seq(Nat), NEW b \in Seq(Nat), NEW c \in Seq(Nat),
         NEW k \in 0..Len(b), NEW f \in Increasing(k, Len(b)), NEW n \in Nat,
         InOrder(a \o b \o c, n)
  PROVE  /\ InOrder(a \o [i \in 1..k |-> b[f[i]]] \o c, n)
         /\ Len(a \o [i \in 1..k |-> b[f[i]]] \o c)
              = Len(a \o b \o c) - (Len(b) - k)
<1> DEFINE old == a \o b \o c
           cut == [i \in 1..k |-> b[f[i]]]
           new == a \o cut \o c
<1>1. /\ Len(a) \in Nat /\ Len(b) \in Nat /\ Len(c) \in Nat
      /\ k \in Nat /\ k <= Len(b)
  OBVIOUS
<1>f. /\ \A i \in 1..k : f[i] \in 1..Len(b)
      /\ \A i, j \in 1..k : i < j => f[i] < f[j]
  BY <1>1, IncreasingType
<1>2. cut \in Seq(Nat) /\ Len(cut) = k /\ \A i \in 1..k : cut[i] = b[f[i]]
  <2>1. \A i \in 1..k : b[f[i]] \in Nat
    BY <1>f
  <2>2. cut \in [1..k -> Nat]
    BY <2>1
  <2>3. QED
    BY <1>1, <2>2
<1>3. /\ Len(a \o b) = Len(a) + Len(b) /\ a \o b \in Seq(Nat)
      /\ \A i \in 1..Len(a) : (a \o b)[i] = a[i]
      /\ \A i \in 1..Len(b) : (a \o b)[Len(a) + i] = b[i]
  BY ConcatParts
<1>4. /\ Len(old) = Len(a) + Len(b) + Len(c) /\ old \in Seq(Nat)
      /\ \A i \in 1..(Len(a) + Len(b)) : old[i] = (a \o b)[i]
      /\ \A i \in 1..Len(c) : old[Len(a) + Len(b) + i] = c[i]
  <2> DEFINE ab == a \o b
  <2> HIDE DEF ab
  <2>1. /\ Len(ab \o c) = Len(ab) + Len(c) /\ ab \o c \in Seq(Nat)
        /\ \A i \in 1..Len(ab) : (ab \o c)[i] = ab[i]
        /\ \A i \in 1..Len(c) : (ab \o c)[Len(ab) + i] = c[i]
    BY <1>3, ConcatParts DEF ab
  <2>2. QED
    BY <1>1, <1>3, <2>1 DEF ab
<1> HIDE DEF cut
<1>5. /\ Len(a \o cut) = Len(a) + k /\ a \o cut \in Seq(Nat)
      /\ \A i \in 1..Len(a) : (a \o cut)[i] = a[i]
      /\ \A i \in 1..k : (a \o cut)[Len(a) + i] = b[f[i]]
  <2>1. /\ Len(a \o cut) = Len(a) + Len(cut) /\ a \o cut \in Seq(Nat)
        /\ \A i \in 1..Len(a) : (a \o cut)[i] = a[i]
        /\ \A i \in 1..Len(cut) : (a \o cut)[Len(a) + i] = cut[i]
    BY <1>2, ConcatParts
  <2>2. QED
    BY <1>2, <2>1
<1>6. /\ Len(new) = Len(a) + k + Len(c) /\ new \in Seq(Nat)
      /\ \A i \in 1..(Len(a) + k) : new[i] = (a \o cut)[i]
      /\ \A i \in 1..Len(c) : new[Len(a) + k + i] = c[i]
  <2> DEFINE ac == a \o cut
  <2> HIDE DEF ac
  <2>1. /\ Len(ac \o c) = Len(ac) + Len(c) /\ ac \o c \in Seq(Nat)
        /\ \A i \in 1..Len(ac) : (ac \o c)[i] = ac[i]
        /\ \A i \in 1..Len(c) : (ac \o c)[Len(ac) + i] = c[i]
    BY <1>5, ConcatParts DEF ac
  <2>2. QED
    BY <1>1, <1>5, <2>1 DEF ac
<1> HIDE DEF old, new
<1>7. PICK g \in [1..(Len(a) + k + Len(c)) -> 1..(Len(a) + Len(b) + Len(c))] :
        /\ \A i \in 1..Len(a) : g[i] = i
        /\ \A i \in 1..k : g[Len(a) + i] = Len(a) + f[i]
        /\ \A i \in 1..Len(c) : g[Len(a) + k + i] = Len(a) + Len(b) + i
        /\ \A i, j \in 1..(Len(a) + k + Len(c)) : i < j => g[i] < g[j]
  <2>1. Spliced(Len(a), Len(b), Len(c), k, f)
    BY <1>1, Splice
  <2>2. QED
    BY <2>1 DEF Spliced
<1>8. ASSUME NEW i \in 1..(Len(a) + k + Len(c))
      PROVE  new[i] = old[g[i]]
  <2>1. CASE i \in 1..Len(a)
    <3>1. i \in 1..(Len(a) + k) /\ i \in 1..(Len(a) + Len(b))
      BY <1>1, <2>1
    <3>2. new[i] = a[i]
      BY <1>5, <1>6, <2>1, <3>1
    <3>3. old[i] = a[i]
      BY <1>3, <1>4, <2>1, <3>1
    <3>4. QED
      BY <1>7, <2>1, <3>2, <3>3
  <2>2. ASSUME NEW e \in 1..k, i = Len(a) + e
        PROVE  new[i] = old[g[i]]
    <3>0. f[e] \in 1..Len(b)
      BY <1>f
    <3>1. /\ f[e] \in 1..Len(b)
          /\ Len(a) + e \in 1..(Len(a) + k)
          /\ Len(a) + f[e] \in 1..(Len(a) + Len(b))
      BY <1>1, <3>0
    <3>2. new[Len(a) + e] = b[f[e]]
      BY <1>5, <1>6, <3>1
    <3>3. old[Len(a) + f[e]] = b[f[e]]
      BY <1>3, <1>4, <3>1
    <3>4. g[Len(a) + e] = Len(a) + f[e]
      BY <1>7
    <3>5. QED
      BY <2>2, <3>2, <3>3, <3>4
  <2>3. ASSUME NEW e \in 1..Len(c), i = Len(a) + k + e
        PROVE  new[i] = old[g[i]]
    <3>1. new[Len(a) + k + e] = c[e] /\ old[Len(a) + Len(b) + e] = c[e]
      BY <1>4, <1>6
    <3>2. g[Len(a) + k + e] = Len(a) + Len(b) + e
      BY <1>7
    <3>3. QED
      BY <2>3, <3>1, <3>2
  <2>4. \/ i \in 1..Len(a)
        \/ i - Len(a) \in 1..k /\ i = Len(a) + (i - Len(a))
        \/ /\ i - (Len(a) + k) \in 1..Len(c)
           /\ i = Len(a) + k + (i - (Len(a) + k))
    BY <1>1
  <2>5. QED
    BY <2>1, <2>2, <2>3, <2>4
<1>9. InOrder(old, n)
  BY DEF old
<1>10. InOrder(new, n)
  <2>1. /\ new \in Seq(Nat) /\ old \in Seq(Nat)
        /\ 1..Len(new) = 1..(Len(a) + k + Len(c))
        /\ 1..Len(old) = 1..(Len(a) + Len(b) + Len(c))
    BY <1>4, <1>6
  <2>2. /\ g \in [1..Len(new) -> 1..Len(old)]
        /\ \A i, j \in 1..Len(new) : i < j => g[i] < g[j]
        /\ \A i \in 1..Len(new) : new[i] = old[g[i]]
    BY <1>7, <1>8, <2>1, Zenon
  <2>3. QED
    BY <1>9, <2>1, <2>2, Picked
<1>11. Len(new) = Len(old) - (Len(b) - k)
  BY <1>1, <1>4, <1>6
<1>12. QED
  BY <1>10, <1>11 DEF old, new, cut

(* Appending to the end of a path appends to the path.                      *)
LEMMA LaterAppended ==
  ASSUME NEW a \in Seq(Nat), NEW b \in Seq(Nat), NEW e \in Nat
  PROVE  a \o Append(b, e) = Append(a \o b, e)
<1> DEFINE be == Append(b, e)
           ab == a \o b
           l == a \o be
           r == Append(ab, e)
<1>1. /\ be \in Seq(Nat) /\ Len(be) = Len(b) + 1
      /\ be[Len(b) + 1] = e
      /\ \A i \in 1..Len(b) : be[i] = b[i]
  BY AppendProperties
<1>2. /\ ab \in Seq(Nat) /\ Len(ab) = Len(a) + Len(b)
      /\ \A i \in 1..Len(a) : ab[i] = a[i]
      /\ \A i \in 1..Len(b) : ab[Len(a) + i] = b[i]
  BY ConcatParts
<1> HIDE DEF be, ab
<1>3. /\ l \in Seq(Nat) /\ Len(l) = Len(a) + Len(be)
      /\ \A i \in 1..Len(a) : l[i] = a[i]
      /\ \A i \in 1..Len(be) : l[Len(a) + i] = be[i]
  BY <1>1, ConcatParts
<1>4. /\ r \in Seq(Nat) /\ Len(r) = Len(ab) + 1
      /\ r[Len(ab) + 1] = e
      /\ \A i \in 1..Len(ab) : r[i] = ab[i]
  BY <1>2, AppendProperties
<1> HIDE DEF l, r
<1>5. Len(a) \in Nat /\ Len(b) \in Nat
  OBVIOUS
<1>6. ASSUME NEW i \in 1..Len(l)
      PROVE  l[i] = r[i]
  <2>1. CASE i \in 1..Len(a)
    <3>1. i \in 1..Len(ab)
      BY <1>2, <1>5, <2>1
    <3>2. QED
      BY <1>2, <1>3, <1>4, <2>1, <3>1
  <2>2. CASE i \notin 1..Len(a)
    <3>1. PICK j \in 1..Len(be) : i = Len(a) + j
      <4>1. i - Len(a) \in 1..Len(be) /\ i = Len(a) + (i - Len(a))
        BY <1>1, <1>3, <1>5, <2>2
      <4>2. QED
        BY <4>1
    <3>2. CASE j = Len(b) + 1
      <4>1. l[i] = e
        BY <1>1, <1>3, <3>1, <3>2
      <4>2. i = Len(ab) + 1
        BY <1>2, <1>5, <3>1, <3>2
      <4>3. QED
        BY <1>4, <4>1, <4>2
    <3>3. CASE j # Len(b) + 1
      <4>1. j \in 1..Len(b) /\ i \in 1..Len(ab)
        BY <1>1, <1>2, <1>5, <3>1, <3>3
      <4>2. l[i] = b[j] /\ r[i] = b[j]
        BY <1>1, <1>2, <1>3, <1>4, <3>1, <4>1
      <4>3. QED
        BY <4>2
    <3>4. QED
      BY <3>2, <3>3
  <2>3. QED
    BY <2>1, <2>2
<1>7. Len(l) = Len(r)
  BY <1>1, <1>2, <1>3, <1>4, <1>5
<1>8. QED
  BY <1>3, <1>4, <1>6, <1>7, SeqEqual DEF l, r, be, ab

(* A later event may join the end.                                          *)
LEMMA Joins ==
  ASSUME NEW s \in Seq(Nat), NEW n \in Nat, InOrder(s, n)
  PROVE  /\ InOrder(Append(s, n + 1), n + 1)
         /\ InOrder(s, n + 1)
<1>1. /\ Append(s, n + 1) \in Seq(Nat)
      /\ Len(Append(s, n + 1)) = Len(s) + 1
      /\ Append(s, n + 1)[Len(s) + 1] = n + 1
      /\ \A i \in 1..Len(s) : Append(s, n + 1)[i] = s[i]
  BY AppendProperties
<1>2. Len(s) \in Nat
  OBVIOUS
<1>3. QED
  BY <1>1, <1>2 DEF InOrder

(* Paths are sequences, ordered and accounted for.                          *)
LEMMA PathType ==
  ASSUME TypeOK
  PROVE  /\ stream \in Seq(Nat) /\ batch \in Seq(Nat) /\ Contents \in Seq(Nat)
         /\ Path \in Seq(Nat)
         /\ Len(Path) = Len(stream) + Len(batch) + count
<1>1. /\ stream \in Seq(Nat) /\ batch \in Seq(Nat)
  BY SeqMonotonic DEF TypeOK, Event
<1>2. Contents \in Seq(Nat) /\ Len(Contents) = count
  BY ContentsType
<1>3. /\ stream \o batch \in Seq(Nat)
      /\ Len(stream \o batch) = Len(stream) + Len(batch)
  BY <1>1, ConcatProperties
<1>4. QED
  BY <1>1, <1>2, <1>3, ConcatProperties DEF Path

(* The ring's part of the path.                                             *)
LEMMA RingInOrder ==
  ASSUME TypeOK, PathInOrder
  PROVE  \A i \in 1..count : Contents[i] \in 1..pushed
<1>1. /\ stream \o batch \in Seq(Nat) /\ Contents \in Seq(Nat)
      /\ Len(stream \o batch) \in Nat /\ Len(Contents) = count
  BY PathType, ContentsType, ConcatProperties
<1>2. \A i \in 1..count : Contents[i] = Path[Len(stream \o batch) + i]
  BY <1>1, ConcatProperties DEF Path
<1>3. \A i \in 1..count : Len(stream \o batch) + i \in 1..Len(Path)
  BY <1>1, ConcatProperties DEF Path
<1>4. QED
  BY <1>2, <1>3 DEF PathInOrder

(* PathInOrder in terms of the ordering of sequences.                       *)
LEMMA PathOrdered == PathInOrder <=> InOrder(Path, pushed)
BY DEF PathInOrder, InOrder

-----------------------------------------------------------------------------
(* Induction.                                                               *)

(* Nothing is on its way at the beginning.                                  *)
LEMMA InitIInv == Init => IInv
<1> SUFFICES ASSUME Init PROVE IInv
  OBVIOUS
<1>1. TypeOK
  <2>1. 0 \in Index /\ slots \in [Index -> Nat]
    BY DEF Init, Index, Empty
  <2>2. <<>> \in Seq(Event)
    BY EmptySeq
  <2>3. QED
    BY <2>1, <2>2 DEF Init, TypeOK, RedisState
<1>2. Shape
  <2>1. Slot(0) = 0
    BY <1>1, Slots DEF Init
  <2>2. QED
    BY <2>1 DEF Init, Shape
<1>3. Len(Path) = 0
  BY <1>1, PathType DEF Init
<1>4. PathInOrder /\ EveryEventAccounted
  BY <1>3 DEF Init, PathInOrder, EveryEventAccounted
<1>5. NoOutage
  BY DEF Init, NoOutage
<1>6. QED
  BY <1>1, <1>2, <1>4, <1>5 DEF IInv

(* An event that finds room is the last of the ring.                        *)
LEMMA Pushed ==
  ASSUME IInv, Push, ~RingFull
  PROVE  /\ Contents' = Append(Contents, pushed + 1)
         /\ head' = Slot(count + 1)
         /\ slots' \in [Index -> Nat] /\ head' \in Index
<1>1. /\ slots \in [Index -> Nat] /\ head \in Index /\ count \in 0..RingSize
      /\ pushed \in Nat /\ tail \in Index /\ TypeOK
  BY DEF IInv, TypeOK
<1>2. /\ count < RingSize /\ count' = count + 1 /\ tail' = tail
      /\ slots' = [slots EXCEPT ![head] = pushed + 1]
      /\ head' = (head + 1) % RingSize
      /\ head = Slot(count)
  BY <1>1 DEF Push, RingFull, IInv, Shape
<1>3. head' = Slot(count + 1) /\ head' \in Index
  <2>1. head' = IF head + 1 < RingSize THEN head + 1 ELSE head + 1 - RingSize
    BY <1>1, <1>2, Wraps
  <2>2. count \in 0..RingSize /\ count + 1 \in 0..RingSize
    BY <1>1, <1>2
  <2>3. head = IF tail + count < RingSize THEN tail + count
               ELSE tail + count - RingSize
    BY <1>1, <1>2, <2>2, Slots
  <2>4. Slot(count + 1) = IF tail + (count + 1) < RingSize
                          THEN tail + (count + 1)
                          ELSE tail + (count + 1) - RingSize
    BY <1>1, <2>2, Slots
  <2>5. head' = Slot(count + 1)
    <3>1. /\ RingSize \in Nat /\ tail \in Nat /\ count \in Nat
          /\ tail < RingSize /\ count < RingSize
      BY <1>1, <1>2 DEF Index
    <3>2. CASE tail + count < RingSize
      <4>1. head = tail + count
        BY <2>3, <3>2
      <4>2. CASE tail + count + 1 < RingSize
        BY <2>1, <2>4, <3>1, <4>1, <4>2
      <4>3. CASE ~(tail + count + 1 < RingSize)
        BY <2>1, <2>4, <3>1, <4>1, <4>3
      <4>4. QED
        BY <4>2, <4>3
    <3>3. CASE ~(tail + count < RingSize)
      <4>1. head = tail + count - RingSize
        BY <2>3, <3>3
      <4>2. QED
        BY <2>1, <2>4, <3>1, <3>3, <4>1
    <3>4. QED
      BY <3>2, <3>3
  <2>6. QED
    BY <1>1, <2>2, <2>5, Slots
<1>4. \A i \in 1..count : slots'[Slot(i - 1)] = slots[Slot(i - 1)]
  <2> SUFFICES ASSUME NEW i \in 1..count
               PROVE  slots'[Slot(i - 1)] = slots[Slot(i - 1)]
    OBVIOUS
  <2>1. i - 1 \in 0..(RingSize - 1) /\ count \in 0..(RingSize - 1)
          /\ i - 1 # count /\ i - 1 \in 0..RingSize
    BY <1>1, <1>2
  <2>2. Slot(i - 1) # head /\ Slot(i - 1) \in Index
    BY <1>1, <1>2, <2>1, Slots
  <2>3. QED
    BY <1>1, <1>2, <2>2
<1>5. slots'[Slot(count)] = pushed + 1 /\ slots' \in [Index -> Nat]
  BY <1>1, <1>2
<1>6. Contents' = [i \in 1..(count + 1) |-> slots'[Slot(i - 1)]]
  BY <1>2 DEF Contents, Slot
<1>7. Contents' = Append(Contents, pushed + 1)
  <2> DEFINE app == Append(Contents, pushed + 1)
  <2>1. /\ app \in Seq(Nat) /\ Len(app) = count + 1
        /\ \A i \in 1..count : app[i] = Contents[i]
        /\ app[count + 1] = pushed + 1
    BY <1>1, ContentsType, AppendProperties
  <2>2. app = [i \in 1..(count + 1) |-> app[i]]
    BY <2>1
  <2> HIDE DEF app
  <2>3. ASSUME NEW i \in 1..(count + 1)
        PROVE  app[i] = slots'[Slot(i - 1)]
    <3>1. CASE i \in 1..count
      BY <1>1, <1>4, <2>1, <3>1, ContentsType
    <3>2. CASE i = count + 1
      <4>1. i - 1 = count
        BY <1>1, <3>2
      <4>2. QED
        BY <1>5, <2>1, <3>2, <4>1
    <3>3. QED
      BY <1>1, <3>1, <3>2
  <2>4. QED
    BY <1>6, <2>2, <2>3 DEF app
<1>8. QED
  BY <1>3, <1>5, <1>7

(* A callback pushes an event, or finds the ring full.                      *)
LEMMA PushStep ==
  ASSUME IInv, Push
  PROVE  IInv'
<1>1. /\ TypeOK /\ pushed \in Nat /\ pushed' = pushed + 1
      /\ Path \in Seq(Nat) /\ InOrder(Path, pushed) /\ Len(Path) \in Nat
      /\ Len(Path) = Len(stream) + Len(batch) + count
      /\ stream \in Seq(Nat) /\ batch \in Seq(Nat) /\ Contents \in Seq(Nat)
  BY PathType, PathOrdered DEF IInv, TypeOK, Push
<1>2. UNCHANGED <<tail, running, pc, batch, ctx, backoff_ms, main, stream,
                  redis, lost, faults>>
  BY DEF Push, emitter
<1>3. CASE RingFull
  <2>1. UNCHANGED <<slots, head, count>> /\ dropped' = dropped + 1
    BY <1>3 DEF Push
  <2>2. Path' = Path /\ Contents' = Contents
    BY <1>2, <2>1 DEF Path, Contents, Slot
  <2>3. TypeOK' /\ Shape'
    <3>1. dropped' \in Nat /\ pushed' \in Nat
      BY <1>1, <2>1 DEF TypeOK
    <3>2. TypeOK'
      BY <1>1, <1>2, <2>1, <3>1 DEF TypeOK
    <3>3. Shape'
      BY <1>2, <2>1 DEF IInv, Shape, Slot
    <3>4. QED
      BY <3>2, <3>3
  <2>4. PathInOrder'
    BY <1>1, <2>2, Joins DEF PathInOrder, InOrder
  <2>5. EveryEventAccounted'
    <3>1. /\ dropped \in Nat /\ lost \in Nat
          /\ pushed = Len(Path) + dropped + lost
      BY <1>1 DEF IInv, TypeOK, EveryEventAccounted
    <3>2. Len(Path') = Len(Path) /\ lost' = lost
      BY <1>2, <2>2
    <3>3. QED
      BY <1>1, <2>1, <3>1, <3>2 DEF EveryEventAccounted
  <2>6. QED
    BY <1>2, <2>3, <2>4, <2>5 DEF IInv, NoOutage
<1>4. CASE ~RingFull
  <2>1. /\ Contents' = Append(Contents, pushed + 1)
        /\ head' = Slot(count + 1)
        /\ slots' \in [Index -> Nat] /\ head' \in Index
        /\ count' = count + 1 /\ dropped' = dropped /\ count < RingSize
    BY <1>4, Pushed DEF Push, RingFull, IInv, TypeOK
  <2>2. Path' = Append(Path, pushed + 1)
    <3> DEFINE sent == stream \o batch
    <3>1. sent \in Seq(Nat)
      <4>1. stream \in Seq(Nat) /\ batch \in Seq(Nat)
        BY <1>1
      <4>2. QED
        BY <4>1, ConcatParts
    <3>2. /\ Path' = sent \o Append(Contents, pushed + 1)
          /\ Path = sent \o Contents
      BY <1>2, <2>1 DEF Path
    <3> HIDE DEF sent
    <3>3. Contents \in Seq(Nat) /\ pushed + 1 \in Nat
      BY <1>1
    <3>4. sent \o Append(Contents, pushed + 1)
            = Append(sent \o Contents, pushed + 1)
      BY <3>1, <3>3, LaterAppended
    <3>5. QED
      BY <3>2, <3>4
  <2>3. TypeOK' /\ Shape'
    <3>1. count' \in 0..RingSize /\ pushed' \in Nat
      BY <1>1, <2>1 DEF TypeOK
    <3>2. TypeOK'
      BY <1>1, <1>2, <2>1, <3>1 DEF TypeOK
    <3>3. Shape'
      BY <1>2, <2>1 DEF IInv, Shape, Slot
    <3>4. QED
      BY <3>2, <3>3
  <2>4. PathInOrder'
    BY <1>1, <2>2, Joins DEF PathInOrder, InOrder
  <2>5. EveryEventAccounted'
    <3>1. Len(Path') = Len(Path) + 1
      BY <1>1, <2>2, AppendProperties
    <3>2. QED
      BY <1>1, <1>2, <2>1, <3>1 DEF IInv, TypeOK, EveryEventAccounted
  <2>6. QED
    BY <1>2, <2>3, <2>4, <2>5 DEF IInv, NoOutage
<1>5. QED
  BY <1>3, <1>4

(* A sequence is its first n elements and the others.                       *)
LEMMA Splits ==
  ASSUME NEW b \in Seq(Nat), NEW d \in Seq(Nat), NEW c \in Seq(Nat),
         Len(c) = Len(b) + Len(d),
         \A i \in 1..Len(b) : c[i] = b[i],
         \A i \in 1..Len(d) : c[Len(b) + i] = d[i]
  PROVE  b \o d = c
<1>1. Len(b) \in Nat /\ Len(d) \in Nat
  OBVIOUS
<1> DEFINE bd == b \o d
<1>2. /\ bd \in Seq(Nat) /\ Len(bd) = Len(b) + Len(d)
      /\ \A i \in 1..Len(b) : bd[i] = b[i]
      /\ \A i \in 1..Len(d) : bd[Len(b) + i] = d[i]
  BY ConcatParts
<1> HIDE DEF bd
<1>3. ASSUME NEW i \in 1..Len(bd)
      PROVE  bd[i] = c[i]
  <2>1. CASE i \in 1..Len(b)
    BY <1>2, <2>1
  <2>2. CASE i \notin 1..Len(b)
    <3>1. i - Len(b) \in 1..Len(d) /\ i = Len(b) + (i - Len(b))
      BY <1>1, <1>2, <2>2
    <3>2. PICK j \in 1..Len(d) : i = Len(b) + j
      BY <3>1
    <3>3. bd[Len(b) + j] = c[Len(b) + j]
      BY <1>2
    <3>4. QED
      BY <3>2, <3>3
  <2>3. QED
    BY <2>1, <2>2
<1>4. QED
  BY <1>2, <1>3, SeqEqual DEF bd

(* The emitter takes the oldest events off the ring.                        *)
LEMMA Popped ==
  ASSUME IInv, Pop
  PROVE  /\ batch = <<>>
         /\ batch' \in Seq(Event) /\ batch' \in Seq(Nat)
         /\ Contents' \in Seq(Nat)
         /\ Len(batch') = PopSize
         /\ Len(Contents') = count'
         /\ batch' \o Contents' = Contents
         /\ slots' \in [Index -> Nat] /\ tail' \in Index
         /\ count' \in 0..RingSize
         /\ head' = Slot(count)'
<1> DEFINE n == PopSize
<1>1. /\ slots \in [Index -> Nat] /\ head \in Index /\ count \in 0..RingSize
      /\ pushed \in Nat /\ tail \in Index /\ TypeOK /\ PathInOrder
      /\ head = Slot(count)
  BY DEF IInv, TypeOK, Shape
<1>2. batch = <<>>
  BY DEF IInv, Shape, Pop
<1>3. n \in 0..count /\ count \in Nat /\ n \in Nat /\ n \in 0..RingSize
  BY <1>1 DEF PopSize
<1> HIDE DEF n
<1>4. /\ batch' = [i \in 1..n |-> slots[Slot(i - 1)]]
      /\ slots' = [i \in Index |->
           IF \E j \in 0..(n - 1) : i = Slot(j) THEN Empty ELSE slots[i]]
      /\ tail' = Slot(n)
      /\ count' = count - n
      /\ head' = head
  BY DEF Pop, n
<1>5. /\ Contents \in Seq(Nat) /\ Len(Contents) = count
      /\ \A i \in 1..count : Contents[i] = slots[Slot(i - 1)]
      /\ \A i \in 1..count : Contents[i] \in 1..pushed
  BY <1>1, ContentsType, RingInOrder
<1>6. /\ batch' \in Seq(Event) /\ batch' \in Seq(Nat) /\ Len(batch') = n
      /\ \A i \in 1..n : Contents[i] = batch'[i]
  <2>1. \A i \in 1..n : slots[Slot(i - 1)] = Contents[i] /\ i \in 1..count
    BY <1>3, <1>5
  <2>2. \A i \in 1..n : slots[Slot(i - 1)] \in Event
    BY <1>1, <1>5, <2>1 DEF Event, Empty
  <2>3. batch' \in [1..n -> Event]
    BY <1>4, <2>2
  <2>4. batch' \in Seq(Event) /\ Len(batch') = n
    BY <1>3, <2>3
  <2>5. batch' \in Seq(Nat)
    BY <2>4, SeqMonotonic DEF Event
  <2>6. QED
    BY <1>4, <2>1, <2>4, <2>5
<1>7. tail' \in Index /\ slots' \in [Index -> Nat] /\ count' \in 0..RingSize
        /\ count' \in Nat
  BY <1>1, <1>3, <1>4, Slots DEF Empty
<1>8. ASSUME NEW j \in 0..count'
      PROVE  (tail' + j) % RingSize = Slot(n + j)
  <2>1. j \in 0..RingSize /\ n + j \in 0..RingSize
    BY <1>1, <1>3, <1>4
  <2>2. (tail' + j) % RingSize =
          IF tail' + j < RingSize THEN tail' + j
          ELSE tail' + j - RingSize
    BY <1>7, <2>1, Wraps
  <2>3. tail' = IF tail + n < RingSize THEN tail + n ELSE tail + n - RingSize
    BY <1>1, <1>3, <1>4, Slots
  <2>4. Slot(n + j) = IF tail + (n + j) < RingSize THEN tail + (n + j)
                      ELSE tail + (n + j) - RingSize
    BY <1>1, <2>1, Slots
  <2>5. /\ RingSize \in Nat /\ tail \in Nat /\ n \in Nat /\ j \in Nat
        /\ tail < RingSize /\ n + j <= RingSize
    BY <1>1, <1>3, <1>4 DEF Index
  <2>6. CASE tail + n < RingSize
    <3>1. tail' = tail + n
      BY <2>3, <2>6
    <3>2. QED
      BY <2>2, <2>4, <2>5, <3>1
  <2>7. CASE ~(tail + n < RingSize)
    <3>1. tail' = tail + n - RingSize
      BY <2>3, <2>7
    <3>2. QED
      BY <2>2, <2>4, <2>5, <2>7, <3>1
  <2>8. QED
    BY <2>6, <2>7
<1>9. head' = Slot(count)'
  <2>1. (tail' + count') % RingSize = Slot(n + count')
    BY <1>7, <1>8
  <2>2. n + count' = count
    BY <1>3, <1>4
  <2>3. QED
    BY <1>1, <1>4, <2>1, <2>2 DEF Slot
<1>10. ASSUME NEW i \in 1..count'
       PROVE  slots'[(tail' + (i - 1)) % RingSize] = Contents[n + i]
  <2>1. /\ i - 1 \in 0..count' /\ n + (i - 1) \in 0..(RingSize - 1)
        /\ n + (i - 1) \in 0..RingSize
        /\ n + i \in 1..count /\ (n + i) - 1 = n + (i - 1)
        /\ \A j \in 0..(n - 1) : j \in 0..(RingSize - 1) /\ j # n + (i - 1)
    BY <1>1, <1>3, <1>4
  <2>2. (tail' + (i - 1)) % RingSize = Slot(n + (i - 1))
    BY <1>8, <2>1
  <2>3. Slot(n + (i - 1)) \in Index
          /\ \A j \in 0..(n - 1) : Slot(n + (i - 1)) # Slot(j)
    BY <1>1, <2>1, Slots
  <2>4. slots'[Slot(n + (i - 1))] = slots[Slot(n + (i - 1))]
    BY <1>4, <2>3
  <2>5. Contents[n + i] = slots[Slot((n + i) - 1)]
    BY <1>5, <2>1
  <2>6. QED
    BY <2>1, <2>2, <2>4, <2>5
<1>11. Contents' =
         [i \in 1..count' |-> slots'[(tail' + (i - 1)) % RingSize]]
  BY DEF Contents, Slot
<1>12. /\ Contents' \in Seq(Nat) /\ Len(Contents') = count'
       /\ \A i \in 1..count' : Contents[n + i] = Contents'[i]
  <2>1. \A i \in 1..count' : n + i \in 1..count
    BY <1>1, <1>3, <1>4
  <2>2. \A i \in 1..count' : Contents[n + i] \in Nat
    BY <1>1, <1>5, <2>1
  <2>3. Contents' \in [1..count' -> Nat]
    BY <1>10, <1>11, <2>2
  <2>4. Contents' \in Seq(Nat) /\ Len(Contents') = count'
    BY <1>7, <2>3
  <2>5. \A i \in 1..count' : Contents[n + i] = Contents'[i]
    BY <1>10, <1>11
  <2>6. QED
    BY <2>4, <2>5
<1>13. batch' \o Contents' = Contents
  <2>1. Len(Contents) = Len(batch') + Len(Contents')
    BY <1>3, <1>4, <1>5, <1>6, <1>12
  <2>2. QED
    BY <1>5, <1>6, <1>12, <2>1, Splits
<1>14. QED
  BY <1>2, <1>6, <1>7, <1>9, <1>12, <1>13 DEF n

(* The emitter's drain only moves the boundary of ring and batch.           *)
LEMMA PopStep ==
  ASSUME IInv, Pop
  PROVE  IInv'
<1>1. /\ TypeOK /\ stream \in Seq(Nat) /\ Contents \in Seq(Nat)
      /\ Len(Contents) = count
  BY PathType, ContentsType DEF IInv
<1>2. UNCHANGED <<head, dropped, running, ctx, backoff_ms, main, stream,
                  redis, pushed, lost, faults>>
        /\ pc' = AfterPop
  BY DEF Pop
<1>3. TypeOK'
  BY <1>1, <1>2, Popped DEF TypeOK, AfterPop
<1>4. Shape'
  <2>1. PopSize = 0 <=> count = 0
    BY <1>1 DEF PopSize, TypeOK
  <2>2. batch' = <<>> <=> count = 0
    BY <2>1, Popped, EmptySeq
  <2>3. QED
    BY <1>2, <2>2, Popped DEF Shape, AfterPop
<1>5. Path' = Path
  <2>1. Path = stream \o Contents
    BY <1>1, Popped, ConcatEmptySeq DEF Path
  <2>2. Path' = (stream \o batch') \o Contents'
    BY <1>2 DEF Path
  <2>3. batch' \in Seq(Nat) /\ Contents' \in Seq(Nat)
    BY Popped
  <2>4. (stream \o batch') \o Contents' = stream \o (batch' \o Contents')
    <3>1. stream \in Seq(Nat)
      BY <1>1
    <3>2. QED
      BY <2>3, <3>1, ConcatAssociative
  <2>5. QED
    BY <2>1, <2>2, <2>4, Popped
<1>6. PathInOrder' /\ EveryEventAccounted' /\ NoOutage'
  BY <1>2, <1>5 DEF IInv, PathInOrder, EveryEventAccounted, NoOutage
<1>7. QED
  BY <1>3, <1>4, <1>6 DEF IInv

(* The batch is gone: k of its events are in the stream, the others were    *)
(* freed.                                                                   *)
LEMMA Delivery ==
  ASSUME IInv, NEW k \in 0..Len(batch), NEW f \in Increasing(k, Len(batch)),
         stream' = stream \o Delivered(k, f), batch' = <<>>,
         lost' = lost + (Len(batch) - k),
         UNCHANGED <<ring, pushed>>
  PROVE  /\ stream' \in Seq(Event) /\ batch' \in Seq(Event) /\ lost' \in Nat
         /\ Contents' = Contents /\ Slot(count)' = Slot(count)
         /\ PathInOrder' /\ EveryEventAccounted'
<1>1. /\ TypeOK /\ pushed \in Nat /\ dropped \in Nat /\ lost \in Nat
      /\ Path \in Seq(Nat) /\ InOrder(Path, pushed) /\ Len(Path) \in Nat
      /\ stream \in Seq(Nat) /\ batch \in Seq(Nat) /\ Contents \in Seq(Nat)
      /\ Len(batch) \in Nat /\ k \in Nat /\ k <= Len(batch)
  BY PathType, PathOrdered DEF IInv, TypeOK
<1> DEFINE cut == Delivered(k, f)
<1>2. stream' \in Seq(Event)
  <2>1. stream \in Seq(Event) /\ batch \in Seq(Event)
    BY DEF IInv, TypeOK
  <2>2. \A i \in 1..k : batch[f[i]] \in Event
    BY <1>1, <2>1, IncreasingType
  <2>3. cut \in Seq(Event)
    <3>1. cut \in [1..k -> Event]
      BY <2>2 DEF Delivered
    <3>2. QED
      BY <1>1, <3>1
  <2> HIDE DEF cut
  <2>4. QED
    BY <2>1, <2>3, ConcatProperties DEF cut
<1>3. Contents' = Contents /\ Slot(count)' = Slot(count)
  BY DEF Contents, Slot, ring
<1>4. Path' = (stream \o cut) \o Contents
  <2>1. Path' = ((stream \o cut) \o <<>>) \o Contents
    BY <1>3 DEF Path
  <2>2. stream \o cut \in Seq(Event)
    BY <1>2
  <2> HIDE DEF cut
  <2>3. (stream \o cut) \o <<>> = stream \o cut
    BY <2>2, ConcatEmptySeq
  <2>4. QED
    BY <2>1, <2>3
<1>5. /\ InOrder(Path', pushed)
      /\ Len(Path') = Len(Path) - (Len(batch) - k)
  <2>1. InOrder((stream \o batch) \o Contents, pushed)
    BY <1>1 DEF Path
  <2>2. /\ InOrder((stream \o cut) \o Contents, pushed)
        /\ Len((stream \o cut) \o Contents)
             = Len((stream \o batch) \o Contents) - (Len(batch) - k)
    <3>1. /\ stream \in Seq(Nat) /\ batch \in Seq(Nat)
          /\ Contents \in Seq(Nat) /\ pushed \in Nat
      BY <1>1
    <3>2. QED
      BY <2>1, <3>1, CutOut DEF Delivered
  <2>3. QED
    BY <1>4, <2>2, Zenon DEF Path
<1>6. PathInOrder'
  BY <1>5 DEF PathInOrder, InOrder
<1>7. EveryEventAccounted'
  BY <1>1, <1>5 DEF IInv, EveryEventAccounted, ring
<1>8. <<>> \in Seq(Event)
  BY EmptySeq
<1>9. QED
  BY <1>1, <1>2, <1>3, <1>6, <1>7, <1>8

(* Choosing the first places, or none.                                      *)
LEMMA FirstIncreasing ==
  ASSUME NEW n \in Nat, NEW k \in 0..n
  PROVE  FirstPlaces(k) \in Increasing(k, n)
<1>1. \A i \in 1..k : FirstPlaces(k)[i] = i /\ i \in 1..n
  BY DEF FirstPlaces
<1>2. FirstPlaces(k) \in [1..k -> 1..n]
  BY <1>1 DEF FirstPlaces
<1>3. \A i, j \in 1..k : i < j => FirstPlaces(k)[i] < FirstPlaces(k)[j]
  BY <1>1
<1>4. QED
  BY <1>2, <1>3 DEF Increasing

(* Some events of the batch reach the stream, the others are lost.          *)
LEMMA Delivers ==
  ASSUME TypeOK, ConnectFails \/ XaddDone \/ XaddRefusedStep \/ XaddStale
                   \/ XaddCutStep
  PROVE  \E k \in 0..Len(batch) : \E f \in Increasing(k, Len(batch)) :
           /\ stream' = stream \o Delivered(k, f)
           /\ lost' = lost + (Len(batch) - k)
<1>0. /\ stream \in Seq(Event) /\ batch \in Seq(Event)
      /\ Len(batch) \in Nat /\ lost \in Nat
  BY DEF TypeOK
<1>1. stream \o Delivered(0, FirstPlaces(0)) = stream
  <2>1. Delivered(0, FirstPlaces(0)) = <<>>
    BY DEF Delivered
  <2>2. QED
    BY <1>0, <2>1, ConcatEmptySeq
<1>2. /\ 0 \in 0..Len(batch) /\ Len(batch) \in 0..Len(batch)
      /\ Len(batch) - 0 = Len(batch)
      /\ lost + (Len(batch) - Len(batch)) = lost
      /\ FirstPlaces(0) \in Increasing(0, Len(batch))
      /\ FirstPlaces(Len(batch)) \in Increasing(Len(batch), Len(batch))
  BY <1>0, FirstIncreasing
<1>3. CASE ConnectFails \/ XaddStale
  <2>1. stream' = stream /\ lost' = lost + Len(batch)
    BY <1>3 DEF ConnectFails, XaddStale
  <2>2. QED
    BY <1>1, <1>2, <2>1
<1>4. CASE XaddDone
  BY <1>2, <1>4 DEF XaddDone
<1>5. CASE XaddRefusedStep
  BY <1>5 DEF XaddRefusedStep, XaddRefused
<1>6. CASE XaddCutStep
  BY <1>6 DEF XaddCutStep, XaddCut
<1>7. QED
  BY <1>3, <1>4, <1>5, <1>6

(* However the sending of a batch ends.                                     *)
LEMMA SentStep ==
  ASSUME IInv, ConnectFails \/ XaddDone \/ XaddRefusedStep \/ XaddStale
                 \/ XaddCutStep
  PROVE  IInv'
<1>1. /\ UNCHANGED <<slots, head, tail, count, dropped, running, main, pushed>>
      /\ UNCHANGED ring
      /\ batch' = <<>> /\ pc' \in {"check", "drain"}
      /\ ctx' \in {ctx, "none"} /\ backoff_ms' \in {backoff_ms, Doubled}
      /\ redis' \in {redis, "down"} /\ faults' \in {faults, faults + 1}
      /\ redis' = "up" /\ faults' = 0 =>
           redis = "up" /\ faults = 0 /\ (ctx # "stale" => lost' = lost)
  BY DEF ConnectFails, XaddDone, XaddRefusedStep, XaddRefused, XaddStale,
         XaddCutStep, XaddCut, BatchOnFailure, AfterFailure, ring, IInv, TypeOK
<1>2. /\ stream \in Seq(Event) /\ batch \in Seq(Event)
      /\ Len(batch) \in Nat /\ lost \in Nat
  BY DEF IInv, TypeOK
<1>3. PICK k \in 0..Len(batch) : \E f \in Increasing(k, Len(batch)) :
        /\ stream' = stream \o Delivered(k, f)
        /\ lost' = lost + (Len(batch) - k)
  BY Delivers DEF IInv
<1>4. /\ stream' \in Seq(Event) /\ batch' \in Seq(Event) /\ lost' \in Nat
      /\ Slot(count)' = Slot(count)
      /\ PathInOrder' /\ EveryEventAccounted'
  BY <1>1, <1>3, Delivery
<1>5. Doubled \in BackoffStart..BackoffCap
  BY DEF IInv, TypeOK, Doubled
<1>6. TypeOK'
  BY <1>1, <1>4, <1>5 DEF IInv, TypeOK, RedisState
<1>7. Shape'
  BY <1>1, <1>4 DEF IInv, Shape
<1>8. NoOutage'
  BY <1>1 DEF IInv, NoOutage
<1>9. QED
  BY <1>4, <1>6, <1>7, <1>8 DEF IInv

(* The steps that move no event.                                            *)
LEMMA QuietStep ==
  ASSUME IInv, Check \/ Wake \/ ConnectOK \/ Stop \/ RedisChanges
                 \/ UNCHANGED vars
  PROVE  IInv'
<1>1. /\ UNCHANGED <<slots, head, tail, count, dropped, batch, stream, pushed,
                     lost>>
      /\ pc' \in {"connect", "xadd"} <=> pc \in {"connect", "xadd"}
  BY DEF Check, Wake, ConnectOK, Stop, RedisChanges, vars, ring, emitter
<1>2. BackoffStart \in BackoffStart..BackoffCap
  OBVIOUS
<1>3. TypeOK'
  <2>1. CASE Check \/ Wake
    BY <2>1 DEF IInv, TypeOK, Check, Wake, ring
  <2>2. CASE ConnectOK
    BY <1>2, <2>2 DEF IInv, TypeOK, ConnectOK, Connection, ring
  <2>3. CASE Stop
    BY <2>3 DEF IInv, TypeOK, Stop, ring, emitter
  <2>4. CASE RedisChanges
    BY <2>4 DEF IInv, TypeOK, RedisChanges, ring
  <2>5. CASE UNCHANGED vars
    BY <2>5 DEF IInv, TypeOK, vars, ring, emitter
  <2>6. QED
    BY <2>1, <2>2, <2>3, <2>4, <2>5
<1>4. Path' = Path /\ Slot(count)' = Slot(count)
  BY <1>1 DEF Path, Contents, Slot
<1>5. Shape'
  BY <1>1, <1>4 DEF IInv, Shape
<1>6. PathInOrder' /\ EveryEventAccounted'
  BY <1>1, <1>4 DEF IInv, PathInOrder, EveryEventAccounted
<1>7. NoOutage'
  <2>1. CASE Check \/ Wake \/ ConnectOK
    BY <2>1 DEF IInv, NoOutage, Check, Wake, ConnectOK, Connection
  <2>2. CASE Stop
    BY <2>2 DEF IInv, NoOutage, Stop, emitter
  <2>3. CASE RedisChanges
    BY <2>3 DEF IInv, TypeOK, NoOutage, RedisChanges
  <2>4. CASE UNCHANGED vars
    BY <2>4 DEF IInv, NoOutage, vars, emitter
  <2>5. QED
    BY <2>1, <2>2, <2>3, <2>4
<1>8. QED
  BY <1>3, <1>5, <1>6, <1>7 DEF IInv

(* Unloading empties the ring.                                              *)
LEMMA Emptied ==
  ASSUME IInv, Join
  PROVE  /\ Contents' = <<>> /\ batch = <<>> /\ batch' = <<>>
         /\ stream' = stream
<1>1. Contents' = [i \in 1..0 |-> slots'[(tail' + (i - 1)) % RingSize]]
  BY DEF Join, Contents, Slot
<1>2. Contents' = <<>>
  BY <1>1
<1>3. QED
  BY <1>2 DEF IInv, Shape, Join, emitter

(* Unloading frees what the ring holds and counts it as lost.               *)
LEMMA JoinStep ==
  ASSUME IInv, Join
  PROVE  IInv'
<1>1. /\ TypeOK /\ pushed \in Nat /\ dropped \in Nat /\ lost \in Nat
      /\ Path \in Seq(Nat) /\ InOrder(Path, pushed) /\ Len(Path) \in Nat
      /\ stream \in Seq(Nat) /\ Contents \in Seq(Nat) /\ Len(Contents) = count
      /\ count \in Nat /\ head \in Index
  BY PathType, PathOrdered, ContentsType DEF IInv, TypeOK
<1>2. /\ UNCHANGED <<head, dropped, running, pc, batch, ctx, backoff_ms,
                     stream, redis, pushed, faults>>
      /\ main' = "unloaded" /\ tail' = head /\ count' = 0
      /\ lost' = lost + count
      /\ slots' = [i \in Index |-> Empty]
  BY DEF Join, emitter
<1>3. TypeOK'
  <2>1. slots' \in [Index -> Nat] /\ 0 \in 0..RingSize
    BY <1>2 DEF Empty
  <2>2. QED
    BY <1>1, <1>2, <2>1 DEF TypeOK
<1>4. Shape'
  <2>1. (head + 0) % RingSize = head
    <3>1. 0 \in 0..RingSize
      OBVIOUS
    <3>2. (head + 0) % RingSize = IF head + 0 < RingSize THEN head + 0
                                  ELSE head + 0 - RingSize
      BY <1>1, <3>1, Wraps
    <3>3. QED
      BY <1>1, <3>2 DEF Index
  <2>2. QED
    BY <1>2, <2>1 DEF IInv, Shape, Slot
<1>5. /\ InOrder(Path', pushed)
      /\ Len(Path') = Len(Path) - count
  <2>1. /\ <<>> \in Seq(Nat) /\ 0 \in 0..Len(Contents)
        /\ Len(Contents) - 0 = count
    BY <1>1, EmptySeq
  <2> DEFINE none == [i \in 1..0 |-> Contents[FirstPlaces(0)[i]]]
  <2>2. none = <<>>
    OBVIOUS
  <2>3. /\ stream \o <<>> = stream
        /\ (stream \o Contents) \o <<>> = stream \o Contents
    <3>1. stream \o Contents \in Seq(Nat)
      BY <1>1, ConcatProperties
    <3>2. QED
      BY <1>1, <3>1, ConcatEmptySeq
  <2>4. Path = (stream \o Contents) \o <<>>
    BY <2>3, Emptied DEF Path
  <2>5. Path' = (stream \o none) \o <<>>
    BY <2>2, <2>3, Emptied DEF Path
  <2>6. /\ InOrder((stream \o none) \o <<>>, pushed)
        /\ Len((stream \o none) \o <<>>)
             = Len((stream \o Contents) \o <<>>) - (Len(Contents) - 0)
    <3>1. InOrder((stream \o Contents) \o <<>>, pushed)
      BY <1>1, <2>4, Zenon
    <3>2. stream \in Seq(Nat) /\ Contents \in Seq(Nat) /\ pushed \in Nat
      BY <1>1
    <3>3. FirstPlaces(0) \in Increasing(0, Len(Contents))
      BY <1>1, <2>1, FirstIncreasing
    <3>4. ASSUME NEW c \in Seq(Nat), NEW k \in 0..Len(Contents),
                 NEW f \in Increasing(k, Len(Contents)),
                 InOrder((stream \o Contents) \o c, pushed)
          PROVE  /\ InOrder((stream \o [i \in 1..k |-> Contents[f[i]]]) \o c,
                            pushed)
                 /\ Len((stream \o [i \in 1..k |-> Contents[f[i]]]) \o c)
                      = Len((stream \o Contents) \o c)
                          - (Len(Contents) - k)
      BY <3>2, <3>4, CutOut
    <3>5. QED
      BY <2>1, <3>1, <3>3, <3>4, Zenon
  <2>7. QED
    BY <2>1, <2>4, <2>5, <2>6
<1>6. PathInOrder'
  BY <1>2, <1>5 DEF PathInOrder, InOrder
<1>7. EveryEventAccounted'
  BY <1>1, <1>2, <1>5 DEF IInv, EveryEventAccounted
<1>8. NoOutage'
  BY <1>2 DEF IInv, NoOutage
<1>9. QED
  BY <1>3, <1>4, <1>6, <1>7, <1>8 DEF IInv

(* Every step keeps the invariant.                                          *)
LEMMA NextIInv == IInv /\ [Next]_vars => IInv'
<1> SUFFICES ASSUME IInv, [Next]_vars
             PROVE  IInv'
  OBVIOUS
<1>1. CASE Push
  BY <1>1, PushStep
<1>2. CASE Pop
  BY <1>2, PopStep
<1>3. CASE ConnectFails \/ XaddDone \/ XaddRefusedStep \/ XaddStale
             \/ XaddCutStep
  BY <1>3, SentStep
<1>4. CASE Check \/ Wake \/ ConnectOK \/ Stop \/ RedisChanges \/ UNCHANGED vars
  BY <1>4, QuietStep
<1>5. CASE Join
  BY <1>5, JoinStep
<1>6. QED
  BY <1>1, <1>2, <1>3, <1>4, <1>5 DEF Next, Emitter

(* The invariant holds throughout.                                          *)
LEMMA Invariant == Spec => []IInv
<1>1. QED
  BY InitIInv, NextIInv, PTL DEF Spec

-----------------------------------------------------------------------------
(* Safety, for every ring size, batch size and number of events and faults. *)

(* Every variable keeps its type: the ring's indices stay in the ring, the  *)
(* back-off within its bounds.                                              *)
THEOREM TypeCorrect == Spec => []TypeOK
<1>1. IInv => TypeOK
  BY DEF IInv
<1>2. QED
  BY <1>1, Invariant, PTL

(* Events reach the stream in the order the callbacks pushed them, each at  *)
(* most once (ring.c:40, emitter.c:54).                                     *)
THEOREM Ordered == Spec => []PathInOrder
<1>1. IInv => PathInOrder
  BY DEF IInv
<1>2. QED
  BY <1>1, Invariant, PTL

(* No event vanishes but by a drop at a full ring, with its batch or at     *)
(* unloading.                                                               *)
THEOREM Accounted == Spec => []EveryEventAccounted
<1>1. IInv => EveryEventAccounted
  BY DEF IInv
<1>2. QED
  BY <1>1, Invariant, PTL

(* Without an outage of Redis only drops at a full ring lose an event.      *)
THEOREM LossNeedsOutage == Spec => []OnlyOutagesLose
<1>1. IInv => OnlyOutagesLose
  BY DEF IInv, NoOutage, OnlyOutagesLose
<1>2. QED
  BY <1>1, Invariant, PTL

-----------------------------------------------------------------------------
(* Refinement.                                                              *)

(* What follows the first l elements.                                       *)
LEMMA SameSuffix ==
  ASSUME NEW c \in Seq(Nat), NEW q \in Seq(Nat), NEW l \in Nat,
         Len(q) = l + Len(c), \A i \in 1..Len(c) : q[l + i] = c[i]
  PROVE  c = SubSeq(q, l + 1, Len(q))
<1> DEFINE m == l + 1
           n == Len(q)
           y == SubSeq(q, m, n)
<1>1. Len(c) \in Nat /\ n \in Nat /\ m \in Nat /\ m = l + 1 /\ n = l + Len(c)
  OBVIOUS
<1>2. \A i \in m..n : q[i] \in Nat
  BY <1>1
<1> HIDE DEF m, n
<1>3. /\ y \in Seq(Nat)
      /\ Len(y) = IF m <= n THEN n - m + 1 ELSE 0
      /\ \A i \in 1..(n - m + 1) : y[i] = q[m + i - 1]
  BY <1>1, <1>2, SubSeqProperties
<1> HIDE DEF y
<1>4. Len(y) = Len(c) /\ n - m + 1 = Len(c)
  BY <1>1, <1>3
<1>5. ASSUME NEW i \in 1..Len(c)
      PROVE  c[i] = y[i]
  <2>1. m + i - 1 = l + i
    BY <1>1
  <2>2. y[i] = q[m + i - 1]
    BY <1>3, <1>4
  <2>3. QED
    BY <2>1, <2>2
<1>6. c = y
  BY <1>3, <1>4, <1>5, SeqEqual
<1>7. QED
  BY <1>6 DEF y, m, n

(* What leaves a queue is a prefix; any of its events reach the log.        *)
Transferred(q, q2, s, s2) ==
  \E n \in 1..Len(q) : \E m \in 0..n : \E g \in Increasing(m, n) :
    /\ q2 = SubSeq(q, n + 1, Len(q))
    /\ s2 = s \o [i \in 1..m |-> q[g[i]]]

(* A batch that is sent, in whole, in part or not at all, is a transfer.    *)
LEMMA SentTransfers ==
  ASSUME NEW b \in Seq(Nat), NEW c \in Seq(Nat), NEW s \in Seq(Nat),
         NEW k \in 0..Len(b), NEW f \in Increasing(k, Len(b)), b # <<>>
  PROVE  Transferred(b \o c, c, s, s \o [i \in 1..k |-> b[f[i]]])
<1> DEFINE q == b \o c
           l == Len(b)
<1>1. /\ q \in Seq(Nat) /\ Len(q) = l + Len(c)
      /\ \A i \in 1..l : q[i] = b[i]
      /\ \A i \in 1..Len(c) : q[l + i] = c[i]
  BY ConcatParts
<1>2. /\ l \in Nat \ {0} /\ Len(c) \in Nat /\ k \in Nat /\ k <= l
      /\ \A i \in 1..k : f[i] \in 1..l
  BY EmptySeq, IncreasingType
<1> HIDE DEF q
<1>3. [i \in 1..k |-> b[f[i]]] = [i \in 1..k |-> q[f[i]]]
  BY <1>1, <1>2
<1>4. c = SubSeq(q, l + 1, Len(q))
  BY <1>1, <1>2, SameSuffix
<1>5. l \in 1..Len(q) /\ k \in 0..l /\ f \in Increasing(k, l)
  BY <1>1, <1>2
<1> HIDE DEF l
<1>6. Transferred(q, c, s, s \o [i \in 1..k |-> b[f[i]]])
  BY <1>3, <1>4, <1>5 DEF Transferred
<1>7. QED
  BY <1>6 DEF q

(* Every step is a step of the log, or leaves it alone.                     *)
LEMMA LogStep == IInv /\ [Next]_vars => [Log!Next]_Log!vars
<1> SUFFICES ASSUME IInv, [Next]_vars
             PROVE  Log!Next \/ UNCHANGED Log!vars
  OBVIOUS
<1>1. /\ TypeOK /\ pushed \in Nat /\ Len(batch) \in Nat
      /\ stream \in Seq(Nat) /\ batch \in Seq(Nat) /\ Contents \in Seq(Nat)
      /\ Len(Contents) = count
  BY PathType, ContentsType DEF IInv, TypeOK
<1>2. CASE Push /\ RingFull
  <2>1. /\ pushed' = pushed + 1 /\ stream' = stream
        /\ batch' = batch /\ Contents' = Contents
    BY <1>2 DEF Push, Contents, Slot, emitter
  <2>2. QED
    BY <2>1 DEF Log!Next, Log!Offer
<1>3. CASE Push /\ ~RingFull
  <2>1. /\ pushed' = pushed + 1 /\ stream' = stream /\ batch' = batch
        /\ Contents' = Append(Contents, pushed')
    BY <1>3, Pushed DEF Push, emitter
  <2>2. (batch \o Contents)' = Append(batch \o Contents, pushed')
    BY <1>1, <2>1, LaterAppended
  <2>3. QED
    BY <2>1, <2>2 DEF Log!Next, Log!Offer
<1>4. CASE Pop
  <2>1. (batch \o Contents)' = batch \o Contents
    BY <1>1, <1>4, Popped, ConcatEmptySeq
  <2>2. QED
    BY <1>4, <2>1 DEF Pop, Log!vars
<1>5. CASE ConnectFails \/ XaddDone \/ XaddRefusedStep \/ XaddStale
             \/ XaddCutStep
  <2>1. /\ batch # <<>> /\ batch' = <<>>
        /\ pushed' = pushed /\ Contents' = Contents
    BY <1>5 DEF ConnectFails, XaddDone, XaddRefusedStep, XaddRefused,
         XaddStale, XaddCutStep, XaddCut, BatchOnFailure, ring, IInv, Shape,
         Contents, Slot
  <2>2. PICK k \in 0..Len(batch) : \E f \in Increasing(k, Len(batch)) :
          stream' = stream \o Delivered(k, f)
    BY <1>1, <1>5, Delivers
  <2>0. PICK f \in Increasing(k, Len(batch)) :
          stream' = stream \o [i \in 1..k |-> batch[f[i]]]
    BY <2>2 DEF Delivered
  <2>3. Transferred(batch \o Contents, Contents,
                    stream, stream \o [i \in 1..k |-> batch[f[i]]])
    <3>1. /\ batch \in Seq(Nat) /\ Contents \in Seq(Nat)
          /\ stream \in Seq(Nat) /\ batch # <<>>
      BY <1>1, <2>1
    <3>2. QED
      BY <3>1, SentTransfers
  <2>4. (batch \o Contents)' = Contents
    <3>1. <<>> \o Contents = Contents
      BY <1>1, ConcatEmptySeq
    <3>2. QED
      BY <2>1, <3>1
  <2>5. Transferred(batch \o Contents, (batch \o Contents)', stream, stream')
    BY <2>0, <2>3, <2>4
  <2>6. QED
    BY <2>1, <2>5 DEF Log!Next, Log!Transfer, Log!Choices, Transferred,
         Increasing
<1>6. CASE Join
  <2>1. /\ Contents' = <<>> /\ batch = <<>> /\ batch' = <<>>
        /\ stream' = stream /\ pushed' = pushed
    BY <1>6, Emptied DEF Join
  <2>2. batch \o Contents = Contents /\ (batch \o Contents)' = <<>>
    BY <1>1, <2>1, ConcatEmptySeq, EmptySeq
  <2>3. CASE Contents = <<>>
    BY <2>1, <2>2, <2>3 DEF Log!vars
  <2>4. CASE Contents # <<>>
    <3>1. /\ Len(Contents) \in 1..Len(Contents) /\ 0 \in 0..Len(Contents)
          /\ Len(Contents) + 1 > Len(Contents)
      BY <1>1, <2>4, EmptySeq
    <3>2. SubSeq(Contents, Len(Contents) + 1, Len(Contents)) = <<>>
      BY <3>1, SubSeqEmpty
    <3>3. stream' = stream \o [i \in 1..0 |-> Contents[FirstPlaces(0)[i]]]
      <4>1. [i \in 1..0 |-> Contents[FirstPlaces(0)[i]]] = <<>>
        OBVIOUS
      <4>2. QED
        BY <1>1, <2>1, <4>1, ConcatEmptySeq
    <3>4. FirstPlaces(0) \in Log!Choices(0, Len(Contents))
      BY <1>1, <3>1, FirstIncreasing DEF Log!Choices, Increasing
    <3>5. QED
      BY <2>1, <2>2, <3>1, <3>2, <3>3, <3>4 DEF Log!Next, Log!Transfer
  <2>5. QED
    BY <2>3, <2>4
<1>7. CASE Check \/ Wake \/ ConnectOK \/ Stop \/ RedisChanges \/ UNCHANGED vars
  <2>1. /\ stream' = stream /\ pushed' = pushed
        /\ batch' = batch /\ Contents' = Contents
    BY <1>7 DEF Check, Wake, ConnectOK, Stop, RedisChanges, vars, ring,
         emitter, Contents, Slot
  <2>2. QED
    BY <2>1 DEF Log!vars
<1>8. QED
  BY <1>2, <1>3, <1>4, <1>5, <1>6, <1>7 DEF Next, Emitter

(* The event path is a lossy first-in first-out log, for rings and batches  *)
(* of any size (LossyFifo; the specification refined states no fairness).   *)
THEOREM Implements == Spec => ImplementsLossyFifo
<1>1. Init => Log!Init
  <2> SUFFICES ASSUME Init PROVE Log!Init
    OBVIOUS
  <2>1. IInv /\ batch = <<>> /\ stream = <<>> /\ pushed = 0 /\ count = 0
    BY InitIInv DEF Init
  <2>2. Contents \in Seq(Nat) /\ Len(Contents) = 0
    BY <2>1, ContentsType DEF IInv
  <2>3. batch \o Contents = <<>>
    BY <2>1, <2>2, EmptySeq, ConcatEmptySeq
  <2>4. QED
    BY <2>1, <2>3 DEF Log!Init
<1>2. QED
  BY <1>1, Invariant, LogStep, PTL DEF Spec, ImplementsLossyFifo, Log!Spec
=============================================================================
