--------------------------- MODULE ContractProofs ---------------------------
(***************************************************************************)
(* That the contract, its judgements and its fingerprints are functions of *)
(* the events heard, for every alphabet, decay, window and schedule.       *)
(*                                                                         *)
(* The invariant relates each field of observe, at each of its steps, to   *)
(* the history of events, and each loop of the export to the events it was *)
(* still to see.  Weights are sums of powers: the lemmas on both are       *)
(* proved by induction, as statements about sets of naturals and of        *)
(* subsets, since no prover here instantiates a predicate.                 *)
(***************************************************************************)
EXTENDS Contract, FiniteSetTheorems, WellFoundedInduction, TLAPS

-----------------------------------------------------------------------------
(* Induction, over sets of naturals and of subsets: no prover here can      *)
(* instantiate a predicate, but a set of counterexamples has a least one.   *)

LEMMA LeastNat ==
  ASSUME NEW T, T \subseteq Nat, T # {}
  PROVE  \E n \in T : \A m \in T : n <= m
<1>1. PICK n \in T : \A m \in T : ~(<<m, n>> \in OpToRel(<, Nat))
  BY WFMin, NatLessThanWellFounded
<1>2. \A m \in T : <<m, n>> \in OpToRel(<, Nat) <=> m < n
  BY DEF OpToRel
<1>3. \A m \in T : ~(m < n)
  BY <1>1, <1>2, Zenon
<1>4. \A m \in T : n <= m
  BY <1>3
<1>5. QED
  BY <1>4

LEMMA NatInSet ==
  ASSUME NEW F, 0 \in F, \A n \in Nat : n \in F => n + 1 \in F
  PROVE  \A n \in Nat : n \in F
<1> SUFFICES ASSUME Nat \ F # {} PROVE FALSE
  OBVIOUS
<1>1. PICK n \in Nat \ F : \A m \in Nat \ F : n <= m
  BY LeastNat
<1>2. n # 0 /\ n - 1 \in Nat
  BY <1>1
<1>3. n - 1 \in F
  BY <1>1, <1>2
<1>4. (n - 1) + 1 = n
  BY <1>1
<1>5. QED
  BY <1>1, <1>2, <1>3, <1>4

LEMMA SubsetsInSet ==
  ASSUME NEW D, IsFiniteSet(D), NEW F,
         \A s \in SUBSET D :
           (\A t \in SUBSET s : t # s => t \in F) => s \in F
  PROVE  \A s \in SUBSET D : s \in F
<1> DEFINE Bad == (SUBSET D) \ F
           R == StrictSubsetOrdering(D)
<1> SUFFICES ASSUME Bad # {} PROVE FALSE
  OBVIOUS
<1>1. IsWellFoundedOn(R, FiniteSubsetsOf(D))
  BY FS_StrictSubsetOrderingWellFounded
<1>2. Bad \subseteq FiniteSubsetsOf(D)
  BY FS_Subset DEF FiniteSubsetsOf
<1>3. PICK s \in Bad : \A t \in Bad : ~(<<t, s>> \in R)
  <2> HIDE DEF Bad, R
  <2> QED BY <1>1, <1>2, WFMin
<1>4. ASSUME NEW t \in SUBSET s, t # s PROVE t \in F
  <2>1. <<t, s>> \in R
    BY <1>4 DEF StrictSubsetOrdering
  <2>2. QED
    BY <2>1, <1>3
<1>5. QED
  BY <1>3, <1>4

-----------------------------------------------------------------------------
(* Powers.                                                                  *)

IsPower(p, b, K) ==
  p = [k \in K |-> IF k = 0 THEN 1 ELSE b * p[k - 1]]

LEMMA PowersExist ==
  ASSUME NEW b \in Nat
  PROVE  \E p : IsPower(p, b, Nat) /\ p \in [Nat -> Nat]
<1> DEFINE Upto(n, p) == p \in [0..n -> Nat] /\ IsPower(p, b, 0..n)
           F == {n \in Nat : \E p : Upto(n, p)}
<1>1. 0 \in F
  <2>1. Upto(0, [k \in 0..0 |-> 1])
    BY DEF IsPower
  <2>2. QED
    BY <2>1
<1>2. ASSUME NEW n \in Nat, n \in F PROVE n + 1 \in F
  <2>1. PICK p : Upto(n, p)
    BY <1>2
  <2> DEFINE q == [k \in 0..(n + 1) |-> IF k = 0 THEN 1 ELSE b * p[k - 1]]
  <2>2. \A k \in 0..n : q[k] = p[k]
    BY <2>1 DEF IsPower
  <2>3. \A k \in 0..(n + 1) :
          q[k] = IF k = 0 THEN 1 ELSE b * q[k - 1]
    <3> SUFFICES ASSUME NEW k \in 0..(n + 1), k # 0
                 PROVE  q[k] = b * q[k - 1]
      OBVIOUS
    <3>1. k - 1 \in 0..n
      OBVIOUS
    <3>2. QED
      BY <3>1, <2>2
  <2>4. q \in [0..(n + 1) -> Nat]
    <3> SUFFICES ASSUME NEW k \in 0..(n + 1), k # 0
                 PROVE  b * p[k - 1] \in Nat
      OBVIOUS
    <3>1. p[k - 1] \in Nat
      BY <2>1
    <3>2. \A x, y \in Nat : x * y \in Nat
      OBVIOUS
    <3>3. QED
      BY <3>1, <3>2
  <2>5. IsPower(q, b, 0..(n + 1))
    BY <2>3 DEF IsPower
  <2>6. Upto(n + 1, q)
    BY <2>4, <2>5
  <2>7. QED
    BY <2>6
<1>3. \A n \in Nat : \E p : Upto(n, p)
  <2> HIDE DEF F
  <2>1. \A n \in Nat : n \in F
    BY <1>1, <1>2, NatInSet
  <2>2. QED
    BY <2>1 DEF F
<1>4. ASSUME NEW n \in Nat, NEW m \in Nat, NEW p, NEW q,
             Upto(n, p), Upto(m, q)
      PROVE  \A k \in Nat : k <= n /\ k <= m => p[k] = q[k]
  <2> DEFINE G == {k \in Nat : k <= n /\ k <= m => p[k] = q[k]}
  <2>1. 0 \in G
    BY <1>4 DEF IsPower
  <2>2. ASSUME NEW k \in Nat, k \in G PROVE k + 1 \in G
    <3> SUFFICES ASSUME k + 1 <= n, k + 1 <= m PROVE p[k + 1] = q[k + 1]
      OBVIOUS
    <3>1. p[k] = q[k]
      BY <2>2
    <3>2. p[k + 1] = b * p[(k + 1) - 1] /\ q[k + 1] = b * q[(k + 1) - 1]
      BY <1>4 DEF IsPower
    <3>3. (k + 1) - 1 = k
      OBVIOUS
    <3>4. QED
      BY <3>1, <3>2, <3>3
  <2>3. \A k \in Nat : k \in G
    <3> HIDE DEF G
    <3> QED BY <2>1, <2>2, NatInSet
  <2>4. QED
    BY <2>3
<1> DEFINE c == [n \in Nat |-> CHOOSE p : Upto(n, p)]
           r == [n \in Nat |-> c[n][n]]
<1>5. \A n \in Nat : Upto(n, c[n])
  BY <1>3
<1>6. \A n \in Nat : r[n] = c[n][n] /\ r[n] \in Nat
  BY <1>5
<1>7. r[0] = 1
  <2>1. Upto(0, c[0])
    BY <1>5
  <2>2. c[0][0] = 1
    <3> HIDE DEF c
    <3> QED BY <2>1 DEF IsPower
  <2>3. QED
    BY <2>2
<1>8. ASSUME NEW n \in Nat, n # 0 PROVE r[n] = b * r[n - 1]
  <2>1. n - 1 \in Nat /\ n - 1 <= n
    BY <1>8
  <2>2. Upto(n, c[n]) /\ Upto(n - 1, c[n - 1])
    BY <2>1, <1>5
  <2>3. c[n][n - 1] = c[n - 1][n - 1]
    <3> HIDE DEF c, Upto
    <3> QED BY <2>1, <2>2, <1>4
  <2>4. c[n][n] = b * c[n][n - 1]
    <3> HIDE DEF c
    <3> QED BY <2>2, <1>8 DEF IsPower
  <2>5. r[n - 1] = c[n - 1][n - 1]
    BY <2>1, <1>6
  <2>6. QED
    BY <2>3, <2>4, <2>5, <1>6
<1>9. r \in [Nat -> Nat]
  BY <1>6
<1> HIDE DEF r
<1>10. \A n \in Nat : r[n] = IF n = 0 THEN 1 ELSE b * r[n - 1]
  BY <1>7, <1>8
<1>11. r = [n \in Nat |-> IF n = 0 THEN 1 ELSE b * r[n - 1]]
  BY <1>9, <1>10
<1>12. QED
  BY <1>9, <1>11 DEF IsPower

LEMMA PowerDef ==
  ASSUME NEW b \in Nat
  PROVE  /\ Power(b, 0) = 1
         /\ \A n \in Nat : /\ Power(b, n) \in Nat
                           /\ Power(b, n + 1) = b * Power(b, n)
<1> DEFINE p == CHOOSE q : IsPower(q, b, Nat)
<1>1. \A n : Power(b, n) = p[n]
  BY DEF Power, IsPower
<1>2. IsPower(p, b, Nat)
  BY PowersExist
<1> HIDE DEF p
<1>3. p[0] = 1 /\ \A n \in Nat \ {0} : p[n] = b * p[n - 1]
  BY <1>2 DEF IsPower
<1>4. \A n \in Nat : n + 1 \in Nat \ {0} /\ (n + 1) - 1 = n
  OBVIOUS
<1>5. \A n \in Nat : p[n + 1] = b * p[n]
  BY <1>3, <1>4
<1>6. \A n \in Nat : p[n] \in Nat
  <2> DEFINE F == {n \in Nat : p[n] \in Nat}
  <2>1. 0 \in F
    BY <1>3
  <2>2. ASSUME NEW n \in Nat, n \in F PROVE n + 1 \in F
    <3>1. \A x \in Nat : b * x \in Nat
      OBVIOUS
    <3>2. QED
      BY <3>1, <2>2, <1>5
  <2> HIDE DEF F
  <2>3. \A n \in Nat : n \in F
    BY <2>1, <2>2, NatInSet
  <2>4. QED
    BY <2>3 DEF F
<1>7. QED
  BY <1>1, <1>3, <1>5, <1>6
-----------------------------------------------------------------------------
(* Sums.  `partial' is the recursive function of the fold: the sum of f     *)
(* over each set of arguments, one element chosen after the other.          *)

IsPartialSum(g, f, D) ==
  g = [s \in SUBSET D |->
         IF s = {} THEN 0
         ELSE LET x == CHOOSE x \in s : TRUE IN f[x] + g[s \ {x}]]

PartialSum(f) == CHOOSE g : IsPartialSum(g, f, DOMAIN f)

Chosen(s) == CHOOSE x \in s : TRUE

LEMMA SumIsPartial == \A f : Sum(f) = PartialSum(f)[DOMAIN f]
BY DEF Sum, MapThenSumSet, MapThenFoldSet, PartialSum, IsPartialSum

LEMMA PartialSumsExist ==
  ASSUME NEW D, IsFiniteSet(D), NEW f \in [D -> Nat]
  PROVE  \E g : IsPartialSum(g, f, D)
<1> DEFINE Small(n) == {s \in SUBSET D : Cardinality(s) <= n}
           Unfold(g, s) == IF s = {} THEN 0
                         ELSE f[Chosen(s)] + g[s \ {Chosen(s)}]
           Upto(n, g) == /\ g \in [Small(n) -> Nat]
                         /\ \A s \in Small(n) : g[s] = Unfold(g, s)
           F == {n \in Nat : \E g : Upto(n, g)}
<1>1. \A s \in SUBSET D : /\ IsFiniteSet(s)
                          /\ Cardinality(s) \in Nat
                          /\ Cardinality(s) <= Cardinality(D)
  BY FS_Subset, FS_CardinalityType
<1>2. \A s \in SUBSET D : s # {} =>
        /\ Chosen(s) \in s
        /\ f[Chosen(s)] \in Nat
        /\ s \ {Chosen(s)} \in SUBSET D
        /\ Cardinality(s \ {Chosen(s)}) = Cardinality(s) - 1
  BY <1>1, FS_RemoveElement DEF Chosen
<1>3. Small(0) = {{}}
  BY <1>1, FS_EmptySet
<1>4. 0 \in F
  <2> DEFINE g == [s \in {{}} |-> 0]
  <2>1. Upto(0, g)
    <3> HIDE DEF Small
    <3> QED BY <1>3
  <2>2. QED
    BY <2>1
<1>5. ASSUME NEW n \in Nat, n \in F PROVE n + 1 \in F
  <2>1. PICK g : Upto(n, g)
    BY <1>5
  <2> DEFINE h == [s \in Small(n + 1) |-> Unfold(g, s)]
  <2>2. \A s \in Small(n + 1) : s # {} => s \ {Chosen(s)} \in Small(n)
    BY <1>1, <1>2
  <2>3. \A s \in Small(n) : s \in Small(n + 1) /\ h[s] = g[s]
    <3>1. \A s \in Small(n) : s \in Small(n + 1)
      BY <1>1
    <3> HIDE DEF Unfold, Small
    <3>2. QED
      BY <3>1, <2>1
  <2>4. \A s \in Small(n + 1) : h[s] \in Nat /\ h[s] = Unfold(h, s)
    <3> SUFFICES ASSUME NEW s \in Small(n + 1)
                 PROVE  h[s] \in Nat /\ h[s] = Unfold(h, s)
      OBVIOUS
    <3>1. h[s] = Unfold(g, s)
      OBVIOUS
    <3>2. CASE s = {}
      BY <3>1, <3>2
    <3>3. CASE s # {}
      <4> DEFINE t == s \ {Chosen(s)}
      <4>1. t \in Small(n)
        BY <2>2, <3>3
      <4>2. g[t] \in Nat /\ h[t] = g[t]
        <5> HIDE DEF h, t, Small
        <5> QED BY <4>1, <2>1, <2>3
      <4>3. f[Chosen(s)] \in Nat
        BY <1>2, <3>3
      <4> HIDE DEF h, t
      <4>4. Unfold(g, s) = f[Chosen(s)] + g[t]
            /\ Unfold(h, s) = f[Chosen(s)] + h[t]
        BY <3>3 DEF t
      <4>5. QED
        BY <3>1, <4>2, <4>3, <4>4
    <3>4. QED
      BY <3>2, <3>3
  <2>5. Upto(n + 1, h)
    <3> HIDE DEF Unfold
    <3> QED BY <2>4
  <2> HIDE DEF h, Upto
  <2>6. QED
    BY <2>5
<1>6. \E g : Upto(Cardinality(D), g)
  <2> HIDE DEF F
  <2>1. \A n \in Nat : n \in F
    BY <1>4, <1>5, NatInSet
  <2>2. QED
    BY <2>1, <1>1 DEF F
<1>7. PICK g : Upto(Cardinality(D), g)
  BY <1>6
<1>8. Small(Cardinality(D)) = SUBSET D
  BY <1>1
<1>9. g \in [SUBSET D -> Nat] /\ \A s \in SUBSET D : g[s] = Unfold(g, s)
  <2> HIDE DEF Small, Unfold
  <2> QED BY <1>7, <1>8
<1>10. IsPartialSum(g, f, D)
  BY <1>9 DEF IsPartialSum, Chosen
<1>11. QED
  BY <1>10

(* The partial sums of a function with a finite domain.                     *)
LEMMA PartialSumDef ==
  ASSUME NEW D, IsFiniteSet(D), NEW f \in [D -> Nat]
  PROVE  /\ PartialSum(f)[{}] = 0
         /\ \A s \in SUBSET D :
              /\ PartialSum(f)[s] \in Nat
              /\ s # {} =>
                   /\ Chosen(s) \in s
                   /\ PartialSum(f)[s]
                        = f[Chosen(s)] + PartialSum(f)[s \ {Chosen(s)}]
<1> DEFINE g == PartialSum(f)
<1>1. IsPartialSum(g, f, D)
  BY PartialSumsExist DEF PartialSum
<1> HIDE DEF g
<1>2. \A s \in SUBSET D :
        g[s] = IF s = {} THEN 0 ELSE f[Chosen(s)] + g[s \ {Chosen(s)}]
  BY <1>1 DEF IsPartialSum, Chosen
<1>3. \A s \in SUBSET D : s # {} => Chosen(s) \in s /\ f[Chosen(s)] \in Nat
  BY DEF Chosen
<1>4. \A s \in SUBSET D : g[s] \in Nat
  <2> DEFINE F == {s \in SUBSET D : g[s] \in Nat}
  <2>1. ASSUME NEW s \in SUBSET D, \A t \in SUBSET s : t # s => t \in F
        PROVE  s \in F
    <3>1. CASE s = {}
      BY <3>1, <1>2
    <3>2. CASE s # {}
      <4>1. s \ {Chosen(s)} \in F
        BY <2>1, <3>2, <1>3
      <4>2. g[s \ {Chosen(s)}] \in Nat
        BY <4>1
      <4>3. QED
        BY <4>2, <3>2, <1>2, <1>3
    <3>3. QED
      BY <3>1, <3>2
  <2> HIDE DEF F
  <2>2. \A s \in SUBSET D : s \in F
    BY <2>1, SubsetsInSet
  <2>3. QED
    BY <2>2 DEF F
<1>5. QED
  BY <1>2, <1>3, <1>4 DEF g

(* It does not matter which element is taken out first.                     *)
LEMMA PartialSumTakes ==
  ASSUME NEW D, IsFiniteSet(D), NEW f \in [D -> Nat]
  PROVE  \A s \in SUBSET D : \A y \in s :
           PartialSum(f)[s] = f[y] + PartialSum(f)[s \ {y}]
<1> DEFINE g == PartialSum(f)
           Takes(s) == \A y \in s : g[s] = f[y] + g[s \ {y}]
           F == {s \in SUBSET D : Takes(s)}
<1>0. \A s \in SUBSET D :
        /\ g[s] \in Nat
        /\ s # {} => /\ Chosen(s) \in s
                      /\ g[s] = f[Chosen(s)] + g[s \ {Chosen(s)}]
  BY PartialSumDef
<1> HIDE DEF g
<1>1. ASSUME NEW s \in SUBSET D, \A t \in SUBSET s : t # s => t \in F
      PROVE  s \in F
  <2> SUFFICES ASSUME NEW y \in s PROVE g[s] = f[y] + g[s \ {y}]
    OBVIOUS
  <2>1. PICK x \in s : x = Chosen(s) /\ g[s] = f[x] + g[s \ {x}]
    BY <1>0
  <2>2. CASE x = y
    BY <2>1, <2>2
  <2>3. CASE x # y
    <3>1. s \ {x} \in F /\ s \ {y} \in F
      BY <1>1
    <3>2. g[s \ {x}] = f[y] + g[(s \ {x}) \ {y}]
      BY <3>1, <2>3
    <3>3. g[s \ {y}] = f[x] + g[(s \ {y}) \ {x}]
      BY <3>1, <2>3
    <3>4. (s \ {x}) \ {y} = (s \ {y}) \ {x}
      OBVIOUS
    <3>5. PICK z : z = (s \ {x}) \ {y} /\ g[z] \in Nat
      BY <1>0
    <3>6. f[x] \in Nat /\ f[y] \in Nat
      OBVIOUS
    <3>7. QED
      BY <2>1, <3>2, <3>3, <3>4, <3>5, <3>6
  <2>4. QED
    BY <2>2, <2>3
<1> HIDE DEF F
<1>2. \A s \in SUBSET D : s \in F
  BY <1>1, SubsetsInSet
<1>3. QED
  BY <1>2 DEF F, g

(* Partial sums only depend on the values summed.                           *)
LEMMA PartialSumLocal ==
  ASSUME NEW D, IsFiniteSet(D), NEW f \in [D -> Nat]
  PROVE  \A S \in SUBSET D : \A h \in [S -> Nat] :
           (\A x \in S : h[x] = f[x]) =>
             \A s \in SUBSET S : PartialSum(h)[s] = PartialSum(f)[s]
<1> DEFINE g == PartialSum(f)
<1>1. /\ g[{}] = 0
      /\ \A s \in SUBSET D :
            /\ g[s] \in Nat
            /\ s # {} =>
                 Chosen(s) \in s /\ g[s] = f[Chosen(s)] + g[s \ {Chosen(s)}]
  BY PartialSumDef
<1> SUFFICES ASSUME NEW S \in SUBSET D, NEW h \in [S -> Nat],
                    \A x \in S : h[x] = f[x]
             PROVE  \A s \in SUBSET S : PartialSum(h)[s] = g[s]
  OBVIOUS
<1> DEFINE k == PartialSum(h)
           F == {s \in SUBSET S : k[s] = g[s]}
<1>0. IsFiniteSet(S)
  BY FS_Subset
<1>2. /\ k[{}] = 0
      /\ \A s \in SUBSET S :
            /\ k[s] \in Nat
            /\ s # {} =>
                 Chosen(s) \in s /\ k[s] = h[Chosen(s)] + k[s \ {Chosen(s)}]
  BY <1>0, PartialSumDef
<1> HIDE DEF g, k
<1>3. ASSUME NEW s \in SUBSET S, \A t \in SUBSET s : t # s => t \in F
      PROVE  s \in F
  <2>1. CASE s = {}
    BY <2>1, <1>1, <1>2
  <2>2. CASE s # {}
    <3>1. PICK x \in s : /\ g[s] = f[x] + g[s \ {x}]
                         /\ k[s] = h[x] + k[s \ {x}]
      BY <2>2, <1>1, <1>2
    <3>2. s \ {x} \in F
      BY <1>3
    <3>3. k[s \ {x}] = g[s \ {x}]
      BY <3>2
    <3>4. QED
      BY <3>1, <3>3
  <2>3. QED
    BY <2>1, <2>2
<1> HIDE DEF F
<1>4. \A s \in SUBSET S : s \in F
  BY <1>0, <1>3, SubsetsInSet
<1>5. QED
  BY <1>4 DEF F, g, k

-----------------------------------------------------------------------------
(* What the proofs below use of sums.                                       *)

LEMMA SumType ==
  ASSUME NEW D, IsFiniteSet(D), NEW f \in [D -> Nat]
  PROVE  Sum(f) \in Nat
BY SumIsPartial, PartialSumDef

LEMMA SumOfNothing ==
  ASSUME NEW D, D = {}, NEW f \in [D -> Nat]
  PROVE  Sum(f) = 0
BY SumIsPartial, PartialSumDef, FS_EmptySet

LEMMA SumTakes ==
  ASSUME NEW D, IsFiniteSet(D), NEW f \in [D -> Nat], NEW x \in D
  PROVE  Sum(f) = f[x] + Sum([y \in D \ {x} |-> f[y]])
<1> DEFINE h == [y \in D \ {x} |-> f[y]]
<1>1. Sum(f) = f[x] + PartialSum(f)[D \ {x}]
  <2>1. DOMAIN f = D
    OBVIOUS
  <2>2. PartialSum(f)[D] = f[x] + PartialSum(f)[D \ {x}]
    BY PartialSumTakes
  <2>3. QED
    BY <2>1, <2>2, SumIsPartial
<1>2. h \in [D \ {x} -> Nat] /\ \A y \in D \ {x} : h[y] = f[y]
  OBVIOUS
<1> HIDE DEF h
<1>3. PartialSum(h)[D \ {x}] = PartialSum(f)[D \ {x}]
  BY <1>2, PartialSumLocal
<1>4. Sum(h) = PartialSum(h)[D \ {x}]
  BY <1>2, SumIsPartial
<1>5. QED
  BY <1>1, <1>3, <1>4 DEF h
On(f, s) == [y \in s |-> f[y]]

LEMMA SumOn ==
  ASSUME NEW D, IsFiniteSet(D), NEW f \in [D -> Nat]
  PROVE  /\ On(f, D) = f
         /\ Sum(On(f, {})) = 0
         /\ \A s \in SUBSET D :
              /\ Sum(On(f, s)) \in Nat
              /\ \A x \in s : Sum(On(f, s)) = f[x] + Sum(On(f, s \ {x}))
<1>1. On(f, D) = f
  BY DEF On
<1>2. Sum(On(f, {})) = 0
  <2>1. On(f, {}) \in [{} -> Nat]
    BY DEF On
  <2>2. QED
    BY <2>1, SumOfNothing
<1>3. ASSUME NEW s \in SUBSET D
      PROVE  /\ Sum(On(f, s)) \in Nat
             /\ \A x \in s : Sum(On(f, s)) = f[x] + Sum(On(f, s \ {x}))
  <2>1. PICK h : h = On(f, s)
    OBVIOUS
  <2>2. h \in [s -> Nat] /\ IsFiniteSet(s)
    BY <2>1, FS_Subset DEF On
  <2>3. Sum(h) \in Nat
    BY <2>2, SumType
  <2>4. ASSUME NEW x \in s PROVE Sum(h) = f[x] + Sum(On(f, s \ {x}))
    <3>1. Sum(h) = h[x] + Sum([y \in s \ {x} |-> h[y]])
      <4>1. \A z \in s : Sum(h) = h[z] + Sum([y \in s \ {z} |-> h[y]])
        BY <2>2, SumTakes
      <4>2. QED
        BY <4>1
    <3>2. [y \in s \ {x} |-> h[y]] = On(f, s \ {x})
      BY <2>1 DEF On
    <3>3. h[x] = f[x]
      BY <2>1 DEF On
    <3>4. QED
      BY <3>1, <3>2, <3>3
  <2>5. QED
    BY <2>1, <2>3, <2>4
<1>4. QED
  BY <1>1, <1>2, <1>3

LEMMA SumExtends ==
  ASSUME NEW D, IsFiniteSet(D), NEW x, x \notin D,
         NEW f \in [D \cup {x} -> Nat]
  PROVE  Sum(f) = Sum([y \in D |-> f[y]]) + f[x]
<1>1. IsFiniteSet(D \cup {x})
  BY FS_AddElement
<1>2. On(f, D \cup {x}) = f
  BY DEF On
<1>3. Sum(On(f, D \cup {x})) = f[x] + Sum(On(f, (D \cup {x}) \ {x}))
  BY <1>1, SumOn
<1>4. (D \cup {x}) \ {x} = D
  OBVIOUS
<1>5. Sum(On(f, D)) \in Nat /\ f[x] \in Nat
  BY <1>1, SumOn
<1>6. QED
  BY <1>2, <1>3, <1>4, <1>5 DEF On

LEMMA Product == \A x, y \in Nat : x * y \in Nat /\ x * y = y * x
OBVIOUS

LEMMA Distribute == \A x, y, z \in Nat : x * (y + z) = x * y + x * z
OBVIOUS

LEMMA SumTimes ==
  ASSUME NEW D, IsFiniteSet(D), NEW f \in [D -> Nat], NEW a \in Nat
  PROVE  Sum([y \in D |-> a * f[y]]) = a * Sum(f)
<1> DEFINE h == [y \in D |-> a * f[y]]
           F == {s \in SUBSET D : Sum(On(h, s)) = a * Sum(On(f, s))}
<1>1. h \in [D -> Nat] /\ \A y \in D : h[y] = a * f[y]
  BY Product
<1> HIDE DEF h
<1>2. ASSUME NEW s \in SUBSET D, \A t \in SUBSET s : t # s => t \in F
      PROVE  s \in F
  <2>1. CASE s = {}
    <3>1. Sum(On(h, s)) = 0 /\ Sum(On(f, s)) = 0
      BY <2>1, <1>1, SumOn
    <3>2. a * 0 = 0
      OBVIOUS
    <3>3. QED
      BY <3>1, <3>2
  <2>2. CASE s # {}
    <3>1. PICK x \in s : TRUE
      BY <2>2
    <3>2. s \ {x} \in F
      BY <1>2
    <3>3. PICK n \in Nat : n = Sum(On(f, s \ {x}))
      BY SumOn
    <3>4. Sum(On(f, s)) = f[x] + n
      BY <3>3, SumOn
    <3>5. Sum(On(h, s)) = h[x] + Sum(On(h, s \ {x}))
      BY <1>1, SumOn
    <3>6. Sum(On(h, s \ {x})) = a * n
      BY <3>2, <3>3
    <3>7. f[x] \in Nat /\ h[x] = a * f[x]
      BY <1>1
    <3>8. a * (f[x] + n) = a * f[x] + a * n
      BY <3>7, Distribute
    <3>9. QED
      BY <3>4, <3>5, <3>6, <3>7, <3>8
  <2>3. QED
    BY <2>1, <2>2
<1> HIDE DEF F
<1>3. \A s \in SUBSET D : s \in F
  BY <1>2, SubsetsInSet
<1>4. Sum(On(h, D)) = a * Sum(On(f, D))
  BY <1>3 DEF F
<1>5. On(h, D) = h /\ On(f, D) = f
  BY <1>1, SumOn
<1>6. QED
  BY <1>4, <1>5 DEF h

(* Smoothing adds one unit for every symbol of the vocabulary.              *)
LEMMA SumSmoothed ==
  ASSUME NEW D, IsFiniteSet(D), NEW S \in SUBSET D, NEW f \in [S -> Nat],
         NEW u \in Nat
  PROVE  Sum([y \in D |-> (IF y \in S THEN f[y] ELSE 0) + u])
           = Sum(f) + Cardinality(D) * u
<1> DEFINE h == [y \in D |-> (IF y \in S THEN f[y] ELSE 0) + u]
           F == {s \in SUBSET D :
                   Sum(On(h, s)) = Sum(On(f, s \cap S)) + Cardinality(s) * u}
<1>1. h \in [D -> Nat]
      /\ \A y \in D : h[y] = (IF y \in S THEN f[y] ELSE 0) + u
  OBVIOUS
<1>2. IsFiniteSet(S)
  BY FS_Subset
<1>S. \A z \in SUBSET S :
        /\ Sum(On(f, z)) \in Nat
        /\ \A x \in z : Sum(On(f, z)) = f[x] + Sum(On(f, z \ {x}))
  BY <1>2, SumOn
<1> HIDE DEF h
<1>3. ASSUME NEW s \in SUBSET D, \A t \in SUBSET s : t # s => t \in F
      PROVE  s \in F
  <2>1. CASE s = {}
    <3>1. Sum(On(h, s)) = 0
      BY <2>1, <1>1, SumOn
    <3>2. Sum(On(f, s \cap S)) = 0
      <4>1. s \cap S = {}
        BY <2>1
      <4>2. QED
        BY <4>1, <1>2, SumOn
    <3>3. Cardinality(s) = 0 /\ 0 * u = 0
      BY <2>1, FS_EmptySet
    <3>4. QED
      BY <3>1, <3>2, <3>3
  <2>2. CASE s # {}
    <3>1. PICK x \in s : TRUE
      BY <2>2
    <3>2. s \ {x} \in F
      BY <1>3
    <3>3. PICK k \in Nat : k = Cardinality(s \ {x}) /\ Cardinality(s) = k + 1
      <4>1. IsFiniteSet(s) /\ IsFiniteSet(s \ {x})
        BY FS_Subset
      <4>2. Cardinality(s) \in Nat /\ Cardinality(s \ {x}) \in Nat
        BY <4>1, FS_CardinalityType
      <4>3. Cardinality(s \ {x}) = Cardinality(s) - 1
        BY <4>1, FS_RemoveElement
      <4>4. QED
        BY <4>2, <4>3
    <3>4. PICK n \in Nat : n = Sum(On(f, (s \ {x}) \cap S))
      <4>1. (s \ {x}) \cap S \in SUBSET S
        OBVIOUS
      <4>2. QED
        BY <4>1, <1>2, SumOn
    <3>5. Sum(On(h, s)) = h[x] + Sum(On(h, s \ {x}))
      BY <1>1, SumOn
    <3>6. Sum(On(h, s \ {x})) = n + k * u
      BY <3>2, <3>3, <3>4
    <3>7. PICK m \in Nat : k * u = m /\ Cardinality(s) * u = m + u
      <4>1. k * u \in Nat /\ (k + 1) * u = k * u + u
        BY Product, Distribute
      <4>2. QED
        BY <4>1, <3>3
    <3>8. CASE x \in S
      <4> DEFINE z == s \cap S
      <4>1. z \in SUBSET S /\ x \in z /\ z \ {x} = (s \ {x}) \cap S
        BY <3>8
      <4> HIDE DEF z
      <4>2. Sum(On(f, z)) \in Nat
            /\ Sum(On(f, z)) = f[x] + Sum(On(f, z \ {x}))
        BY <4>1, <1>S, Zenon
      <4>3. Sum(On(f, s \cap S)) = f[x] + n
        BY <4>1, <4>2, <3>4 DEF z
      <4>4. h[x] = f[x] + u /\ f[x] \in Nat
        BY <1>1, <3>8
      <4>5. Sum(On(h, s)) = (f[x] + u) + (n + m)
        BY <4>4, <3>5, <3>6, <3>7
      <4>6. QED
        BY <4>3, <4>4, <4>5, <3>7
    <3>9. CASE x \notin S
      <4>1. s \cap S = (s \ {x}) \cap S
        BY <3>9
      <4>2. h[x] = u
        BY <1>1, <3>9
      <4>3. Sum(On(h, s)) = u + (n + m)
        BY <4>2, <3>5, <3>6, <3>7
      <4>4. Sum(On(f, s \cap S)) = n
        BY <4>1, <3>4
      <4>5. QED
        BY <4>3, <4>4, <3>7
    <3>10. QED
      BY <3>8, <3>9
  <2>3. QED
    BY <2>1, <2>2
<1> HIDE DEF F
<1>4. \A s \in SUBSET D : s \in F
  BY <1>3, SubsetsInSet
<1>5. Sum(On(h, D)) = Sum(On(f, D \cap S)) + Cardinality(D) * u
  BY <1>4 DEF F
<1>6. On(h, D) = h
  BY <1>1, SumOn
<1>7. D \cap S = S
  OBVIOUS
<1>8. On(f, S) = f
  BY <1>2, SumOn
<1>9. QED
  BY <1>5, <1>6, <1>7, <1>8 DEF h
-----------------------------------------------------------------------------
(* Histories.                                                               *)

USE ContractAssumption

Event == [sym : Symbols, ts : Nat, learned : BOOLEAN]

Sym(i) == heard[i].sym

(* The occurrences of a transition among the first n events, and its weight *)
(* once the events up to d have decayed it.                                 *)
Occurrences(n, prev, cur) ==
  {k \in 2..n : Departs(k, prev) /\ heard[k].sym = cur}

WeightAt(d, n, prev, cur) ==
  Sum([i \in Occurrences(n, prev, cur) |-> Faded(d, i, prev)])

LEMMA WeightIsAt ==
  \A n, prev, cur : Weight(n, prev, cur) = WeightAt(n, n, prev, cur)
BY DEF Weight, WeightAt, Occurrences

(* What was heard does not depend on what is heard next.                    *)
LEMMA Prefix ==
  ASSUME heard \in Seq(Event), NEW e \in Event, heard' = Append(heard, e)
  PROVE  /\ heard' \in Seq(Event)
         /\ Len(heard') = Len(heard) + 1
         /\ heard'[Len(heard) + 1] = e
         /\ \A i \in 1..Len(heard) : heard'[i] = heard[i]
BY DEF Event

LEMMA SameLearned ==
  ASSUME heard \in Seq(Event), NEW e \in Event, heard' = Append(heard, e),
         NEW n \in 0..Len(heard)
  PROVE  LearnedBy(n)' <=> LearnedBy(n)
<1>1. \A k \in 1..n : heard'[k] = heard[k] /\ heard'[1] = heard[1]
  BY Prefix
<1>2. QED
  BY <1>1 DEF LearnedBy

LEMMA SamePairs ==
  ASSUME heard \in Seq(Event), NEW e \in Event, heard' = Append(heard, e),
         NEW n \in 0..Len(heard)
  PROVE  Pairs(n)' = Pairs(n)
<1>1. \A k \in 2..n : heard'[k] = heard[k] /\ heard'[k - 1] = heard[k - 1]
  BY Prefix
<1>2. QED
  BY <1>1 DEF Pairs

LEMMA SameFaded ==
  ASSUME heard \in Seq(Event), NEW e \in Event, heard' = Append(heard, e),
         NEW d \in 0..Len(heard), NEW i \in 2..d, NEW prev
  PROVE  Faded(d, i, prev)' = Faded(d, i, prev)
<1>1. \A k \in (i + 1)..d : /\ Departs(k, prev)' <=> Departs(k, prev)
                            /\ LearnedBy(k - 1)' <=> LearnedBy(k - 1)
  BY Prefix, SameLearned DEF Departs
<1>2. {j \in (i + 1)..d : Departs(j, prev)' /\ LearnedBy(j - 1)'}
        = {j \in (i + 1)..d : Departs(j, prev) /\ LearnedBy(j - 1)}
  BY <1>1
<1>3. QED
  BY <1>2 DEF Faded

LEMMA SameWeight ==
  ASSUME heard \in Seq(Event), NEW e \in Event, heard' = Append(heard, e),
         NEW d \in 0..Len(heard), NEW n \in 0..d, NEW prev, NEW cur
  PROVE  WeightAt(d, n, prev, cur)' = WeightAt(d, n, prev, cur)
<1>1. \A k \in 2..n : /\ Departs(k, prev)' <=> Departs(k, prev)
                      /\ heard'[k] = heard[k]
  BY Prefix DEF Departs
<1>2. Occurrences(n, prev, cur)' = Occurrences(n, prev, cur)
  BY <1>1 DEF Occurrences
<1>3. \A i \in Occurrences(n, prev, cur) :
        Faded(d, i, prev)' = Faded(d, i, prev)
  BY SameFaded DEF Occurrences
<1>4. [i \in Occurrences(n, prev, cur)' |-> Faded(d, i, prev)']
        = [i \in Occurrences(n, prev, cur) |-> Faded(d, i, prev)]
  BY <1>2, <1>3
<1>5. QED
  BY <1>4 DEF WeightAt

LEMMA PairsGrow ==
  ASSUME NEW n \in Nat, NEW m \in Nat, n <= m
  PROVE  Pairs(n) \subseteq Pairs(m)
<1>1. 2..n \subseteq 2..m
  OBVIOUS
<1>2. QED
  BY <1>1, Zenon DEF Pairs

LEMMA NextPair ==
  ASSUME NEW n \in Nat \ {0}
  PROVE  Pairs(n + 1) = Pairs(n) \cup {<<Sym(n), Sym(n + 1)>>}
<1>1. 2..(n + 1) = (2..n) \cup {n + 1} /\ (n + 1) - 1 = n
  OBVIOUS
<1>2. QED
  BY <1>1 DEF Pairs, Sym

LEMMA NoPairs == Pairs(0) = {} /\ Pairs(1) = {} /\ Pairs(-1) = {}
BY DEF Pairs

LEMMA PairIsHeard ==
  ASSUME NEW n \in Nat, NEW x \in Pairs(n)
  PROVE  \E i \in 2..n : x = <<Sym(i - 1), Sym(i)>>
BY DEF Pairs, Sym

-----------------------------------------------------------------------------
(* Weights.                                                                 *)

Decays(d, i, prev) ==
  {j \in (i + 1)..d : Departs(j, prev) /\ LearnedBy(j - 1)}

LEMMA FadedIs ==
  ASSUME NEW d, NEW i, NEW prev, NEW k, k = Cardinality(Decays(d, i, prev))
  PROVE  Faded(d, i, prev)
           = Power(AlphaInverse - 1, k) * Power(AlphaInverse, MaxHeard - k)
BY Zenon DEF Faded, Decays

LEMMA DecayCount ==
  ASSUME NEW d \in Nat, NEW i \in Nat, i <= d, NEW prev
  PROVE  /\ IsFiniteSet(Decays(d, i, prev))
         /\ Cardinality(Decays(d, i, prev)) \in Nat
         /\ Cardinality(Decays(d, i, prev)) <= d - i
<1>1. PICK a \in Int : a = i + 1
  OBVIOUS
<1>2. IsFiniteSet(a..d)
      /\ Cardinality(a..d) = IF a > d THEN 0 ELSE d - a + 1
  <2>1. d \in Int
    OBVIOUS
  <2>2. QED
    BY <2>1, FS_Interval, Zenon
<1>3. Decays(d, i, prev) \in SUBSET (a..d)
  BY <1>1 DEF Decays
<1>4. /\ IsFiniteSet(Decays(d, i, prev))
      /\ Cardinality(Decays(d, i, prev)) <= Cardinality(a..d)
  BY <1>2, <1>3, FS_Subset
<1>5. Cardinality(Decays(d, i, prev)) \in Nat
  BY <1>4, FS_CardinalityType
<1>6. QED
  BY <1>1, <1>2, <1>4, <1>5

LEMMA FadedType ==
  ASSUME NEW d \in 0..MaxHeard, NEW i \in 0..d, NEW prev
  PROVE  Faded(d, i, prev) \in Nat
<1>1. /\ Cardinality(Decays(d, i, prev)) \in Nat
      /\ Cardinality(Decays(d, i, prev)) <= d - i
  BY DecayCount
<1>2. PICK k \in Nat : k = Cardinality(Decays(d, i, prev))
  BY <1>1
<1>3. PICK r \in Nat : r = MaxHeard - k
  BY <1>1, <1>2
<1>4. PICK b \in Nat : b = AlphaInverse - 1
  OBVIOUS
<1>5. Power(b, k) \in Nat /\ Power(AlphaInverse, r) \in Nat
  BY PowerDef
<1>6. Faded(d, i, prev) = Power(b, k) * Power(AlphaInverse, r)
  BY <1>2, <1>3, <1>4, FadedIs
<1>7. QED
  BY <1>5, <1>6, Product

(* An event fades those before it, or does not touch them.                  *)
Share(d, i, prev) ==
  LET k == Cardinality(Decays(d, i, prev))
  IN Power(AlphaInverse - 1, k) * Power(AlphaInverse, MaxHeard - (k + 1))

LEMMA FadesOnce ==
  ASSUME NEW d \in Nat, d + 1 <= MaxHeard, NEW i \in 2..d, NEW prev
  PROVE  /\ Departs(d + 1, prev) /\ LearnedBy(d) =>
              /\ Share(d, i, prev) \in Nat
              /\ Faded(d, i, prev) = AlphaInverse * Share(d, i, prev)
              /\ Faded(d + 1, i, prev)
                   = (AlphaInverse - 1) * Share(d, i, prev)
         /\ ~(Departs(d + 1, prev) /\ LearnedBy(d)) =>
              Faded(d + 1, i, prev) = Faded(d, i, prev)
<1>1. (i + 1)..(d + 1) = ((i + 1)..d) \cup {d + 1} /\ (d + 1) - 1 = d
  OBVIOUS
<1>2. CASE ~(Departs(d + 1, prev) /\ LearnedBy(d))
  <2>1. Decays(d + 1, i, prev) = Decays(d, i, prev)
    BY <1>1, <1>2 DEF Decays
  <2>2. QED
    BY <2>1, <1>2, FadedIs
<1>3. CASE Departs(d + 1, prev) /\ LearnedBy(d)
  <2>1. Decays(d + 1, i, prev) = Decays(d, i, prev) \cup {d + 1}
        /\ d + 1 \notin Decays(d, i, prev)
    BY <1>1, <1>3 DEF Decays
  <2>2. /\ IsFiniteSet(Decays(d, i, prev))
        /\ Cardinality(Decays(d, i, prev)) \in Nat
        /\ Cardinality(Decays(d, i, prev)) <= d - i
    BY DecayCount
  <2>3. PICK k \in Nat : k = Cardinality(Decays(d, i, prev)) /\ k <= d - i
    BY <2>2
  <2>4. Cardinality(Decays(d + 1, i, prev)) = k + 1
    BY <2>1, <2>2, <2>3, FS_AddElement
  <2>5. PICK r \in Nat : MaxHeard - k = r + 1 /\ MaxHeard - (k + 1) = r
    <3>1. MaxHeard - (k + 1) \in Nat
      BY <2>3
    <3>2. QED
      BY <3>1
  <2>6. PICK b \in Nat : b = AlphaInverse - 1
    OBVIOUS
  <2>7. PICK u \in Nat : u = Power(b, k) /\ Power(b, k + 1) = b * u
    BY PowerDef
  <2>8. PICK v \in Nat : /\ v = Power(AlphaInverse, r)
                         /\ Power(AlphaInverse, r + 1) = AlphaInverse * v
    <3>1. /\ Power(AlphaInverse, r) \in Nat
          /\ Power(AlphaInverse, r + 1)
               = AlphaInverse * Power(AlphaInverse, r)
      BY PowerDef
    <3>2. QED
      BY <3>1
  <2>9. Faded(d, i, prev) = u * (AlphaInverse * v)
    BY <2>3, <2>5, <2>6, <2>7, <2>8, FadedIs
  <2>10. Faded(d + 1, i, prev) = (b * u) * v
    BY <2>4, <2>5, <2>6, <2>7, <2>8, FadedIs
  <2>11. u * v \in Nat
    BY Product
  <2>12. \A x, y, z \in Nat : /\ x * (y * z) = y * (x * z)
                             /\ (x * y) * z = x * (y * z)
    OBVIOUS
  <2>13. u * (AlphaInverse * v) = AlphaInverse * (u * v)
         /\ (b * u) * v = b * (u * v)
    BY <2>12
  <2>14. Share(d, i, prev) = u * v
    BY <2>3, <2>5, <2>6, <2>7, <2>8 DEF Share
  <2>15. QED
    BY <1>3, <2>6, <2>9, <2>10, <2>11, <2>13, <2>14
<1>4. QED
  BY <1>2, <1>3

LEMMA OccurrencesFinite ==
  ASSUME NEW n \in Nat, NEW prev, NEW cur
  PROVE  /\ IsFiniteSet(Occurrences(n, prev, cur))
         /\ Occurrences(n, prev, cur) \subseteq 2..n
<1> DEFINE a == 2
<1>0. a \in Int /\ n \in Int
  OBVIOUS
<1>1. IsFiniteSet(2..n)
  <2>1. IsFiniteSet(a..n)
    <3> HIDE DEF a
    <3>1. QED
      BY <1>0, FS_Interval, Zenon
  <2>2. QED
    BY <2>1
<1>2. Occurrences(n, prev, cur) \in SUBSET (2..n)
  BY DEF Occurrences
<1>3. QED
  BY <1>1, <1>2, FS_Subset

LEMMA WeightType ==
  ASSUME NEW d \in 0..MaxHeard, NEW n \in 0..d, NEW prev, NEW cur
  PROVE  WeightAt(d, n, prev, cur) \in Nat
<1>1. PICK O : O = Occurrences(n, prev, cur)
  OBVIOUS
<1>2. IsFiniteSet(O) /\ O \subseteq 2..n
  BY <1>1, OccurrencesFinite
<1>3. PICK f : f = [i \in O |-> Faded(d, i, prev)]
  OBVIOUS
<1>4. \A i \in O : Faded(d, i, prev) \in Nat
  BY <1>2, FadedType
<1>5. f \in [O -> Nat]
  BY <1>3, <1>4
<1>6. Sum(f) \in Nat
  BY <1>2, <1>5, SumType
<1>7. QED
  BY <1>1, <1>3, <1>6 DEF WeightAt

LEMMA Quotient ==
  ASSUME NEW a \in Nat \ {0}, NEW z \in Nat
  PROVE  (a * z) \div a = z
OBVIOUS

(* A decay multiplies a weight by 1 - 1/AlphaInverse, exactly.              *)
FadedOnce(w, v) ==
  \E y \in Nat : w = AlphaInverse * y /\ v = (AlphaInverse - 1) * y

LEMMA WeightDecays ==
  ASSUME NEW d \in Nat, d + 1 <= MaxHeard, NEW n \in 0..d, NEW prev, NEW cur,
         Departs(d + 1, prev), LearnedBy(d)
  PROVE  FadedOnce(WeightAt(d, n, prev, cur), WeightAt(d + 1, n, prev, cur))
<1>1. PICK O : O = Occurrences(n, prev, cur)
  OBVIOUS
<1>2. IsFiniteSet(O) /\ O \subseteq 2..n /\ O \subseteq 2..d
  <2>1. n \in Nat /\ 2..n \subseteq 2..d
    OBVIOUS
  <2>2. IsFiniteSet(O) /\ O \subseteq 2..n
    BY <2>1, <1>1, OccurrencesFinite, Zenon
  <2>3. QED
    BY <2>1, <2>2, Zenon
<1>3. PICK f : f = [i \in O |-> Faded(d, i, prev)]
  OBVIOUS
<1>4. PICK g : g = [i \in O |-> Faded(d + 1, i, prev)]
  OBVIOUS
<1>5. WeightAt(d, n, prev, cur) = Sum(f)
      /\ WeightAt(d + 1, n, prev, cur) = Sum(g)
  BY <1>1, <1>3, <1>4 DEF WeightAt
<1>6. \A i \in O :
        /\ Share(d, i, prev) \in Nat
        /\ Faded(d, i, prev) = AlphaInverse * Share(d, i, prev)
        /\ Faded(d + 1, i, prev)
             = (AlphaInverse - 1) * Share(d, i, prev)
  BY <1>2, FadesOnce
<1>7. PICK b \in Nat : b = AlphaInverse - 1
  OBVIOUS
<1>8. \A i \in O : /\ Faded(d, i, prev) = AlphaInverse * Share(d, i, prev)
                   /\ Faded(d + 1, i, prev) = b * Share(d, i, prev)
  BY <1>6, <1>7
<1>9. PICK h : h = [i \in O |-> Share(d, i, prev)]
  OBVIOUS
<1>10. h \in [O -> Nat]
      /\ \A i \in O : f[i] = AlphaInverse * h[i] /\ g[i] = b * h[i]
  BY <1>6, <1>8, <1>9, <1>3, <1>4
<1>11. f = [i \in O |-> AlphaInverse * h[i]] /\ g = [i \in O |-> b * h[i]]
  BY <1>10, <1>3, <1>4
<1>12. Sum([i \in O |-> AlphaInverse * h[i]]) = AlphaInverse * Sum(h)
  BY <1>10, <1>2, SumTimes
<1>13. Sum([i \in O |-> b * h[i]]) = b * Sum(h)
  BY <1>10, <1>2, SumTimes
<1>14. Sum(h) \in Nat
  BY <1>10, <1>2, SumType
<1>15. QED
  BY <1>5, <1>7, <1>11, <1>12, <1>13, <1>14 DEF FadedOnce

(* Any other event leaves it.                                               *)
LEMMA WeightKept ==
  ASSUME NEW d \in Nat, d + 1 <= MaxHeard, NEW n \in 0..d, NEW prev, NEW cur,
         ~(Departs(d + 1, prev) /\ LearnedBy(d))
  PROVE  WeightAt(d + 1, n, prev, cur) = WeightAt(d, n, prev, cur)
<1>1. PICK O : O = Occurrences(n, prev, cur)
  OBVIOUS
<1>2. IsFiniteSet(O) /\ O \subseteq 2..n /\ O \subseteq 2..d
  <2>1. n \in Nat /\ 2..n \subseteq 2..d
    OBVIOUS
  <2>2. IsFiniteSet(O) /\ O \subseteq 2..n
    BY <2>1, <1>1, OccurrencesFinite, Zenon
  <2>3. QED
    BY <2>1, <2>2, Zenon
<1>3. PICK f : f = [i \in O |-> Faded(d, i, prev)]
  OBVIOUS
<1>4. PICK g : g = [i \in O |-> Faded(d + 1, i, prev)]
  OBVIOUS
<1>5. WeightAt(d, n, prev, cur) = Sum(f)
      /\ WeightAt(d + 1, n, prev, cur) = Sum(g)
  BY <1>1, <1>3, <1>4 DEF WeightAt
<1>6. \A i \in O : Faded(d + 1, i, prev) = Faded(d, i, prev)
  BY <1>2, FadesOnce
<1>7. f = g
  BY <1>6, <1>3, <1>4
<1>8. QED
  BY <1>7, <1>5

LEMMA WeightFades ==
  ASSUME NEW d \in Nat, d + 1 <= MaxHeard, NEW n \in 0..d, NEW prev, NEW cur,
         NEW w, NEW v,
         w = WeightAt(d, n, prev, cur), v = WeightAt(d + 1, n, prev, cur)
  PROVE  /\ w \in Nat /\ v \in Nat
         /\ v <= w /\ v * AlphaInverse >= w * (AlphaInverse - 1)
         /\ Departs(d + 1, prev) /\ LearnedBy(d) =>
              v = (w * (AlphaInverse - 1)) \div AlphaInverse
         /\ ~(Departs(d + 1, prev) /\ LearnedBy(d)) => v = w
<1>1. w \in Nat /\ v \in Nat
  <2>1. d \in 0..MaxHeard /\ d + 1 \in 0..MaxHeard /\ n \in 0..(d + 1)
    BY ContractAssumption
  <2>2. w \in Nat
    BY <2>1, WeightType, Zenon
  <2>3. v \in Nat
    BY <2>1, WeightType, Zenon
  <2>4. QED
    BY <2>2, <2>3
<1>2. CASE Departs(d + 1, prev) /\ LearnedBy(d)
  <2>1. PICK y \in Nat : w = AlphaInverse * y /\ v = (AlphaInverse - 1) * y
    <3>1. FadedOnce(w, v)
      BY <1>2, WeightDecays
    <3>2. QED
      BY <3>1, Zenon DEF FadedOnce
  <2>2. PICK b \in Nat : b = AlphaInverse - 1
    OBVIOUS
  <2>3. AlphaInverse * y = b * y + y
    BY <2>2
  <2>4. v <= w
    BY <2>1, <2>2, <2>3, Product
  <2>5. \A x, z, t \in Nat : (x * z) * t = (t * z) * x
                             /\ (x * z) * t = x * (t * z)
    OBVIOUS
  <2>6. v * AlphaInverse = w * b /\ w * b = AlphaInverse * (b * y)
    BY <2>1, <2>2, <2>5
  <2>7. (AlphaInverse * (b * y)) \div AlphaInverse = b * y
    BY Quotient, Product
  <2>8. w * b \in Nat
    BY <1>1, Product
  <2>9. QED
    BY <1>1, <1>2, <2>1, <2>2, <2>4, <2>6, <2>7, <2>8
<1>3. CASE ~(Departs(d + 1, prev) /\ LearnedBy(d))
  <2>1. v = w
    BY <1>3, WeightKept
  <2>2. w * AlphaInverse >= w * (AlphaInverse - 1)
    <3>1. PICK b \in Nat : b = AlphaInverse - 1
      OBVIOUS
    <3>2. w * AlphaInverse = w * b + w
      BY <1>1, <3>1
    <3>3. w * b \in Nat
      BY <1>1, Product
    <3>4. QED
      BY <1>1, <3>1, <3>2, <3>3
  <2>3. QED
    BY <1>1, <1>3, <2>1, <2>2
<1>4. QED
  BY <1>2, <1>3

(* An event adds one unit to the transition it makes.                       *)
LEMMA WeightAdds ==
  ASSUME NEW n \in Nat \ {0}, n + 1 <= MaxHeard, NEW prev, NEW cur
  PROVE  WeightAt(n + 1, n + 1, prev, cur)
           = WeightAt(n + 1, n, prev, cur)
               + (IF Departs(n + 1, prev) /\ Sym(n + 1) = cur THEN Unit ELSE 0)
<1>1. PICK O : O = Occurrences(n, prev, cur)
  OBVIOUS
<1>2. IsFiniteSet(O) /\ O \subseteq 2..n /\ n + 1 \notin O
  BY <1>1, OccurrencesFinite
<1>3. 2..(n + 1) = (2..n) \cup {n + 1}
  OBVIOUS
<1>4. WeightAt(n + 1, n, prev, cur)
        = Sum([i \in O |-> Faded(n + 1, i, prev)])
  BY <1>1 DEF WeightAt
<1>5. WeightAt(n + 1, n, prev, cur) \in Nat
  BY WeightType
<1>6. CASE Departs(n + 1, prev) /\ Sym(n + 1) = cur
  <2>1. Occurrences(n + 1, prev, cur) = O \cup {n + 1}
    BY <1>1, <1>3, <1>6 DEF Occurrences, Sym
  <2>2. PICK f : f = [i \in O \cup {n + 1} |-> Faded(n + 1, i, prev)]
    OBVIOUS
  <2>3. \A i \in O \cup {n + 1} : Faded(n + 1, i, prev) \in Nat
    BY <1>2, FadedType
  <2>4. f \in [O \cup {n + 1} -> Nat]
    BY <2>2, <2>3
  <2>5. Sum(f) = Sum([i \in O |-> f[i]]) + f[n + 1]
    BY <2>4, <1>2, SumExtends
  <2>6. [i \in O |-> f[i]] = [i \in O |-> Faded(n + 1, i, prev)]
    BY <2>2
  <2>7. f[n + 1] = Unit
    <3>1. Decays(n + 1, n + 1, prev) = {}
      BY DEF Decays
    <3>2. Cardinality(Decays(n + 1, n + 1, prev)) = 0
      BY <3>1, FS_EmptySet
    <3>3. PICK b \in Nat : b = AlphaInverse - 1
      OBVIOUS
    <3>4. Faded(n + 1, n + 1, prev)
            = Power(b, 0) * Power(AlphaInverse, MaxHeard - 0)
      BY <3>2, <3>3, FadedIs
    <3>5. Power(b, 0) = 1 /\ Power(AlphaInverse, MaxHeard) \in Nat
      BY PowerDef
    <3>6. MaxHeard - 0 = MaxHeard
      OBVIOUS
    <3>7. Faded(n + 1, n + 1, prev) = Power(AlphaInverse, MaxHeard)
      BY <3>4, <3>5, <3>6
    <3>8. QED
      BY <3>7, <2>2 DEF Unit
  <2>8. WeightAt(n + 1, n + 1, prev, cur) = Sum(f)
    BY <2>1, <2>2 DEF WeightAt
  <2>9. QED
    BY <1>4, <1>6, <2>5, <2>6, <2>7, <2>8
<1>7. CASE ~(Departs(n + 1, prev) /\ Sym(n + 1) = cur)
  <2>1. Occurrences(n + 1, prev, cur) = O
    BY <1>1, <1>3, <1>7 DEF Occurrences, Sym
  <2>2. WeightAt(n + 1, n + 1, prev, cur) = WeightAt(n + 1, n, prev, cur)
    BY <1>1, <2>1 DEF WeightAt
  <2>3. QED
    BY <1>5, <1>7, <2>2
<1>8. QED
  BY <1>6, <1>7

(* What was never heard weighs nothing.                                     *)
LEMMA Weightless ==
  ASSUME NEW n \in Nat, NEW d, NEW prev, NEW cur, <<prev, cur>> \notin Pairs(n)
  PROVE  WeightAt(d, n, prev, cur) = 0
<1>1. Occurrences(n, prev, cur) = {}
  BY DEF Occurrences, Pairs, Departs
<1>2. PICK f : f = [i \in {} |-> Faded(d, i, prev)]
  OBVIOUS
<1>3. f \in [{} -> Nat]
  BY <1>2
<1>4. Sum(f) = 0
  BY <1>3, SumOfNothing
<1>5. QED
  BY <1>1, <1>2, <1>4 DEF WeightAt

LEMMA UnitType == Unit \in Nat
BY PowerDef DEF Unit

-----------------------------------------------------------------------------
(* The inductive invariant.                                                 *)

(* How many events have decayed the weights.                                *)
Aged == IF step = "heard" THEN Len(heard) - 1 ELSE Len(heard)

(* What the fields of the contract are, from the events alone.              *)
FollowsHistory ==
  /\ step # "idle" => heard # <<>>
  /\ Len(heard) <= MaxHeard
  /\ event_count = Len(heard)
  /\ first_event_ts = IF heard = <<>> THEN None ELSE heard[1].ts
  /\ last_symbol = IF Learned = 0 THEN None ELSE Sym(Learned)
  /\ learning_complete <=> LearnedBy(Learned)
  /\ \A i \in 1..Len(heard) : heard[i].learned <=> ~LearnedBy(i - 1)
  /\ DOMAIN counts = {Sym(i) : i \in 1..(Len(heard) - 1)}
  /\ \A p \in DOMAIN counts :
       /\ DOMAIN counts[p] = {c \in Symbols : <<p, c>> \in Pairs(Learned)}
       /\ {p} \cup DOMAIN counts[p] \subseteq vocab

WeightsFollow ==
  \A p \in DOMAIN counts : \A c \in DOMAIN counts[p] :
    counts[p][c] = WeightAt(Aged, Learned, p, c)

(* No window follows one that was enforced with a learned event in it.      *)
Judgements ==
  /\ window \subseteq 1..Len(heard)
  /\ \A i \in 1..Len(judged) : judged[i].events \subseteq 1..Len(heard)
  /\ \A i \in 1..Len(judged) : ~judged[i].learning =>
       /\ learning_complete
       /\ \A k \in window : ~heard[k].learned
       /\ \A j \in (i + 1)..Len(judged) :
            \A k \in judged[j].events : ~heard[k].learned

(* A loop goes through rows and cells that are there.                       *)
LoopsExist ==
  /\ export.phase = "idle" => export = NoExport
  /\ export.phase # "idle" =>
       /\ export.began \in 0..Learned
       /\ DOMAIN export.dist \subseteq Pairs(Learned)
  /\ Looping =>
       /\ export.rows \subseteq DOMAIN counts
       /\ export.row # None =>
            /\ export.row \in DOMAIN counts
            /\ export.cells \subseteq DOMAIN counts[export.row]
       /\ export.phase = "states" => export.row = None

(* A loop that saw no new transition saw no dictionary grow.                *)
SizesKept ==
  Looping /\ Pairs(Len(heard)) = Pairs(export.began) =>
    /\ ~RowsChanged
    /\ ~CellsChanged

(* What a loop has still to do.                                             *)
ToVisit(x) ==
  \/ x[1] \in export.rows
  \/ x[1] = export.row /\ x[2] \in export.cells

Seen == IF export.phase = "snapshot" THEN Len(heard) ELSE export.ended

SnapshotGrows ==
  \A x \in Pairs(export.began) :
    \/ x \in DOMAIN export.dist
    \/ export.phase = "snapshot" /\ ToVisit(x)

StatesGrow ==
  export.phase \notin {"snapshot", "baseline"} =>
    \A x \in DOMAIN export.dist :
      /\ x[1] \in export.states
      /\ \/ x[2] \in export.states
         \/ export.phase = "states" /\ x[1] \in export.rows

TopGrows ==
  export.phase = "top" =>
    \A x \in DOMAIN export.dist : x \in export.top \/ ToVisit(x)

DocumentGrows ==
  export.phase # "idle" =>
    /\ Seen \in export.began..Len(heard)
    /\ SnapshotGrows
    /\ StatesGrow
    /\ TopGrows

(* The events whose states and transitions a document may have.             *)
Counting == export.phase \in {"snapshot", "baseline", "states", "top"}
Counted == IF Counting THEN Len(heard) ELSE export.events

DocumentCounted ==
  export.phase # "idle" =>
    /\ Counted \in Seen..Len(heard)
    /\ export.states \subseteq {Sym(i) : i \in 1..Counted}
    /\ export.top \subseteq Pairs(Counted)
    /\ Counting \/ Cardinality(export.top) = TopTransitions
                \/ Pairs(export.began) \subseteq export.top

(* Only the first window of a life is handled without its client's row.     *)
FirstWindow ==
  /\ features # None => client = "stored" \/ handling = "features"
  /\ handling = "insert" => features = None
  /\ handling = "features" => client \in {"loop", "stored"}

(* What the export noted when it began still holds.                         *)
Noted ==
  /\ export.complete => features = Features
  /\ export.known => client = "stored"
  /\ export.phase = "baseline" /\ export.complete =>
       export.recorded = features
  /\ export.phase = "insert" => ~export.known

(* A weight in the snapshot is one of its time or that decayed once.        *)
Near(v, w) == v <= w /\ v * AlphaInverse >= w * (AlphaInverse - 1)

WeightsInTime ==
  export.phase # "idle" =>
    \A x \in DOMAIN export.dist : \E k \in export.began..Seen :
      Near(export.dist[x], WeightAt(k, k, x[1], x[2]))

(* A document is committed before its file is opened.                       *)
CommittedFirst ==
  /\ export.phase \in {"write", "close"} => Doc \in fingerprints
  /\ FileFollowsDatabase

Snapshots == UNION {[D -> Nat] : D \in SUBSET (Symbols \X Symbols)}

IInv ==
  /\ TypeOK
  /\ daily_snapshots \in Seq(Snapshots)
  /\ FollowsHistory
  /\ WeightsFollow
  /\ Judgements
  /\ LoopsExist
  /\ SizesKept
  /\ DocumentGrows
  /\ DocumentCounted
  /\ WeightsInTime
  /\ CommittedFirst
  /\ FirstWindow
  /\ Noted

(* A process that starts, for the first time or again.                      *)
Fresh ==
  /\ counts = Empty
  /\ vocab = {}
  /\ last_symbol = None
  /\ event_count = 0
  /\ first_event_ts = None
  /\ learning_complete = FALSE
  /\ step = "idle"
  /\ window = {}
  /\ handling = "idle"
  /\ features = None
  /\ export = NoExport
  /\ daily_snapshots = <<>>
  /\ client \in {None, "stored"}
  /\ heard = <<>>
  /\ judged = <<>>
  /\ fingerprint_only \in BOOLEAN
  /\ exports \in Nat
  /\ crashes \in Nat
  /\ FileFollowsDatabase

LEMMA FreshIInv == Fresh => IInv
<1> SUFFICES ASSUME Fresh PROVE IInv
  OBVIOUS
<1>1. heard = <<>> /\ Len(heard) = 0 /\ counts = Empty /\ export = NoExport
      /\ step = "idle" /\ judged = <<>> /\ Learned = 0
  BY DEF Fresh, Learned
<1>2. DOMAIN Empty = {} /\ Empty \in [{} -> Nat]
  BY DEF Empty
<1>3. TypeOK
  <2>1. Empty \in [DOMAIN Empty -> Nat]
    BY <1>2
  <2>2. /\ IsWeights(export.dist, Symbols \X Symbols)
        /\ export \in Export(export.dist)
    BY <1>1, <1>2, <2>1 DEF NoExport, Export, Phases, IsWeights
  <2>3. /\ heard \in Seq([sym : Symbols, ts : Nat, learned : BOOLEAN])
        /\ judged \in Seq([learning : BOOLEAN, events : SUBSET Nat])
        /\ Len(daily_snapshots) <= SnapshotCap
    BY <1>1 DEF Fresh
  <2>4. QED
    BY <1>1, <1>2, <2>2, <2>3 DEF Fresh, TypeOK
<1>4. daily_snapshots \in Seq(Snapshots)
  BY DEF Fresh
<1>5. FollowsHistory
  BY <1>1, <1>2 DEF Fresh, FollowsHistory, LearnedBy
<1>6. WeightsFollow
  BY <1>1, <1>2 DEF WeightsFollow
<1>7. Judgements
  BY <1>1 DEF Fresh, Judgements
<1>8. LoopsExist /\ SizesKept /\ DocumentGrows /\ DocumentCounted
      /\ WeightsInTime /\ CommittedFirst /\ FirstWindow /\ Noted
  BY <1>1 DEF LoopsExist, SizesKept, DocumentGrows, DocumentCounted,
              WeightsInTime, Looping, CommittedFirst, FirstWindow, Noted,
              NoExport, Fresh
<1>9. QED
  BY <1>3, <1>4, <1>5, <1>6, <1>7, <1>8 DEF IInv

LEMMA InitIInv == Init => IInv
<1>1. Init => Fresh
  BY DEF Init, Fresh, FileFollowsDatabase
<1>2. QED
  BY <1>1, FreshIInv

LEMMA ForgetIInv == IInv /\ Forget => IInv'
<1>1. IInv /\ Forget => Fresh'
  BY DEF IInv, TypeOK, CommittedFirst, FileFollowsDatabase, Forget, Fresh,
         stored
<1>2. Fresh' => IInv'
  BY FreshIInv, PTL
<1>3. QED
  BY <1>1, <1>2

-----------------------------------------------------------------------------
(* The contract grows under the export's loops.                             *)

LEMMA HeardType ==
  ASSUME TypeOK
  PROVE  heard \in Seq(Event) /\ Len(heard) \in Nat
BY DEF TypeOK, Event

LEMMA SameHistory ==
  ASSUME heard' = heard
  PROVE  /\ \A n : LearnedBy(n)' <=> LearnedBy(n)
         /\ \A n : Pairs(n)' = Pairs(n)
         /\ \A n : Sym(n)' = Sym(n)
         /\ \A d, n, p, c : WeightAt(d, n, p, c)' = WeightAt(d, n, p, c)
BY DEF LearnedBy, Pairs, Sym, WeightAt, Occurrences, Departs, Faded

(* What of the invariant is about the export, but for its client's row.     *)
ExportKept ==
  LoopsExist /\ SizesKept /\ DocumentGrows /\ DocumentCounted
    /\ WeightsInTime /\ CommittedFirst

LEMMA SameWindows ==
  ASSUME IInv, handling' = handling, features' = features, client' = client,
         export'.complete = export.complete, export'.known = export.known,
         export' = export \/ export'.phase \notin {"baseline", "insert"}
  PROVE  FirstWindow' /\ Noted'
BY DEF IInv, FirstWindow, Noted

(* What a step of observe means to the export.                              *)
LEMMA ObserveStep ==
  ASSUME IInv, TypeOK', FollowsHistory', export' = export,
         fingerprints' = fingerprints, file' = file,
         Len(heard) <= Len(heard'), Learned <= Learned',
         \A i \in 1..Len(heard) : Sym(i)' = Sym(i),
         \A n \in 0..Len(heard) : Pairs(n)' = Pairs(n),
         \A n \in 0..Len(heard) : \A p, c :
           WeightAt(n, n, p, c)' = WeightAt(n, n, p, c)
  PROVE  ExportKept'
<1>1. PICK n, m, l, k \in Nat :
        /\ n = Len(heard) /\ m = Len(heard') /\ l = Learned /\ k = Learned'
        /\ n <= m /\ l <= k /\ l \in (n - 1)..n /\ k \in (m - 1)..m
  <2>1. Len(heard) \in Nat /\ Len(heard') \in Nat
    BY DEF IInv, TypeOK
  <2>2. step # "idle" => Len(heard) # 0
    BY DEF IInv, FollowsHistory, TypeOK
  <2>3. step' # "idle" => Len(heard') # 0
    BY DEF IInv, FollowsHistory, TypeOK
  <2>4. QED
    BY <2>1, <2>2, <2>3 DEF Learned
<1>2. DOMAIN counts = {Sym(i) : i \in 1..(n - 1)}
      /\ DOMAIN counts' = {Sym(i)' : i \in 1..(m - 1)}
  BY <1>1 DEF IInv, FollowsHistory
<1>3. DOMAIN counts \subseteq DOMAIN counts'
  BY <1>1, <1>2
<1>4. Pairs(l) \subseteq Pairs(k)'
  <2> SUFFICES ASSUME NEW x \in Pairs(l) PROVE x \in Pairs(k)'
    OBVIOUS
  <2>1. PICK i \in 2..l : x = <<Sym(i - 1), Sym(i)>>
    BY PairIsHeard
  <2>2. i \in 2..k /\ x = <<Sym(i - 1)', Sym(i)'>>
    BY <1>1, <2>1
  <2>3. QED
    BY <2>2 DEF Pairs, Sym
<1>5. \A p \in DOMAIN counts : DOMAIN counts[p] \subseteq DOMAIN counts'[p]
  <2>1. \A p \in DOMAIN counts :
          DOMAIN counts[p] = {c \in Symbols : <<p, c>> \in Pairs(l)}
    <3>1. \A p \in DOMAIN counts :
            DOMAIN counts[p] = {c \in Symbols : <<p, c>> \in Pairs(Learned)}
      BY DEF IInv, FollowsHistory
    <3>2. QED
      BY <3>1, <1>1
  <2>2. \A p \in DOMAIN counts' :
          DOMAIN counts'[p] = {c \in Symbols : <<p, c>> \in Pairs(k)'}
    <3>1. Pairs(Learned)' = Pairs(k)'
      BY <1>1 DEF Pairs
    <3>2. QED
      BY <3>1 DEF FollowsHistory
  <2>3. QED
    BY <1>3, <1>4, <2>1, <2>2
<1>6. export.phase # "idle" => export.began \in 0..l
  BY <1>1 DEF IInv, LoopsExist
<1>7. LoopsExist'
  BY <1>1, <1>3, <1>4, <1>5, <1>6 DEF IInv, LoopsExist, Looping
<1>8. SizesKept'
  <2> SUFFICES ASSUME Looping, Pairs(Len(heard))' = Pairs(export.began)'
               PROVE  ~RowsChanged' /\ ~CellsChanged'
    BY DEF SizesKept, Looping
  <2>1. PICK b \in Nat : b = export.began /\ b <= l
    BY <1>1, <1>6 DEF Looping
  <2>2. Pairs(b)' = Pairs(b) /\ Pairs(n)' = Pairs(n)
    BY <1>1, <2>1
  <2>3. Pairs(m)' = Pairs(b)
    <3>1. Pairs(Len(heard))' = Pairs(m)'
      BY <1>1 DEF Pairs
    <3>2. Pairs(export.began)' = Pairs(b)'
      BY <2>1 DEF Pairs
    <3>3. QED
      BY <2>2, <3>1, <3>2
  <2>4. Pairs(b) \subseteq Pairs(n) /\ Pairs(b) \subseteq Pairs(l)
    BY <1>1, <2>1, PairsGrow
  <2>5. \A i \in 2..m : <<Sym(i - 1)', Sym(i)'>> \in Pairs(m)'
    BY DEF Pairs, Sym
  <2>6. Pairs(n) \subseteq Pairs(m)' /\ Pairs(k)' \subseteq Pairs(m)'
    <3>1. 2..n \subseteq 2..m /\ 2..k \subseteq 2..m
      BY <1>1
    <3>2. Pairs(n)' \subseteq Pairs(m)' /\ Pairs(k)' \subseteq Pairs(m)'
      <4>1. \A j : (2..j \subseteq 2..m) => Pairs(j)' \subseteq Pairs(m)'
        BY DEF Pairs
      <4>2. QED
        BY <3>1, <4>1
    <3>3. QED
      BY <2>2, <3>2
  <2>7. Pairs(n) = Pairs(b)
    BY <2>3, <2>4, <2>6
  <2>8. ~RowsChanged /\ ~CellsChanged
    BY <1>1, <2>1, <2>7 DEF IInv, SizesKept
  <2>9. ASSUME NEW i \in 1..(m - 1)
        PROVE  Sym(i)' \in DOMAIN counts
    <3>1. <<Sym(i)', Sym(i + 1)'>> \in Pairs(b)
      BY <1>1, <2>3, <2>5
    <3>2. PICK j \in 2..b : <<Sym(i)', Sym(i + 1)'>> = <<Sym(j - 1), Sym(j)>>
      BY <3>1, PairIsHeard
    <3>3. j - 1 \in 1..(n - 1) /\ Sym(i)' = Sym(j - 1)
      BY <1>1, <2>1, <3>2
    <3>4. QED
      BY <1>2, <3>3
  <2>10. DOMAIN counts' = DOMAIN counts
    <3>1. {Sym(i)' : i \in 1..(m - 1)} \subseteq DOMAIN counts
      BY <2>9
    <3>2. QED
      BY <3>1, <1>2, <1>3
  <2>11. \A p \in DOMAIN counts : DOMAIN counts'[p] = DOMAIN counts[p]
    <3>1. Pairs(k)' \subseteq Pairs(l)
      BY <2>3, <2>4, <2>6
    <3>2. QED
      BY <1>1, <1>4, <2>10, <3>1 DEF IInv, FollowsHistory
  <2>12. export.row # None => export.row \in DOMAIN counts
    BY DEF IInv, LoopsExist
  <2>13. QED
    BY <2>8, <2>10, <2>11, <2>12 DEF RowsChanged, CellsChanged
<1>9. ASSUME export.phase # "idle"
      PROVE  /\ Seen \in export.began..n /\ Seen' \in export.began..m
             /\ Seen <= Seen' /\ export.began \in 0..n
             /\ Pairs(export.began)' = Pairs(export.began)
             /\ \A j \in export.began..Seen :
                  /\ j \in export.began..Seen'
                  /\ \A p, c : WeightAt(j, j, p, c)' = WeightAt(j, j, p, c)
  <2>1. Seen \in export.began..n
    BY <1>1, <1>9 DEF IInv, DocumentGrows
  <2>2. Seen' \in export.began..m /\ Seen <= Seen'
    BY <1>1, <1>6, <1>9, <2>1 DEF Seen
  <2>3. export.began \in 0..n
    BY <1>1, <1>6, <1>9
  <2>4. Pairs(export.began)' = Pairs(export.began)
    <3>1. PICK b : b = export.began
      OBVIOUS
    <3>2. Pairs(b)' = Pairs(b)
      BY <1>1, <2>3, <3>1
    <3>3. Pairs(export.began)' = Pairs(b)'
      BY <3>1 DEF Pairs
    <3>4. QED
      BY <3>1, <3>2, <3>3
  <2>5. \A j \in export.began..Seen :
          j \in 0..n /\ j \in export.began..Seen'
    BY <1>6, <1>9, <2>1, <2>2, <2>3
  <2>6. QED
    BY <1>1, <1>6, <1>9, <2>1, <2>2, <2>4, <2>5
<1>10. DocumentGrows'
  <2> SUFFICES ASSUME export.phase # "idle"
               PROVE  /\ Seen' \in export.began..m
                      /\ SnapshotGrows' /\ StatesGrow' /\ TopGrows'
    BY <1>1 DEF DocumentGrows
  <2>1. SnapshotGrows /\ StatesGrow /\ TopGrows
    BY DEF IInv, DocumentGrows
  <2>2. SnapshotGrows'
    BY <1>9, <2>1 DEF SnapshotGrows, ToVisit
  <2>3. StatesGrow' /\ TopGrows'
    BY <2>1 DEF StatesGrow, TopGrows, ToVisit
  <2>4. QED
    BY <1>9, <2>1, <2>2, <2>3
<1>11. WeightsInTime'
  <2> SUFFICES ASSUME export.phase # "idle", NEW x \in DOMAIN export.dist
               PROVE  \E j \in export.began..Seen' :
                        Near(export.dist[x], WeightAt(j, j, x[1], x[2])')
    BY DEF WeightsInTime, Near
  <2>1. PICK j \in export.began..Seen :
          Near(export.dist[x], WeightAt(j, j, x[1], x[2]))
    BY DEF IInv, WeightsInTime
  <2>2. QED
    BY <1>9, <2>1
<1>12. CommittedFirst'
  BY DEF IInv, CommittedFirst, FileFollowsDatabase, Doc
<1>13. DocumentCounted'
  <2> SUFFICES ASSUME export.phase # "idle"
               PROVE  /\ Counted' \in Seen'..m
                      /\ export.states \subseteq {Sym(i)' : i \in 1..Counted'}
                      /\ export.top \subseteq Pairs(Counted)'
                      /\ Counting \/ Cardinality(export.top) = TopTransitions
                                  \/ Pairs(export.began)' \subseteq export.top
    BY <1>1 DEF DocumentCounted, Counting
  <2>1. PICK d \in Nat : /\ d = Counted /\ d <= n /\ Seen <= d
                         /\ export.states \subseteq {Sym(i) : i \in 1..d}
                         /\ export.top \subseteq Pairs(d)
    <3>1. /\ Counted \in Seen..n
          /\ export.states \subseteq {Sym(i) : i \in 1..Counted}
          /\ export.top \subseteq Pairs(Counted)
      BY <1>1 DEF IInv, DocumentCounted
    <3>2. Counted \in Nat /\ Counted <= n /\ Seen <= Counted
      BY <3>1, <1>1, <1>6, <1>9
    <3>3. QED
      BY <3>1, <3>2, Zenon
  <2>2. PICK g \in Nat : /\ g = Counted' /\ d <= g /\ g <= m /\ Seen' <= g
    <3>1. CASE Counting
      <4>1. d = n /\ Counted' = m
        BY <3>1, <2>1, <1>1 DEF Counted, Counting
      <4>2. QED
        BY <4>1, <1>1, <1>9
    <3>2. CASE ~Counting
      <4>1. Counted' = d
        BY <3>2, <2>1 DEF Counted, Counting
      <4>2. Seen' = Seen
        BY <3>2 DEF Seen, Counting
      <4>3. QED
        BY <4>1, <4>2, <1>1, <2>1
    <3>3. QED
      BY <3>1, <3>2
  <2>3. {Sym(i) : i \in 1..d} \subseteq {Sym(i)' : i \in 1..g}
    BY <1>1, <2>1, <2>2
  <2>4. Pairs(Counted)' = Pairs(g)' /\ Pairs(d)' = Pairs(d)
    <3>1. Pairs(Counted)' = Pairs(g)'
      BY <2>2 DEF Pairs
    <3>2. d \in 0..n
      BY <2>1
    <3>3. QED
      BY <1>1, <3>1, <3>2
  <2>5. Pairs(d)' \subseteq Pairs(g)'
    <3>1. 2..d \subseteq 2..g
      BY <2>2
    <3>2. QED
      BY <3>1 DEF Pairs
  <2>6. Seen' \in Int
    BY <1>1, <1>6, <1>9
  <2>7. Counting \/ Cardinality(export.top) = TopTransitions
                 \/ Pairs(export.began) \subseteq export.top
    BY DEF IInv, DocumentCounted
  <2>8. QED
    BY <1>1, <1>9, <2>1, <2>2, <2>3, <2>4, <2>5, <2>6, <2>7
<1>14. QED
  BY <1>7, <1>8, <1>10, <1>11, <1>12, <1>13 DEF ExportKept

-----------------------------------------------------------------------------
(* The steps of observe.                                                    *)

LEMMA EventAt ==
  ASSUME heard \in Seq(Event), NEW i \in 1..Len(heard)
  PROVE  /\ heard[i].sym \in Symbols /\ heard[i].ts \in Nat
         /\ heard[i].learned \in BOOLEAN
<1>1. heard[i] \in Event
  OBVIOUS
<1>2. QED
  BY <1>1 DEF Event

LEMMA WithWeight ==
  ASSUME NEW K, NEW d, IsWeights(d, K), NEW k \in K, NEW v \in Nat
  PROVE  IsWeights(With(d, k, v), K)
BY DEF With, IsWeights

LEMMA HearIInv ==
  ASSUME IInv, NEW sym \in Symbols, NEW ts \in Times, Hear(sym, ts)
  PROVE  IInv'
<1> DEFINE e == [sym |-> sym, ts |-> ts, learned |-> ~learning_complete]
<1>1. /\ heard \in Seq(Event) /\ e \in Event /\ heard' = Append(heard, e)
      /\ step = "idle" /\ step' = "heard"
  BY DEF IInv, TypeOK, Hear, Event
<1>2. PICK n \in Nat : n = Len(heard) /\ n < MaxHeard
  BY <1>1 DEF Hear
<1>3. /\ Len(heard') = n + 1 /\ heard'[n + 1] = e
      /\ \A i \in 1..n : heard'[i] = heard[i]
  BY <1>1, <1>2, Prefix
<1>4. /\ Learned = n /\ Aged = n
      /\ Learned' = n /\ Aged' = n
  BY <1>1, <1>2, <1>3 DEF Learned, Aged
<1>5. \A i \in 1..n : Sym(i)' = Sym(i)
  BY <1>3 DEF Sym
<1>6. \A k \in 0..n : Pairs(k)' = Pairs(k) /\ (LearnedBy(k)' <=> LearnedBy(k))
  BY <1>1, <1>2, SamePairs, SameLearned
<1>7. \A d \in 0..n : \A k \in 0..d : \A p, c :
        WeightAt(d, k, p, c)' = WeightAt(d, k, p, c)
  BY <1>1, <1>2, SameWeight
<1>8. /\ n = 0 => last_symbol = None /\ counts' = counts /\ vocab' = vocab
                  /\ window' = window
      /\ n # 0 => /\ last_symbol = Sym(n) /\ last_symbol \in Symbols
                  /\ counts' = IF last_symbol \in DOMAIN counts THEN counts
                               ELSE With(counts, last_symbol, Empty)
                  /\ vocab' = vocab \cup {last_symbol}
                  /\ window' = window \cup {n + 1}
  <2>1. last_symbol = IF n = 0 THEN None ELSE Sym(n)
    BY <1>4 DEF IInv, FollowsHistory
  <2>2. n # 0 => Sym(n) \in Symbols
    BY <1>1, <1>2, EventAt DEF Sym
  <2>3. last_symbol = None <=> n = 0
    BY <2>1, <2>2
  <2>4. QED
    BY <2>1, <2>2, <2>3, <1>3 DEF Hear
<1>9. DOMAIN Empty = {} /\ IsWeights(Empty, Symbols)
  BY DEF Empty, IsWeights
<1>10. /\ DOMAIN counts \subseteq DOMAIN counts'
       /\ \A p \in DOMAIN counts : counts'[p] = counts[p]
       /\ \A p \in DOMAIN counts' : p \notin DOMAIN counts =>
            n # 0 /\ p = Sym(n) /\ p = last_symbol /\ counts'[p] = Empty
       /\ n # 0 => DOMAIN counts' = DOMAIN counts \cup {Sym(n)}
       /\ n = 0 => counts' = counts
  <2>1. CASE n # 0 /\ last_symbol \notin DOMAIN counts
    <3>1. counts' = With(counts, last_symbol, Empty)
      BY <2>1, <1>8
    <3>2. /\ DOMAIN counts' = DOMAIN counts \cup {last_symbol}
          /\ counts'[last_symbol] = Empty
          /\ \A p \in DOMAIN counts : counts'[p] = counts[p]
      BY <2>1, <3>1 DEF With
    <3>3. QED
      BY <2>1, <3>2, <1>8
  <2>2. CASE ~(n # 0 /\ last_symbol \notin DOMAIN counts)
    BY <2>2, <1>8
  <2>3. QED
    BY <2>1, <2>2
<1>11. DOMAIN counts = {Sym(i) : i \in 1..(n - 1)}
  BY <1>2 DEF IInv, FollowsHistory
<1>12. DOMAIN counts' = {Sym(i)' : i \in 1..n}
  <2>1. CASE n = 0
    BY <2>1, <1>10, <1>11
  <2>2. CASE n # 0
    <3>1. 1..n = (1..(n - 1)) \cup {n}
      BY <2>2
    <3>2. DOMAIN counts' = {Sym(i) : i \in 1..n}
      BY <2>2, <3>1, <1>10, <1>11
    <3>3. QED
      BY <3>2, <1>5
  <2>3. QED
    BY <2>1, <2>2
<1>13. TypeOK'
  <2>1. DOMAIN counts' \subseteq Symbols
    BY <1>8, <1>10 DEF IInv, TypeOK
  <2>2. \A p \in DOMAIN counts' : IsWeights(counts'[p], Symbols)
    <3>1. \A p \in DOMAIN counts : IsWeights(counts[p], Symbols)
      BY DEF IInv, TypeOK
    <3>2. \A p \in DOMAIN counts' : \/ p \in DOMAIN counts
                                         /\ counts'[p] = counts[p]
                                    \/ counts'[p] = Empty
      BY <1>10
    <3>3. QED
      BY <3>1, <3>2, <1>9
  <2>3. vocab' \subseteq Symbols /\ window' \subseteq Nat
    <3>1. vocab \subseteq Symbols /\ window \subseteq Nat
      BY DEF IInv, TypeOK
    <3>2. vocab' \subseteq vocab \cup Symbols
          /\ window' \subseteq window \cup {n + 1}
      BY <1>8
    <3>3. n + 1 \in Nat
      OBVIOUS
    <3>4. QED
      BY <3>1, <3>2, <3>3
  <2>4. event_count' \in Nat /\ first_event_ts' \in Nat \cup {None}
    BY DEF IInv, TypeOK, Hear
  <2>5. heard' \in Seq([sym : Symbols, ts : Nat, learned : BOOLEAN])
    BY <1>1, Prefix DEF Event
  <2>6. QED
    BY <1>1, <2>1, <2>2, <2>3, <2>4, <2>5
       DEF IInv, TypeOK, Hear, stored, history, contract
<1>14. heard'[n + 1].learned <=> ~learning_complete
  <2>1. e.learned = (~learning_complete)
    BY Zenon
  <2>2. QED
    BY <2>1, <1>3, Zenon
<1>15. FollowsHistory'
  <2>1. /\ heard' # <<>> /\ Len(heard') <= MaxHeard
        /\ event_count' = Len(heard')
    BY <1>2, <1>3 DEF IInv, FollowsHistory, Hear
  <2>2. first_event_ts' = heard'[1].ts
    <3>1. CASE n = 0
      <4>1. first_event_ts = None /\ heard'[1] = e
        BY <3>1, <1>2, <1>3 DEF IInv, FollowsHistory
      <4>2. QED
        BY <4>1 DEF Hear
    <3>2. CASE n # 0
      <4>1. heard # <<>> /\ 1 \in 1..n
        BY <3>2, <1>2
      <4>2. first_event_ts = heard[1].ts /\ heard'[1] = heard[1]
        BY <4>1, <1>3 DEF IInv, FollowsHistory
      <4>3. heard[1].ts \in Nat
        BY <4>1, <1>1, <1>2, EventAt
      <4>4. QED
        BY <4>2, <4>3 DEF Hear
    <3>3. QED
      BY <3>1, <3>2
  <2>3. last_symbol' = IF Learned' = 0 THEN None ELSE Sym(Learned)'
    <3>1. n # 0 => Sym(Learned)' = Sym(n)'
      BY <1>4 DEF Sym
    <3>2. QED
      BY <1>4, <1>5, <1>8, <3>1 DEF Hear
  <2>4. learning_complete' <=> LearnedBy(Learned)'
    <3>1. LearnedBy(Learned)' <=> LearnedBy(n)'
      BY <1>4 DEF LearnedBy
    <3>2. learning_complete <=> LearnedBy(n)
      BY <1>4 DEF IInv, FollowsHistory
    <3>3. QED
      BY <3>1, <3>2, <1>6 DEF Hear
  <2>5. ASSUME NEW i \in 1..(n + 1)
        PROVE  heard'[i].learned <=> ~LearnedBy(i - 1)'
    <3>1. i - 1 \in 0..n
      OBVIOUS
    <3>2. LearnedBy(i - 1)' <=> LearnedBy(i - 1)
      BY <3>1, <1>6
    <3>3. CASE i = n + 1
      <4>1. heard'[i].learned <=> ~learning_complete
        BY <3>3, <1>14
      <4>2. learning_complete <=> LearnedBy(n)
        BY <1>4 DEF IInv, FollowsHistory
      <4>3. i - 1 = n
        BY <3>3
      <4>4. QED
        BY <3>2, <4>1, <4>2, <4>3
    <3>4. CASE i # n + 1
      <4>1. i \in 1..n
        BY <3>4
      <4>2. heard[i].learned <=> ~LearnedBy(i - 1)
        BY <4>1, <1>2 DEF IInv, FollowsHistory
      <4>3. heard'[i] = heard[i]
        BY <4>1, <1>3, Zenon
      <4>4. QED
        BY <3>2, <4>2, <4>3
    <3>5. QED
      BY <3>3, <3>4
  <2>6. ASSUME NEW p \in DOMAIN counts'
        PROVE  /\ DOMAIN counts'[p]
                    = {c \in Symbols : <<p, c>> \in Pairs(Learned)'}
               /\ {p} \cup DOMAIN counts'[p] \subseteq vocab'
    <3>1. Pairs(Learned)' = Pairs(n)
      <4>1. Pairs(Learned)' = Pairs(n)'
        BY <1>4 DEF Pairs
      <4>2. QED
        BY <4>1, <1>6
    <3>2. CASE p \in DOMAIN counts
      <4>1. /\ DOMAIN counts[p] = {c \in Symbols : <<p, c>> \in Pairs(n)}
            /\ {p} \cup DOMAIN counts[p] \subseteq vocab
        BY <3>2, <1>4 DEF IInv, FollowsHistory
      <4>2. vocab \subseteq vocab' /\ counts'[p] = counts[p]
        BY <3>2, <1>8, <1>10
      <4>3. QED
        BY <3>1, <4>1, <4>2
    <3>3. CASE p \notin DOMAIN counts
      <4>1. \A c : <<p, c>> \notin Pairs(n)
        <5> SUFFICES ASSUME NEW c, <<p, c>> \in Pairs(n) PROVE FALSE
          OBVIOUS
        <5>1. PICK i \in 2..n : <<p, c>> = <<Sym(i - 1), Sym(i)>>
          BY PairIsHeard
        <5>2. p = Sym(i - 1) /\ i - 1 \in 1..(n - 1)
          BY <5>1
        <5>3. QED
          BY <5>2, <3>3, <1>11
      <4>2. DOMAIN counts'[p] = {} /\ p \in vocab'
        BY <3>3, <1>8, <1>9, <1>10
      <4>3. QED
        BY <3>1, <4>1, <4>2
    <3>4. QED
      BY <3>2, <3>3
  <2>7. DOMAIN counts' = {Sym(i)' : i \in 1..(Len(heard') - 1)}
    BY <1>3, <1>12
  <2>8. QED
    BY <1>1, <1>3, <2>1, <2>2, <2>3, <2>4, <2>5, <2>6, <2>7
       DEF FollowsHistory
<1>16. WeightsFollow'
  <2> SUFFICES ASSUME NEW p \in DOMAIN counts', NEW c \in DOMAIN counts'[p]
               PROVE  counts'[p][c] = WeightAt(Aged, Learned, p, c)'
    BY DEF WeightsFollow
  <2>1. p \in DOMAIN counts /\ c \in DOMAIN counts[p]
        /\ counts'[p] = counts[p]
    BY <1>9, <1>10
  <2>2. counts[p][c] = WeightAt(n, n, p, c)
    BY <2>1, <1>4 DEF IInv, WeightsFollow
  <2>3. WeightAt(Aged, Learned, p, c)' = WeightAt(n, n, p, c)'
    BY <1>4 DEF WeightAt, Occurrences, Faded
  <2>4. QED
    BY <2>1, <2>2, <2>3, <1>7
<1>17. Judgements'
  <2>1. heard'[n + 1].learned <=> ~learning_complete
    BY <1>14
  <2>2. window' \subseteq window \cup {n + 1}
    BY <1>8
  <2>3. /\ window \subseteq 1..n
        /\ \A i \in 1..Len(judged) : judged[i].events \subseteq 1..n
    BY <1>2 DEF IInv, Judgements
  <2>4. judged' = judged /\ learning_complete' = learning_complete
    BY DEF Hear
  <2>5. ASSUME NEW i \in 1..Len(judged), ~judged[i].learning
        PROVE  /\ learning_complete
               /\ \A k \in window : ~heard[k].learned
               /\ \A j \in (i + 1)..Len(judged) :
                    \A k \in judged[j].events : ~heard[k].learned
    BY <2>5 DEF IInv, Judgements
  <2>6. ASSUME NEW i \in 1..Len(judged), ~judged[i].learning
        PROVE  /\ \A k \in window' : ~heard'[k].learned
               /\ \A j \in (i + 1)..Len(judged) :
                    \A k \in judged[j].events : ~heard'[k].learned
    <3>1. \A k \in window' : ~heard'[k].learned
      BY <2>1, <2>2, <2>3, <2>5, <2>6, <1>3
    <3>2. ASSUME NEW j \in (i + 1)..Len(judged)
          PROVE  \A k \in judged[j].events : ~heard'[k].learned
      <4>1. j \in 1..Len(judged)
        BY DEF IInv, TypeOK
      <4>2. QED
        BY <2>3, <2>5, <2>6, <4>1, <1>3
    <3>3. QED
      BY <3>1, <3>2
  <2>7. window' \subseteq 1..(n + 1)
        /\ \A i \in 1..Len(judged) : judged[i].events \subseteq 1..(n + 1)
    BY <2>2, <2>3
  <2>8. QED
    BY <2>4, <2>5, <2>6, <2>7, <1>3 DEF Judgements
<1>18. ExportKept'
  <2>1. /\ export' = export /\ fingerprints' = fingerprints /\ file' = file
        /\ Len(heard) <= Len(heard') /\ Learned <= Learned'
    BY <1>2, <1>3, <1>4 DEF Hear, stored
  <2>2. /\ \A i \in 1..Len(heard) : Sym(i)' = Sym(i)
        /\ \A k \in 0..Len(heard) : Pairs(k)' = Pairs(k)
        /\ \A k \in 0..Len(heard) : \A p, c :
             WeightAt(k, k, p, c)' = WeightAt(k, k, p, c)
    BY <1>2, <1>5, <1>6, <1>7
  <2>3. QED
    BY <1>13, <1>15, <2>1, <2>2, ObserveStep
<1>19. daily_snapshots' \in Seq(Snapshots)
  BY DEF IInv, Hear
<1>20. FirstWindow' /\ Noted'
  BY SameWindows DEF Hear, stored
<1>21. QED
  BY <1>13, <1>15, <1>16, <1>17, <1>18, <1>19, <1>20 DEF IInv, ExportKept

LEMMA DecayIInv ==
  ASSUME IInv, Decay
  PROVE  IInv'
<1>1. heard \in Seq(Event) /\ heard' = heard /\ step = "heard"
      /\ step' = "decayed"
  BY HeardType DEF IInv, Decay
<1>2. PICK n \in Nat : n = Len(heard) /\ n # 0 /\ n <= MaxHeard
  BY <1>1 DEF IInv, FollowsHistory
<1>3. PICK m \in Nat : m = n - 1 /\ m + 1 = n /\ m + 1 <= MaxHeard
  BY <1>2
<1>4. Learned = m /\ Learned' = m /\ Aged = m /\ Aged' = n
  BY <1>1, <1>2, <1>3 DEF Learned, Aged
<1>5. /\ \A k : (LearnedBy(k)' <=> LearnedBy(k)) /\ Pairs(k)' = Pairs(k)
                /\ Sym(k)' = Sym(k)
      /\ \A d, k, p, c : WeightAt(d, k, p, c)' = WeightAt(d, k, p, c)
  BY <1>1, SameHistory
<1>6. /\ last_symbol = IF m = 0 THEN None ELSE Sym(m)
      /\ learning_complete <=> LearnedBy(m)
      /\ DOMAIN counts = {Sym(i) : i \in 1..m}
  BY <1>2, <1>3, <1>4 DEF IInv, FollowsHistory
<1>7. m # 0 => last_symbol # None /\ last_symbol \in DOMAIN counts
  <2>1. m # 0 => Sym(m) \in Symbols
    BY <1>1, <1>2, <1>3, EventAt DEF Sym
  <2>2. QED
    BY <1>6, <2>1
<1>8. DOMAIN counts' = DOMAIN counts
      /\ \A p \in DOMAIN counts :
           counts'[p] = IF p = last_symbol THEN Decayed(counts[p])
                                           ELSE counts[p]
  <2>1. CASE m = 0
    BY <2>1, <1>6 DEF Decay
  <2>2. CASE m # 0
    <3>1. counts' = [counts EXCEPT ![last_symbol] = Decayed(@)]
      BY <2>2, <1>7 DEF Decay
    <3>2. QED
      BY <3>1
  <2>3. QED
    BY <2>1, <2>2
<1>9. \A p \in DOMAIN counts : /\ DOMAIN counts'[p] = DOMAIN counts[p]
                               /\ IsWeights(counts[p], Symbols)
  BY <1>8 DEF Decayed, IInv, TypeOK
<1>10. ASSUME NEW p \in DOMAIN counts, NEW c \in DOMAIN counts[p]
       PROVE  counts'[p][c] = WeightAt(n, m, p, c)
              /\ WeightAt(n, m, p, c) \in Nat
  <2>1. PICK w : w = WeightAt(m, m, p, c)
    OBVIOUS
  <2>2. PICK v : v = WeightAt(m + 1, m, p, c)
    OBVIOUS
  <2>3. v = WeightAt(n, m, p, c)
    BY <2>2, <1>3
  <2>4. counts[p][c] = w
    BY <2>1, <1>4 DEF IInv, WeightsFollow
  <2>5. /\ v \in Nat
        /\ Departs(m + 1, p) /\ LearnedBy(m) =>
             v = (w * (AlphaInverse - 1)) \div AlphaInverse
        /\ ~(Departs(m + 1, p) /\ LearnedBy(m)) => v = w
    <3>1. m \in 0..m
      OBVIOUS
    <3>2. QED
      BY <2>1, <2>2, <3>1, <1>3, WeightFades
  <2>6. Departs(m + 1, p) <=> Sym(m) = p
    <3>1. (m + 1) - 1 = m
      OBVIOUS
    <3>2. QED
      BY <3>1 DEF Departs, Sym
  <2>7. m # 0
    BY <1>6
  <2>8. counts'[p][c] = v
    <3>1. CASE Sym(m) = p
      <4>1. counts'[p] = Decayed(counts[p])
        BY <3>1, <2>7, <1>6, <1>8
      <4>2. counts'[p][c] =
              IF learning_complete
              THEN (counts[p][c] * (AlphaInverse - 1)) \div AlphaInverse
              ELSE counts[p][c]
        BY <4>1 DEF Decayed
      <4>3. QED
        BY <3>1, <4>2, <2>4, <2>5, <2>6, <1>6
    <3>2. CASE Sym(m) # p
      BY <3>2, <2>4, <2>5, <2>6, <2>7, <1>6, <1>8
    <3>3. QED
      BY <3>1, <3>2
  <2>9. QED
    BY <2>3, <2>5, <2>8
<1>11. TypeOK'
  <2>1. ASSUME NEW p \in DOMAIN counts
        PROVE  IsWeights(counts'[p], Symbols)
    <3>1. counts'[p] \in [DOMAIN counts[p] -> Nat]
      BY <1>8, <1>9, <1>10 DEF Decayed, IsWeights
    <3>2. QED
      BY <3>1, <1>9 DEF IsWeights
  <2>2. QED
    BY <1>1, <1>8, <2>1 DEF IInv, TypeOK, Decay, stored, windows, history
<1>12. FollowsHistory'
  <2>1. /\ \A p \in DOMAIN counts' :
             /\ DOMAIN counts'[p]
                  = {c \in Symbols : <<p, c>> \in Pairs(Learned)'}
             /\ {p} \cup DOMAIN counts'[p] \subseteq vocab'
        /\ DOMAIN counts' = {Sym(i)' : i \in 1..(Len(heard') - 1)}
    <3>1. Pairs(Learned)' = Pairs(Learned)
      BY <1>1, <1>4 DEF Pairs
    <3>2. DOMAIN counts' = {Sym(i)' : i \in 1..(Len(heard') - 1)}
      BY <1>1, <1>5, <1>8 DEF IInv, FollowsHistory
    <3>3. \A p \in DOMAIN counts :
            /\ DOMAIN counts[p]
                 = {c \in Symbols : <<p, c>> \in Pairs(Learned)}
            /\ {p} \cup DOMAIN counts[p] \subseteq vocab
      BY DEF IInv, FollowsHistory
    <3>4. vocab' = vocab
      BY DEF Decay
    <3>5. ASSUME NEW p \in DOMAIN counts'
          PROVE  /\ DOMAIN counts'[p]
                      = {c \in Symbols : <<p, c>> \in Pairs(Learned)'}
                 /\ {p} \cup DOMAIN counts'[p] \subseteq vocab'
      <4>1. p \in DOMAIN counts /\ DOMAIN counts'[p] = DOMAIN counts[p]
        BY <1>8, <1>9
      <4>2. /\ DOMAIN counts[p]
                 = {c \in Symbols : <<p, c>> \in Pairs(Learned)}
            /\ {p} \cup DOMAIN counts[p] \subseteq vocab
        BY <3>3, <4>1
      <4>3. QED
        BY <3>1, <3>4, <4>1, <4>2
    <3>6. QED
      BY <3>2, <3>5
  <2>2. Sym(Learned)' = Sym(Learned)
        /\ (LearnedBy(Learned)' <=> LearnedBy(Learned))
        /\ Learned' = Learned
    BY <1>1, <1>4 DEF Sym, LearnedBy
  <2>3. \A i : LearnedBy(i - 1)' <=> LearnedBy(i - 1)
    BY <1>5
  <2>4. QED
    BY <1>1, <2>1, <2>2, <2>3 DEF IInv, FollowsHistory, Decay
<1>13. WeightsFollow'
  <2> SUFFICES ASSUME NEW p \in DOMAIN counts', NEW c \in DOMAIN counts'[p]
               PROVE  counts'[p][c] = WeightAt(Aged, Learned, p, c)'
    BY DEF WeightsFollow
  <2>1. WeightAt(Aged, Learned, p, c)' = WeightAt(n, m, p, c)'
    BY <1>4 DEF WeightAt, Occurrences, Faded
  <2>2. QED
    BY <2>1, <1>5, <1>8, <1>9, <1>10
<1>14. Judgements'
  BY <1>1 DEF IInv, Judgements, Decay, windows
<1>15. ExportKept'
  <2>1. /\ export' = export /\ fingerprints' = fingerprints /\ file' = file
        /\ Len(heard) <= Len(heard') /\ Learned <= Learned'
    BY <1>1, <1>2, <1>4 DEF Decay, stored
  <2>2. QED
    BY <1>5, <1>11, <1>12, <2>1, ObserveStep
<1>16. daily_snapshots' \in Seq(Snapshots)
  BY DEF IInv, Decay
<1>17. FirstWindow' /\ Noted'
  BY SameWindows DEF Decay, stored, windows
<1>18. QED
  BY <1>11, <1>12, <1>13, <1>14, <1>15, <1>16, <1>17 DEF IInv, ExportKept

LEMMA LearnIInv ==
  ASSUME IInv, Learn
  PROVE  IInv'
<1>1. heard \in Seq(Event) /\ heard' = heard /\ step = "decayed"
      /\ step' = "idle"
  BY HeardType DEF IInv, Learn
<1>2. PICK n \in Nat : n = Len(heard) /\ n # 0 /\ n <= MaxHeard
  BY <1>1 DEF IInv, FollowsHistory
<1>3. PICK m \in Nat : m = n - 1 /\ m + 1 = n /\ m + 1 <= MaxHeard
  BY <1>2
<1>4. Learned = m /\ Learned' = n /\ Aged = n /\ Aged' = n
  BY <1>1, <1>2, <1>3 DEF Learned, Aged
<1>5. /\ \A k : (LearnedBy(k)' <=> LearnedBy(k)) /\ Pairs(k)' = Pairs(k)
                /\ Sym(k)' = Sym(k)
      /\ \A d, k, p, c : WeightAt(d, k, p, c)' = WeightAt(d, k, p, c)
  BY <1>1, SameHistory
<1>6. /\ last_symbol = IF m = 0 THEN None ELSE Sym(m)
      /\ learning_complete <=> LearnedBy(m)
      /\ DOMAIN counts = {Sym(i) : i \in 1..m}
  BY <1>2, <1>3, <1>4 DEF IInv, FollowsHistory
<1>7. Current.sym = Sym(n) /\ Current.ts = heard[n].ts
      /\ Sym(n) \in Symbols /\ heard[n].ts \in Nat /\ heard[1].ts \in Nat
  BY <1>1, <1>2, EventAt DEF Current, Sym
<1>8. m # 0 => last_symbol # None /\ last_symbol \in DOMAIN counts
  <2>1. m # 0 => Sym(m) \in Symbols
    BY <1>1, <1>2, <1>3, EventAt DEF Sym
  <2>2. QED
    BY <1>6, <2>1
<1>9. /\ m = 0 => counts' = counts /\ vocab' = vocab /\ DOMAIN counts = {}
      /\ m # 0 => vocab' = vocab \cup {Sym(n)}
      /\ DOMAIN counts' = DOMAIN counts
      /\ \A p \in DOMAIN counts :
           counts'[p] = IF p = last_symbol THEN Added(counts[p], Sym(n))
                                           ELSE counts[p]
  <2>1. CASE m = 0
    BY <2>1, <1>6 DEF Learn
  <2>2. CASE m # 0
    <3>1. /\ counts' = [counts EXCEPT ![last_symbol] = Added(@, Sym(n))]
          /\ vocab' = vocab \cup {Sym(n)}
      BY <2>2, <1>7, <1>8 DEF Learn
    <3>2. QED
      BY <2>2, <3>1
  <2>3. QED
    BY <2>1, <2>2
<1>10. \A p \in DOMAIN counts : IsWeights(counts[p], Symbols)
  BY DEF IInv, TypeOK
<1>11. Pairs(n) = IF m = 0 THEN {} ELSE Pairs(m) \cup {<<Sym(m), Sym(n)>>}
  <2>1. m = 0 => Pairs(n) = {}
    BY <1>3, NoPairs
  <2>2. m # 0 => Pairs(n) = Pairs(m) \cup {<<Sym(m), Sym(n)>>}
    BY <1>3, NextPair
  <2>3. QED
    BY <2>1, <2>2
<1>12. \A p \in DOMAIN counts :
         /\ DOMAIN counts[p] = {c \in Symbols : <<p, c>> \in Pairs(m)}
         /\ {p} \cup DOMAIN counts[p] \subseteq vocab
  BY <1>4 DEF IInv, FollowsHistory
<1>13. ASSUME NEW p \in DOMAIN counts
       PROVE  /\ DOMAIN counts'[p] = {c \in Symbols : <<p, c>> \in Pairs(n)}
              /\ {p} \cup DOMAIN counts'[p] \subseteq vocab'
              /\ IsWeights(counts'[p], Symbols)
  <2>1. m # 0
    BY <1>6
  <2>2. CASE p = Sym(m)
    <3>1. PICK w \in Nat :
            counts'[p] = With(counts[p], Sym(n), w)
      <4>1. PICK v \in Nat :
              v = IF Sym(n) \in DOMAIN counts[p] THEN counts[p][Sym(n)]
                                                 ELSE 0
        BY <1>10 DEF IsWeights
      <4>2. PICK u \in Nat : u = Unit
        BY UnitType
      <4>3. counts'[p] = With(counts[p], Sym(n), v + u)
        BY <2>1, <2>2, <4>1, <4>2, <1>6, <1>9 DEF Added
      <4>4. v + u \in Nat
        OBVIOUS
      <4>5. QED
        BY <4>3, <4>4
    <3>2. DOMAIN counts'[p] = DOMAIN counts[p] \cup {Sym(n)}
      BY <3>1 DEF With
    <3>3. IsWeights(counts'[p], Symbols)
      BY <3>1, <1>7, <1>10, WithWeight
    <3>4. \A c \in Symbols : <<p, c>> \in Pairs(n) <=>
                             <<p, c>> \in Pairs(m) \/ c = Sym(n)
      BY <2>1, <2>2, <1>11
    <3>5. DOMAIN counts'[p] = {c \in Symbols : <<p, c>> \in Pairs(n)}
      BY <3>2, <3>4, <1>7, <1>12
    <3>6. QED
      BY <2>1, <3>2, <3>3, <3>5, <1>9, <1>12
  <2>3. CASE p # Sym(m)
    <3>1. counts'[p] = counts[p]
      BY <2>1, <2>3, <1>6, <1>9
    <3>2. \A c \in Symbols : <<p, c>> \in Pairs(n) <=> <<p, c>> \in Pairs(m)
      BY <2>1, <2>3, <1>11
    <3>3. QED
      BY <2>1, <3>1, <3>2, <1>9, <1>10, <1>12
  <2>4. QED
    BY <2>2, <2>3
<1>14. ASSUME NEW p \in DOMAIN counts, NEW c \in DOMAIN counts'[p]
       PROVE  counts'[p][c] = WeightAt(n, n, p, c)
  <2>1. m \in Nat \ {0}
    BY <1>6
  <2>2. PICK w, v : w = WeightAt(n, m, p, c) /\ v = WeightAt(n, n, p, c)
    OBVIOUS
  <2>3. v = w + (IF Departs(n, p) /\ Sym(n) = c THEN Unit ELSE 0)
    <3>1. WeightAt(m + 1, m + 1, p, c)
            = WeightAt(m + 1, m, p, c)
                + (IF Departs(m + 1, p) /\ Sym(m + 1) = c THEN Unit ELSE 0)
      BY <2>1, <1>3, WeightAdds
    <3>2. QED
      BY <2>2, <3>1, <1>3
  <2>4. w \in Nat
    <3>1. n \in 0..MaxHeard /\ m \in 0..n
      BY <1>2, <1>3
    <3>2. QED
      BY <2>2, <3>1, WeightType
  <2>5. Departs(n, p) <=> Sym(m) = p
    BY <1>3 DEF Departs, Sym
  <2>6. c \in DOMAIN counts[p] => counts[p][c] = w
    BY <2>2, <1>4 DEF IInv, WeightsFollow
  <2>7. c \notin DOMAIN counts[p] => w = 0
    <3>1. c \notin DOMAIN counts[p] => <<p, c>> \notin Pairs(m)
      BY <1>12, <1>13
    <3>2. QED
      BY <2>2, <3>1, Weightless
  <2>8. counts'[p][c] = v
    <3>1. CASE Sym(m) = p
      <4>1. counts'[p] = Added(counts[p], Sym(n))
        BY <2>1, <3>1, <1>6, <1>9
      <4>2. PICK r : r = (IF Sym(n) \in DOMAIN counts[p]
                          THEN counts[p][Sym(n)] ELSE 0) + Unit
        OBVIOUS
      <4>3. counts'[p] = With(counts[p], Sym(n), r)
        BY <4>1, <4>2 DEF Added
      <4>4. CASE c = Sym(n)
        <5>1. counts'[p][c] = r
          BY <4>3, <4>4 DEF With
        <5>2. r = w + Unit
          BY <2>6, <2>7, <4>2, <4>4
        <5>3. QED
          BY <2>3, <2>5, <3>1, <4>4, <5>1, <5>2
      <4>5. CASE c # Sym(n)
        <5>1. c \in DOMAIN counts[p] /\ counts'[p][c] = counts[p][c]
          BY <4>3, <4>5 DEF With
        <5>2. QED
          BY <2>3, <2>4, <2>6, <4>5, <5>1
      <4>6. QED
        BY <4>4, <4>5
    <3>2. CASE Sym(m) # p
      <4>1. counts'[p] = counts[p]
        BY <2>1, <3>2, <1>6, <1>9
      <4>2. QED
        BY <2>3, <2>4, <2>5, <2>6, <3>2, <4>1
    <3>3. QED
      BY <3>1, <3>2
  <2>9. QED
    BY <2>2, <2>8
<1>15. learning_complete' <=> LearnedBy(n)
  <2>1. Finished <=> \/ learning_complete
                     \/ n >= LearningMaxEvents
                     \/ heard[n].ts - heard[1].ts >= LearningMaxTime
    BY <1>2, <1>7 DEF Finished, IInv, FollowsHistory
  <2>2. 1..n = (1..m) \cup {n}
    BY <1>2, <1>3
  <2>3. LearnedBy(n) <=> \/ LearnedBy(m)
                         \/ n >= LearningMaxEvents
                         \/ heard[n].ts - heard[1].ts >= LearningMaxTime
    BY <2>2 DEF LearnedBy
  <2>4. QED
    BY <2>1, <2>3, <1>6 DEF Learn
<1>16. TypeOK'
  <2>1. learning_complete' \in BOOLEAN
    BY DEF Learn, Finished, IInv, TypeOK
  <2>2. vocab' \subseteq Symbols /\ last_symbol' \in Symbols
    BY <1>7, <1>9 DEF Learn, IInv, TypeOK
  <2>3. QED
    BY <1>1, <1>9, <1>13, <2>1, <2>2 DEF IInv, TypeOK, Learn, stored, windows,
                                              history
<1>17. FollowsHistory'
  <2>1. /\ DOMAIN counts' = {Sym(i)' : i \in 1..(Len(heard') - 1)}
        /\ \A p \in DOMAIN counts' :
             /\ DOMAIN counts'[p]
                  = {c \in Symbols : <<p, c>> \in Pairs(Learned)'}
             /\ {p} \cup DOMAIN counts'[p] \subseteq vocab'
    <3>1. Pairs(Learned)' = Pairs(n)
      BY <1>1, <1>4 DEF Pairs
    <3>2. DOMAIN counts' = {Sym(i)' : i \in 1..(Len(heard') - 1)}
      BY <1>1, <1>5, <1>9 DEF IInv, FollowsHistory
    <3>3. QED
      BY <3>1, <3>2, <1>9, <1>13
  <2>2. last_symbol' = IF Learned' = 0 THEN None ELSE Sym(Learned)'
    <3>1. Sym(Learned)' = Sym(n)
      BY <1>1, <1>4 DEF Sym
    <3>2. QED
      BY <3>1, <1>2, <1>4, <1>7 DEF Learn
  <2>3. learning_complete' <=> LearnedBy(Learned)'
    <3>1. LearnedBy(Learned)' <=> LearnedBy(n)
      BY <1>1, <1>4 DEF LearnedBy
    <3>2. QED
      BY <3>1, <1>15
  <2>4. \A i : LearnedBy(i - 1)' <=> LearnedBy(i - 1)
    BY <1>5
  <2>5. QED
    BY <1>1, <2>1, <2>2, <2>3, <2>4 DEF IInv, FollowsHistory, Learn
<1>18. WeightsFollow'
  <2> SUFFICES ASSUME NEW p \in DOMAIN counts', NEW c \in DOMAIN counts'[p]
               PROVE  counts'[p][c] = WeightAt(Aged, Learned, p, c)'
    BY DEF WeightsFollow
  <2>1. WeightAt(Aged, Learned, p, c)' = WeightAt(n, n, p, c)'
    BY <1>4 DEF WeightAt, Occurrences, Faded
  <2>2. QED
    BY <2>1, <1>5, <1>9, <1>14
<1>19. Judgements'
  <2>1. learning_complete => learning_complete'
    BY DEF Learn, Finished
  <2>2. QED
    BY <1>1, <2>1 DEF IInv, Judgements, Learn, windows
<1>20. ExportKept'
  <2>1. /\ export' = export /\ fingerprints' = fingerprints /\ file' = file
        /\ Len(heard) <= Len(heard') /\ Learned <= Learned'
    BY <1>1, <1>2, <1>3, <1>4 DEF Learn, stored
  <2>2. QED
    BY <1>5, <1>16, <1>17, <2>1, ObserveStep
<1>21. daily_snapshots' \in Seq(Snapshots)
  BY DEF IInv, Learn
<1>22. FirstWindow' /\ Noted'
  BY SameWindows DEF Learn, stored, windows
<1>23. QED
  BY <1>16, <1>17, <1>18, <1>19, <1>20, <1>21, <1>22 DEF IInv, ExportKept

(* What happens outside observe leaves the contract as it is.               *)
LEMMA SameContract ==
  ASSUME IInv, UNCHANGED contract, heard' = heard
  PROVE  /\ FollowsHistory' /\ WeightsFollow'
         /\ Learned' = Learned /\ Aged' = Aged
<1>1. /\ heard' = heard /\ step' = step /\ counts' = counts /\ vocab' = vocab
      /\ event_count' = event_count /\ first_event_ts' = first_event_ts
      /\ last_symbol' = last_symbol /\ learning_complete' = learning_complete
  BY DEF contract
<1>2. Learned' = Learned /\ Aged' = Aged
  BY <1>1 DEF Learned, Aged
<1>3. FollowsHistory'
  <2>1. /\ Sym(Learned)' = Sym(Learned)
        /\ LearnedBy(Learned)' <=> LearnedBy(Learned)
        /\ Pairs(Learned)' = Pairs(Learned)
    BY <1>1, <1>2 DEF Sym, LearnedBy, Pairs
  <2>2. /\ \A i : LearnedBy(i - 1)' <=> LearnedBy(i - 1)
        /\ \A i : Sym(i)' = Sym(i)
    BY <1>1, SameHistory
  <2>3. DOMAIN counts' = {Sym(i)' : i \in 1..(Len(heard') - 1)}
    BY <1>1, <2>2 DEF IInv, FollowsHistory
  <2>4. \A p \in DOMAIN counts' :
          /\ DOMAIN counts'[p]
               = {c \in Symbols : <<p, c>> \in Pairs(Learned)'}
          /\ {p} \cup DOMAIN counts'[p] \subseteq vocab'
    <3>1. \A p \in DOMAIN counts :
            /\ DOMAIN counts[p]
                 = {c \in Symbols : <<p, c>> \in Pairs(Learned)}
            /\ {p} \cup DOMAIN counts[p] \subseteq vocab
      BY DEF IInv, FollowsHistory
    <3>2. counts' = counts /\ vocab' = vocab
      BY <1>1
    <3>3. QED
      BY <2>1, <3>1, <3>2
  <2>5. QED
    BY <1>1, <1>2, <2>1, <2>2, <2>3, <2>4 DEF IInv, FollowsHistory
<1>4. \A p, c : WeightAt(Aged, Learned, p, c)'
                  = WeightAt(Aged, Learned, p, c)
  BY <1>1, <1>2 DEF WeightAt, Occurrences, Departs, Faded, LearnedBy
<1>5. WeightsFollow'
  BY <1>1, <1>4 DEF IInv, WeightsFollow
<1>6. QED
  BY <1>2, <1>3, <1>5

LEMMA CloseWindowIInv ==
  ASSUME IInv, CloseWindow
  PROVE  IInv'
<1>1. /\ heard' = heard /\ step' = step /\ counts' = counts /\ vocab' = vocab
      /\ export' = export /\ event_count' = event_count
      /\ first_event_ts' = first_event_ts /\ last_symbol' = last_symbol
      /\ learning_complete' = learning_complete
      /\ fingerprint_only' = fingerprint_only
      /\ fingerprints' = fingerprints /\ file' = file
      /\ daily_snapshots' = daily_snapshots /\ client' = client
      /\ window' = {} /\ exports' = exports /\ crashes' = crashes
      /\ handling = "idle" /\ handling' = "query" /\ features' = features
  BY DEF CloseWindow, contract, stored, history, BufferPopped
<1>2. PICK j \in [learning : BOOLEAN, events : SUBSET Nat] :
        /\ j.learning = (~learning_complete) /\ j.events = window
        /\ judged' = judged \/ judged' = Append(judged, j)
  <2>1. PICK b \in BOOLEAN : b = (~learning_complete)
    OBVIOUS
  <2>2. PICK j : j = [learning |-> ~learning_complete, events |-> window]
    OBVIOUS
  <2>3. judged' = judged \/ judged' = Append(judged, j)
    BY <2>2 DEF CloseWindow
  <2>4. j = [learning |-> b, events |-> window]
    BY <2>1, <2>2
  <2>5. window \in SUBSET Nat
    BY DEF IInv, TypeOK
  <2>6. j.learning = b /\ j.events = window
        /\ j \in [learning : BOOLEAN, events : SUBSET Nat]
    BY <2>4, <2>5
  <2>7. QED
    BY <2>1, <2>3, <2>6
<1>3. judged \in Seq([learning : BOOLEAN, events : SUBSET Nat])
  BY DEF IInv, TypeOK
<1>4. TypeOK'
  <2>1. judged' \in Seq([learning : BOOLEAN, events : SUBSET Nat])
    <3>1. PICK J : J = [learning : BOOLEAN, events : SUBSET Nat]
      OBVIOUS
    <3>2. judged \in Seq(J) /\ j \in J
      BY <3>1, <1>3
    <3>3. judged' \in Seq(J)
      BY <3>2, <1>2
    <3>4. QED
      BY <3>1, <3>3
  <2>2. QED
    BY <1>1, <2>1 DEF IInv, TypeOK
<1>5. Judgements'
  <2>1. CASE judged' = judged
    BY <1>1, <2>1 DEF IInv, Judgements
  <2>2. CASE judged' = Append(judged, j)
    <3>1. PICK n \in Nat : n = Len(judged)
      BY <1>3
    <3>2. /\ Len(judged') = n + 1 /\ judged'[n + 1] = j
          /\ \A i \in 1..n : judged'[i] = judged[i]
      BY <2>2, <3>1, <1>2, <1>3
    <3>3. /\ window \subseteq 1..Len(heard)
          /\ \A i \in 1..n : judged[i].events \subseteq 1..Len(heard)
          /\ \A i \in 1..n : ~judged[i].learning =>
               /\ learning_complete
               /\ \A k \in window : ~heard[k].learned
               /\ \A l \in (i + 1)..n :
                    \A k \in judged[l].events : ~heard[k].learned
      BY <3>1 DEF IInv, Judgements
    <3>4. \A i \in 1..(n + 1) : judged'[i].events \subseteq 1..Len(heard)
      BY <3>2, <3>3, <1>2
    <3>5. ASSUME NEW i \in 1..(n + 1), ~judged'[i].learning
          PROVE  /\ learning_complete
                 /\ \A l \in (i + 1)..(n + 1) :
                      \A k \in judged'[l].events : ~heard[k].learned
      <4>1. CASE i = n + 1
        <5>1. ~j.learning
          BY <3>2, <3>5, <4>1
        <5>2. learning_complete
          BY <5>1, <1>2, Zenon
        <5>3. QED
          BY <4>1, <5>2
      <4>2. CASE i # n + 1
        <5>1. i \in 1..n /\ ~judged[i].learning
          BY <3>2, <3>5, <4>2
        <5>2. ASSUME NEW l \in (i + 1)..(n + 1)
              PROVE  \A k \in judged'[l].events : ~heard[k].learned
          <6>1. CASE l = n + 1
            BY <3>2, <3>3, <5>1, <6>1, <1>2
          <6>2. CASE l # n + 1
            BY <3>2, <3>3, <5>1, <6>2
          <6>3. QED
            BY <6>1, <6>2
        <5>3. QED
          BY <3>3, <5>1, <5>2
      <4>3. QED
        BY <4>1, <4>2
    <3>6. QED
      BY <3>2, <3>4, <3>5, <1>1 DEF Judgements
  <2>3. QED
    BY <1>2, <2>1, <2>2
<1>6. UNCHANGED contract
  BY DEF CloseWindow
<1>7. FollowsHistory' /\ WeightsFollow' /\ Learned' = Learned
  BY <1>1, <1>6, SameContract
<1>8. ExportKept'
  <2>1. /\ \A k : Pairs(k)' = Pairs(k) /\ Sym(k)' = Sym(k)
        /\ \A d, k, p, c : WeightAt(d, k, p, c)' = WeightAt(d, k, p, c)
    BY <1>1, SameHistory
  <2>2. /\ Len(heard) <= Len(heard') /\ Learned <= Learned'
    BY <1>1, <1>7, HeardType DEF IInv, Learned
  <2>3. QED
    BY <1>1, <1>4, <1>7, <2>1, <2>2, ObserveStep
<1>9. FirstWindow' /\ Noted'
  BY <1>1 DEF IInv, FirstWindow, Noted
<1>10. QED
  BY <1>1, <1>4, <1>5, <1>7, <1>8, <1>9 DEF IInv, ExportKept

(* Once the buffers are popped, handling a window touches the features and  *)
(* the client's row only.                                                   *)
LEMMA HandlingStep ==
  ASSUME IInv, UNCHANGED <<fingerprint_only, contract, window, export,
                           daily_snapshots, heard, judged, history>>,
         fingerprints' = fingerprints, file' = file,
         handling' \in {"idle", "query", "insert", "features"},
         features' \in 0..Features \cup {None},
         client' \in {None, "loop", "export", "stored"},
         FirstWindow', Noted'
  PROVE  IInv'
<1>1. UNCHANGED contract /\ heard' = heard /\ export' = export
      /\ judged' = judged /\ window' = window
  OBVIOUS
<1>2. FollowsHistory' /\ WeightsFollow' /\ Learned' = Learned
  BY <1>1, SameContract
<1>3. /\ step' = step /\ counts' = counts /\ vocab' = vocab
      /\ event_count' = event_count /\ first_event_ts' = first_event_ts
      /\ last_symbol' = last_symbol /\ learning_complete' = learning_complete
  BY DEF contract
<1>4. TypeOK'
  BY <1>1, <1>3 DEF IInv, TypeOK, history
<1>5. Judgements'
  BY <1>1, <1>3 DEF IInv, Judgements
<1>6. ExportKept'
  <2>1. /\ \A k : Pairs(k)' = Pairs(k) /\ Sym(k)' = Sym(k)
        /\ \A d, k, p, c : WeightAt(d, k, p, c)' = WeightAt(d, k, p, c)
    BY <1>1, SameHistory
  <2>2. /\ Len(heard) <= Len(heard') /\ Learned <= Learned'
    BY <1>1, <1>2, HeardType DEF IInv, Learned
  <2>3. QED
    BY <1>1, <1>2, <1>4, <2>1, <2>2, ObserveStep
<1>7. QED
  BY <1>2, <1>4, <1>5, <1>6 DEF IInv, ExportKept

LEMMA WindowIInv ==
  ASSUME IInv, \/ WindowFindsClient \/ WindowInsertsClient
               \/ RecordFeature \/ CommitWindow
  PROVE  IInv'
<1>1. CASE WindowFindsClient
  <2>1. handling' \in {"insert", "features"} /\ features' = features
        /\ client' = client /\ fingerprints' = fingerprints /\ file' = file
    BY <1>1 DEF WindowFindsClient, stored
  <2>2. FirstWindow' /\ Noted'
    BY <1>1, <2>1 DEF IInv, FirstWindow, Noted, WindowFindsClient
  <2>3. QED
    BY <1>1, <2>1, <2>2, HandlingStep DEF WindowFindsClient, IInv, TypeOK
<1>2. CASE WindowInsertsClient
  <2>1. FirstWindow' /\ Noted'
    BY <1>2, ContractAssumption
       DEF IInv, FirstWindow, Noted, WindowInsertsClient
  <2>2. QED
    BY <1>2, <2>1, HandlingStep DEF WindowInsertsClient, IInv, TypeOK
<1>3. CASE RecordFeature
  <2>1. features' \in 0..Features \cup {None} /\ features # Features
        /\ handling = "features" /\ handling' = handling /\ client' = client
        /\ fingerprints' = fingerprints /\ file' = file /\ export' = export
    BY <1>3, ContractAssumption DEF RecordFeature, IInv, TypeOK, stored
  <2>2. FirstWindow' /\ Noted'
    BY <2>1 DEF IInv, FirstWindow, Noted
  <2>3. QED
    BY <1>3, <2>1, <2>2, HandlingStep DEF RecordFeature, IInv, TypeOK
<1>4. CASE CommitWindow
  <2>1. FirstWindow' /\ Noted'
    BY <1>4 DEF IInv, FirstWindow, Noted, CommitWindow
  <2>2. QED
    BY <1>4, <2>1, HandlingStep DEF CommitWindow, IInv, TypeOK
<1>5. QED
  BY <1>1, <1>2, <1>3, <1>4

-----------------------------------------------------------------------------
(* The steps of the export.                                                 *)

LEMMA UntouchedKeeps ==
  ASSUME IInv, Untouched
  PROVE  /\ FollowsHistory' /\ WeightsFollow' /\ Judgements'
         /\ Learned' = Learned /\ heard' = heard /\ counts' = counts
         /\ event_count' = event_count
         /\ /\ export' \in Export(export'.dist)
            /\ IsWeights(export'.dist, Symbols \X Symbols)
            /\ Len(daily_snapshots') <= SnapshotCap
            /\ client' \in {None, "loop", "export", "stored"}
            /\ exports' \in Nat /\ crashes' \in Nat
            => TypeOK'
         /\ handling' = handling /\ features' = features
<1>1. /\ heard' = heard /\ step' = step /\ counts' = counts /\ vocab' = vocab
      /\ event_count' = event_count /\ first_event_ts' = first_event_ts
      /\ last_symbol' = last_symbol /\ learning_complete' = learning_complete
      /\ fingerprint_only' = fingerprint_only /\ window' = window
      /\ judged' = judged /\ handling' = handling /\ features' = features
  BY DEF Untouched, contract, windows
<1>2. FollowsHistory' /\ WeightsFollow' /\ Learned' = Learned
  BY <1>1, SameContract DEF Untouched
<1>3. Judgements'
  BY <1>1 DEF IInv, Judgements
<1>4. ASSUME export' \in Export(export'.dist),
             IsWeights(export'.dist, Symbols \X Symbols),
             Len(daily_snapshots') <= SnapshotCap,
             client' \in {None, "loop", "export", "stored"},
             exports' \in Nat, crashes' \in Nat
      PROVE  TypeOK'
  BY <1>1, <1>4 DEF IInv, TypeOK
<1>5. QED
  BY <1>1, <1>2, <1>3, <1>4

LEMMA ExportTyped ==
  ASSUME TypeOK
  PROVE  /\ export \in [phase : Phases, rows : SUBSET Symbols, size : Nat,
                        row : Symbols \cup {None}, cells : SUBSET Symbols,
                        row_size : Nat, dist : {export.dist},
                        recorded : 0..Features \cup {None},
                        states : SUBSET Symbols,
                        top : SUBSET (Symbols \X Symbols), began : Nat,
                        ended : Nat, events : Nat, complete : BOOLEAN,
                        known : BOOLEAN]
         /\ DOMAIN export.dist \subseteq Symbols \X Symbols
         /\ export.dist \in [DOMAIN export.dist -> Nat]
BY DEF TypeOK, Export, IsWeights

LEMMA RowsAreFinite ==
  ASSUME TypeOK
  PROVE  /\ Cardinality(DOMAIN counts) \in Nat
         /\ \A p \in DOMAIN counts : Cardinality(DOMAIN counts[p]) \in Nat
<1>1. \A S \in SUBSET Symbols : Cardinality(S) \in Nat
  BY FS_Subset, FS_CardinalityType
<1>2. DOMAIN counts \in SUBSET Symbols
      /\ \A p \in DOMAIN counts : DOMAIN counts[p] \in SUBSET Symbols
  BY DEF TypeOK, IsWeights
<1>3. QED
  BY <1>1, <1>2

LEMMA LearnedIs ==
  ASSUME IInv
  PROVE  Learned \in Nat /\ Learned <= Len(heard) /\ Len(heard) - 1 <= Learned
<1>1. Len(heard) \in Nat
  BY HeardType DEF IInv
<1>2. step # "idle" => Len(heard) # 0
  BY HeardType DEF IInv, FollowsHistory
<1>3. QED
  BY <1>1, <1>2 DEF Learned

LEMMA PairsTyped ==
  ASSUME IInv, NEW n \in 0..Len(heard)
  PROVE  Pairs(n) \subseteq Symbols \X Symbols
<1> SUFFICES ASSUME NEW x \in Pairs(n) PROVE x \in Symbols \X Symbols
  OBVIOUS
<1>1. n \in Nat /\ Len(heard) \in Nat
  BY HeardType DEF IInv
<1>2. PICK i \in 2..n : x = <<Sym(i - 1), Sym(i)>>
  BY <1>1, PairIsHeard
<1>3. i - 1 \in 1..Len(heard) /\ i \in 1..Len(heard)
  BY <1>1
<1>4. QED
  BY <1>2, <1>3, HeardType, EventAt DEF IInv, Sym

LEMMA BeforeExport ==
  ASSUME IInv, export.began \in 0..Learned
  PROVE  /\ Pairs(export.began) \subseteq Pairs(Learned)
         /\ Pairs(export.began) \subseteq Symbols \X Symbols
<1>1. PICK b, l \in Nat : /\ b = export.began /\ l = Learned /\ b <= l
                          /\ b \in 0..Len(heard)
  BY LearnedIs, HeardType DEF IInv
<1>2. Pairs(b) \subseteq Pairs(l)
  BY <1>1, PairsGrow
<1>3. Pairs(b) \subseteq Symbols \X Symbols
  BY <1>1, PairsTyped
<1>4. QED
  BY <1>1, <1>2, <1>3

(* What is in the contract has been heard.                                  *)
LEMMA RowHeard ==
  ASSUME IInv, NEW p \in DOMAIN counts
  PROVE  /\ p \in {Sym(i) : i \in 1..Len(heard)}
         /\ DOMAIN counts[p] \subseteq {Sym(i) : i \in 1..Len(heard)}
         /\ \A c \in DOMAIN counts[p] : <<p, c>> \in Pairs(Len(heard))
<1>1. PICK n, l \in Nat : n = Len(heard) /\ l = Learned /\ l <= n
  BY LearnedIs, HeardType DEF IInv
<1>2. PICK i \in 1..(n - 1) : p = Sym(i)
  BY <1>1 DEF IInv, FollowsHistory
<1>3. ASSUME NEW c \in DOMAIN counts[p]
      PROVE  c \in {Sym(j) : j \in 1..n} /\ <<p, c>> \in Pairs(n)
  <2>1. <<p, c>> \in Pairs(l)
    BY <1>1 DEF IInv, FollowsHistory
  <2>2. PICK j \in 2..l : <<p, c>> = <<Sym(j - 1), Sym(j)>>
    BY <1>1, <2>1, PairIsHeard
  <2>3. j \in 1..n /\ c = Sym(j)
    BY <1>1, <2>2
  <2>4. Pairs(l) \subseteq Pairs(n)
    BY <1>1, PairsGrow
  <2>5. QED
    BY <2>1, <2>3, <2>4
<1>4. i \in 1..n
  BY <1>1
<1>5. QED
  BY <1>1, <1>2, <1>3, <1>4

LEMMA CountedLoop ==
  ASSUME IInv, heard' = heard, Counting, Counting', Seen' \in 0..Len(heard),
         export'.states \subseteq
           export.states \cup {Sym(i) : i \in 1..Len(heard)},
         export'.top \subseteq export.top \cup Pairs(Len(heard))
  PROVE  DocumentCounted'
<1>1. PICK n \in Nat : n = Len(heard) /\ n = Len(heard')
  BY HeardType DEF IInv
<1>2. Counted = n /\ Counted' = n
  BY <1>1 DEF Counted
<1>3. export.states \subseteq {Sym(i) : i \in 1..n}
      /\ export.top \subseteq Pairs(n)
  BY <1>2 DEF IInv, DocumentCounted, Counting
<1>4. Pairs(Counted)' = Pairs(n)
  BY <1>2 DEF Pairs
<1>5. {Sym(i)' : i \in 1..n} = {Sym(i) : i \in 1..n}
  BY DEF Sym
<1>6. QED
  BY <1>1, <1>2, <1>3, <1>4, <1>5 DEF DocumentCounted

LEMMA NextRowIInv ==
  ASSUME IInv, NEW r \in Symbols, NextRow(r)
  PROVE  IInv'
<1>1. /\ FollowsHistory' /\ WeightsFollow' /\ Judgements'
      /\ Learned' = Learned /\ heard' = heard /\ counts' = counts
      /\ handling' = handling /\ features' = features
  BY UntouchedKeeps DEF NextRow
<1>2. /\ export.phase \in {"snapshot", "states", "top"}
      /\ r \in export.rows /\ r \in DOMAIN counts
      /\ export.row = None /\ ~RowsChanged
      /\ DOMAIN export.dist \subseteq Pairs(Learned)
      /\ export.began \in 0..Learned
      /\ export.rows \subseteq DOMAIN counts
      /\ fingerprints' = fingerprints /\ file' = file /\ client' = client
      /\ exports' = exports /\ crashes' = crashes
      /\ daily_snapshots' = daily_snapshots
  BY DEF NextRow, Looping, IInv, LoopsExist, stored, history
<1>3. /\ export'.phase = export.phase /\ export'.rows = export.rows \ {r}
      /\ export'.size = export.size /\ export'.dist = export.dist
      /\ export'.top = export.top /\ export'.began = export.began
      /\ export'.ended = export.ended /\ export'.events = export.events
      /\ export'.complete = export.complete /\ export'.known = export.known
      /\ IF export.phase = "states"
         THEN /\ export'.row = None /\ export'.cells = export.cells
              /\ export'.row_size = export.row_size
              /\ export'.states = export.states \cup DOMAIN counts[r]
         ELSE /\ export'.row = r /\ export'.cells = DOMAIN counts[r]
              /\ export'.row_size = Cardinality(DOMAIN counts[r])
              /\ export'.states = export.states
  BY <1>2, ExportTyped DEF IInv, NextRow, RowSymbols
<1>4. TypeOK'
  <2>1. DOMAIN counts[r] \subseteq Symbols
        /\ Cardinality(DOMAIN counts[r]) \in Nat
    BY <1>2, RowsAreFinite DEF IInv, TypeOK, IsWeights
  <2>2. export' \in Export(export'.dist)
    BY <1>2, <1>3, <2>1, ExportTyped DEF IInv, NextRow, RowSymbols, Export
  <2>3. QED
    BY <1>2, <1>3, <2>2, UntouchedKeeps DEF IInv, TypeOK, NextRow
<1>5. LoopsExist'
  <2>1. Pairs(Learned)' = Pairs(Learned)
    BY <1>1 DEF Pairs
  <2>2. QED
    BY <1>1, <1>2, <1>3, <2>1 DEF LoopsExist, Looping
<1>6. SizesKept'
  BY <1>1, <1>2, <1>3 DEF SizesKept, RowsChanged, CellsChanged
<1>7. DOMAIN counts[r] = {c \in Symbols : <<r, c>> \in Pairs(Learned)}
  BY <1>2 DEF IInv, FollowsHistory
<1>8. DOMAIN export.dist \subseteq Symbols \X Symbols
  BY ExportTyped DEF IInv
<1>9. \A x \in Symbols \X Symbols : x = <<x[1], x[2]>> /\ x[2] \in Symbols
  OBVIOUS
<1>10. Pairs(export.began)' = Pairs(export.began)
       /\ Pairs(export.began) \subseteq Pairs(Learned)
       /\ Pairs(export.began) \subseteq Symbols \X Symbols
  <2>1. Pairs(export.began)' = Pairs(export.began)
    BY <1>1, <1>3 DEF Pairs
  <2>2. QED
    BY <2>1, <1>2, BeforeExport
<1>11. DocumentGrows'
  <2>1. Seen' = Seen /\ Seen \in export.began..Len(heard)
    BY <1>1, <1>2, <1>3 DEF IInv, DocumentGrows, Seen
  <2>2. SnapshotGrows'
    <3> SUFFICES ASSUME NEW x \in Pairs(export.began)
                 PROVE  \/ x \in DOMAIN export'.dist
                        \/ export'.phase = "snapshot" /\ ToVisit(x)'
      BY <1>10 DEF SnapshotGrows
    <3>1. \/ x \in DOMAIN export.dist
          \/ export.phase = "snapshot" /\ ToVisit(x)
      BY <1>2 DEF IInv, DocumentGrows, SnapshotGrows
    <3>2. ASSUME export.phase = "snapshot", ToVisit(x)
          PROVE  ToVisit(x)'
      <4>1. x = <<x[1], x[2]>> /\ x[2] \in Symbols /\ x[1] # None
        BY <1>9, <1>10
      <4>2. x[1] = r => x[2] \in DOMAIN counts[r]
        BY <4>1, <1>7, <1>10
      <4>3. QED
        BY <3>2, <4>1, <4>2, <1>2, <1>3 DEF ToVisit
    <3>3. QED
      BY <1>3, <3>1, <3>2
  <2>3. StatesGrow'
    <3> SUFFICES ASSUME export.phase # "snapshot", NEW x \in DOMAIN export.dist
                 PROVE  /\ x[1] \in export'.states
                        /\ \/ x[2] \in export'.states
                           \/ export.phase = "states" /\ x[1] \in export'.rows
      BY <1>3 DEF StatesGrow
    <3>1. /\ x[1] \in export.states
          /\ \/ x[2] \in export.states
             \/ export.phase = "states" /\ x[1] \in export.rows
      BY <1>2 DEF IInv, DocumentGrows, StatesGrow
    <3>2. x[1] = r => x[2] \in DOMAIN counts[r]
      BY <1>2, <1>7, <1>8, <1>9
    <3>3. QED
      BY <3>1, <3>2, <1>3
  <2>4. TopGrows'
    <3> SUFFICES ASSUME export.phase = "top", NEW x \in DOMAIN export.dist
                 PROVE  x \in export'.top \/ ToVisit(x)'
      BY <1>2, <1>3 DEF TopGrows
    <3>1. x \in export.top \/ ToVisit(x)
      BY <1>2 DEF IInv, DocumentGrows, TopGrows
    <3>2. x[1] = r => x[2] \in DOMAIN counts[r]
      BY <1>2, <1>7, <1>8, <1>9
    <3>3. x[1] # None
      BY <1>8
    <3>4. QED
      BY <3>1, <3>2, <3>3, <1>2, <1>3 DEF ToVisit
  <2>5. QED
    BY <2>1, <2>2, <2>3, <2>4, <1>1, <1>3 DEF DocumentGrows
<1>12. WeightsInTime' /\ CommittedFirst'
  <2>1. Seen' = Seen
    BY <1>1, <1>3 DEF Seen
  <2>2. \A k, p, c : WeightAt(k, k, p, c)' = WeightAt(k, k, p, c)
    BY <1>1, SameHistory
  <2>3. WeightsInTime'
    BY <2>1, <2>2, <1>3 DEF IInv, WeightsInTime, Near
  <2>4. CommittedFirst'
    BY <1>2, <1>3 DEF IInv, CommittedFirst, FileFollowsDatabase
  <2>5. QED
    BY <2>3, <2>4
<1>13. DocumentCounted'
  <2>1. Counting /\ Counting'
    BY <1>2, <1>3 DEF Counting
  <2>2. Seen' \in 0..Len(heard)
    BY <1>1, <1>2, <1>3, LearnedIs DEF IInv, DocumentGrows, Seen
  <2>3. DOMAIN counts[r] \subseteq {Sym(i) : i \in 1..Len(heard)}
    BY <1>2, RowHeard
  <2>4. QED
    BY <1>1, <1>3, <2>1, <2>2, <2>3, CountedLoop
<1>14. FirstWindow' /\ Noted'
  BY <1>1, <1>2, <1>3, SameWindows
<1>15. QED
  BY <1>1, <1>2, <1>4, <1>5, <1>6, <1>11, <1>12, <1>13, <1>14 DEF IInv

LEMMA CountInTime ==
  ASSUME IInv, NEW b \in 0..Learned,
         NEW p \in DOMAIN counts, NEW c \in DOMAIN counts[p]
  PROVE  \E k \in b..Len(heard) :
           Near(counts[p][c], WeightAt(k, k, p, c))
<1>1. PICK n \in Nat : n = Len(heard) /\ n <= MaxHeard
  BY HeardType DEF IInv, FollowsHistory
<1>2. PICK m \in Nat : /\ m = Learned /\ m \in b..n
                       /\ step # "idle" => m = n - 1 /\ m + 1 = n
  BY <1>1, LearnedIs DEF Learned
<1>3. PICK v : v = counts[p][c]
  OBVIOUS
<1>4. v = WeightAt(Aged, Learned, p, c)
  BY <1>3 DEF IInv, WeightsFollow
<1>5. ASSUME NEW k \in Nat, k <= n, v = WeightAt(k, k, p, c)
      PROVE  Near(v, WeightAt(k, k, p, c))
  <2>1. k \in 0..MaxHeard /\ k \in 0..k
    BY <1>1, <1>5
  <2>2. v \in Nat
    BY <1>5, <2>1, WeightType
  <2>3. PICK a \in Nat : a = AlphaInverse - 1
    OBVIOUS
  <2>4. v * AlphaInverse = v * a + v
    BY <2>2, <2>3
  <2>5. v * a \in Nat
    BY <2>2, Product
  <2>6. v * AlphaInverse >= v * (AlphaInverse - 1)
    BY <2>2, <2>3, <2>4, <2>5
  <2>7. QED
    BY <1>5, <2>2, <2>6 DEF Near
<1>6. CASE step = "idle"
  <2>1. v = WeightAt(n, n, p, c) /\ n = m
    BY <1>1, <1>2, <1>4, <1>6 DEF Aged, Learned
  <2>2. Near(v, WeightAt(n, n, p, c))
    BY <2>1, <1>5
  <2>3. n \in b..Len(heard)
    BY <2>1, <1>1, <1>2
  <2>4. QED
    BY <2>2, <2>3, <1>3, Zenon
<1>7. CASE step = "heard"
  <2>1. v = WeightAt(m, m, p, c)
    BY <1>1, <1>2, <1>4, <1>7 DEF Aged, Learned
  <2>2. m <= n /\ m \in b..Len(heard)
    BY <1>1, <1>2
  <2>3. Near(v, WeightAt(m, m, p, c))
    BY <2>1, <2>2, <1>2, <1>5
  <2>4. QED
    BY <2>2, <2>3, <1>3, Zenon
<1>8. CASE step = "decayed"
  <2>1. PICK w : w = WeightAt(m, m, p, c)
    OBVIOUS
  <2>2. v = WeightAt(m + 1, m, p, c)
    BY <1>1, <1>2, <1>4, <1>8 DEF Aged, Learned
  <2>3. m \in 0..m /\ m + 1 <= MaxHeard
    BY <1>1, <1>2, <1>8
  <2>4. v <= w /\ v * AlphaInverse >= w * (AlphaInverse - 1)
    BY <2>1, <2>2, <2>3, WeightFades
  <2>5. m \in b..Len(heard)
    BY <1>1, <1>2
  <2>6. Near(v, WeightAt(m, m, p, c))
    BY <2>1, <2>4 DEF Near
  <2>7. QED
    BY <2>5, <2>6, <1>3, Zenon
<1>9. QED
  BY <1>6, <1>7, <1>8 DEF IInv, TypeOK

LEMMA NextCellIInv ==
  ASSUME IInv, NEW c \in Symbols, NextCell(c)
  PROVE  IInv'
<1>1. /\ FollowsHistory' /\ WeightsFollow' /\ Judgements'
      /\ Learned' = Learned /\ heard' = heard /\ counts' = counts
      /\ handling' = handling /\ features' = features
  BY UntouchedKeeps DEF NextCell
<1>2. PICK r : r = export.row
  OBVIOUS
<1>3. /\ export.phase \in {"snapshot", "top"} /\ r # None
      /\ r \in DOMAIN counts
      /\ export.cells \subseteq DOMAIN counts[r]
      /\ c \in DOMAIN counts[r] /\ c \in export.cells
      /\ ~CellsChanged
      /\ DOMAIN export.dist \subseteq Pairs(Learned)
      /\ export.began \in 0..Learned
      /\ export.rows \subseteq DOMAIN counts
      /\ fingerprints' = fingerprints /\ file' = file /\ client' = client
      /\ exports' = exports /\ crashes' = crashes
      /\ daily_snapshots' = daily_snapshots
  BY <1>2 DEF NextCell, Looping, IInv, LoopsExist, stored, history
<1>4. r \in Symbols /\ counts[r][c] \in Nat
  BY <1>3 DEF IInv, TypeOK, IsWeights
<1>5. /\ export'.phase = export.phase /\ export'.rows = export.rows
      /\ export'.size = export.size /\ export'.row = r
      /\ export'.cells = export.cells \ {c}
      /\ export'.row_size = export.row_size /\ export'.states = export.states
      /\ export'.began = export.began
      /\ export'.ended = export.ended /\ export'.events = export.events
      /\ export'.complete = export.complete /\ export'.known = export.known
      /\ IF export.phase = "snapshot"
         THEN /\ export'.dist = With(export.dist, <<r, c>>, counts[r][c])
              /\ export'.top = export.top
         ELSE /\ export'.dist = export.dist
              /\ export'.top = export.top \cup {<<r, c>>}
  BY <1>2, <1>3, ExportTyped DEF IInv, NextCell
<1>6. TypeOK'
  <2>1. IsWeights(export.dist, Symbols \X Symbols)
    BY DEF IInv, TypeOK
  <2>2. IsWeights(export'.dist, Symbols \X Symbols)
    <3>1. <<r, c>> \in Symbols \X Symbols
      BY <1>4
    <3>2. PICK K : K = Symbols \X Symbols
      OBVIOUS
    <3>3. IsWeights(With(export.dist, <<r, c>>, counts[r][c]), K)
      BY <2>1, <3>1, <3>2, <1>4, WithWeight
    <3>4. QED
      BY <2>1, <3>2, <3>3, <1>5
  <2>3. export' \in Export(export'.dist)
    <3>1. export.cells \ {c} \subseteq Symbols
          /\ export.top \cup {<<r, c>>} \subseteq Symbols \X Symbols
      BY <1>4, ExportTyped DEF IInv
    <3>2. CASE export.phase = "snapshot"
      <4>1. PICK D : D = With(export.dist, <<r, c>>, counts[r][c])
        OBVIOUS
      <4>2. export' = [export EXCEPT !.cells = export.cells \ {c}, !.dist = D]
        BY <3>2, <4>1, <1>2 DEF NextCell
      <4>3. QED
        BY <3>1, <4>2, ExportTyped DEF IInv, Export
    <3>3. CASE export.phase = "top"
      <4>1. export' = [export EXCEPT !.cells = export.cells \ {c},
                                     !.top = export.top \cup {<<r, c>>}]
        BY <3>3, <1>2 DEF NextCell
      <4>2. QED
        BY <3>1, <4>1, ExportTyped DEF IInv, Export
    <3>4. QED
      BY <3>2, <3>3, <1>3
  <2>4. QED
    BY <1>3, <2>2, <2>3, UntouchedKeeps DEF IInv, TypeOK, NextCell
<1>7. DOMAIN counts[r] = {s \in Symbols : <<r, s>> \in Pairs(Learned)}
  BY <1>3 DEF IInv, FollowsHistory
<1>8. /\ export.phase = "snapshot" =>
            /\ DOMAIN export'.dist = DOMAIN export.dist \cup {<<r, c>>}
            /\ export'.dist[<<r, c>>] = counts[r][c]
            /\ \A x \in DOMAIN export.dist :
                 x # <<r, c>> => export'.dist[x] = export.dist[x]
      /\ export.phase = "top" => export'.dist = export.dist
  BY <1>3, <1>5 DEF With
<1>9. LoopsExist'
  <2>1. Pairs(Learned)' = Pairs(Learned)
    BY <1>1 DEF Pairs
  <2>2. <<r, c>> \in Pairs(Learned)
    BY <1>3, <1>7
  <2>3. DOMAIN export'.dist \subseteq Pairs(Learned)
    BY <2>2, <1>3, <1>8
  <2>4. QED
    BY <1>1, <1>3, <1>5, <2>1, <2>3 DEF LoopsExist, Looping
<1>10. SizesKept'
  <2>1. Pairs(export.began)' = Pairs(export.began)
        /\ Pairs(Len(heard))' = Pairs(Len(heard))
    BY <1>1, <1>5 DEF Pairs
  <2>2. ~CellsChanged'
    BY <1>1, <1>2, <1>3, <1>5 DEF CellsChanged
  <2>3. RowsChanged' <=> RowsChanged
    BY <1>1, <1>5 DEF RowsChanged
  <2>4. Looping
    BY <1>3 DEF Looping
  <2>5. QED
    BY <2>1, <2>2, <2>3, <2>4 DEF IInv, SizesKept
<1>11. Seen' = Seen /\ Seen \in export.began..Len(heard)
  BY <1>1, <1>3, <1>5 DEF IInv, DocumentGrows, Seen
<1>12. /\ Pairs(export.began)' = Pairs(export.began)
       /\ Pairs(export.began) \subseteq Symbols \X Symbols
  <2>1. Pairs(export.began)' = Pairs(export.began)
    BY <1>1, <1>5 DEF Pairs
  <2>2. QED
    BY <2>1, <1>3, BeforeExport
<1>13. \A x \in Symbols \X Symbols :
         /\ x = <<x[1], x[2]>>
         /\ ToVisit(x) => ToVisit(x)' \/ x = <<r, c>>
  BY <1>2, <1>5 DEF ToVisit
<1>14. DocumentGrows'
  <2>1. SnapshotGrows'
    <3> SUFFICES ASSUME NEW x \in Pairs(export.began)
                 PROVE  \/ x \in DOMAIN export'.dist
                        \/ export'.phase = "snapshot" /\ ToVisit(x)'
      BY <1>12 DEF SnapshotGrows
    <3>1. \/ x \in DOMAIN export.dist
          \/ export.phase = "snapshot" /\ ToVisit(x)
      BY <1>3 DEF IInv, DocumentGrows, SnapshotGrows
    <3>2. QED
      BY <3>1, <1>3, <1>5, <1>8, <1>12, <1>13
  <2>2. StatesGrow'
    BY <1>3, <1>5, <1>8 DEF IInv, DocumentGrows, StatesGrow
  <2>3. TopGrows'
    <3> SUFFICES ASSUME export.phase = "top", NEW x \in DOMAIN export.dist
                 PROVE  x \in export'.top \/ ToVisit(x)'
      BY <1>3, <1>5, <1>8 DEF TopGrows
    <3>1. x \in export.top \/ ToVisit(x)
      BY <1>3 DEF IInv, DocumentGrows, TopGrows
    <3>2. x \in Symbols \X Symbols
      BY ExportTyped DEF IInv
    <3>3. QED
      BY <3>1, <3>2, <1>5, <1>13
  <2>4. QED
    BY <2>1, <2>2, <2>3, <1>1, <1>5, <1>11 DEF DocumentGrows
<1>15. WeightsInTime'
  <2> SUFFICES ASSUME NEW x \in DOMAIN export'.dist
               PROVE  \E k \in export.began..Seen :
                        Near(export'.dist[x], WeightAt(k, k, x[1], x[2]))
    <3>1. \A k, p, s : WeightAt(k, k, p, s)' = WeightAt(k, k, p, s)
      BY <1>1, SameHistory
    <3>2. QED
      BY <3>1, <1>5, <1>11 DEF WeightsInTime, Near
  <2>1. CASE export.phase = "snapshot" /\ x = <<r, c>>
    <3>1. Seen = Len(heard) /\ x[1] = r /\ x[2] = c
      BY <2>1 DEF Seen
    <3>2. export'.dist[x] = counts[r][c]
      BY <2>1, <1>8
    <3>3. \E k \in export.began..Len(heard) :
            Near(counts[r][c], WeightAt(k, k, r, c))
      BY <1>3, CountInTime
    <3>4. QED
      BY <3>1, <3>2, <3>3
  <2>2. CASE ~(export.phase = "snapshot" /\ x = <<r, c>>)
    <3>1. x \in DOMAIN export.dist /\ export'.dist[x] = export.dist[x]
      BY <2>2, <1>3, <1>8
    <3>2. QED
      BY <3>1, <1>3 DEF IInv, WeightsInTime
  <2>3. QED
    BY <2>1, <2>2
<1>16. CommittedFirst'
  BY <1>3, <1>5 DEF IInv, CommittedFirst, FileFollowsDatabase
<1>17. DocumentCounted'
  <2>1. Counting /\ Counting'
    BY <1>3, <1>5 DEF Counting
  <2>2. Seen' \in 0..Len(heard)
    BY <1>3, <1>11, LearnedIs
  <2>3. <<r, c>> \in Pairs(Len(heard))
    BY <1>3, RowHeard
  <2>4. export'.states = export.states
        /\ export'.top \subseteq export.top \cup Pairs(Len(heard))
    BY <1>5, <2>3
  <2>5. QED
    BY <1>1, <2>1, <2>2, <2>4, CountedLoop
<1>18. FirstWindow' /\ Noted'
  BY <1>1, <1>3, <1>5, SameWindows
<1>19. QED
  BY <1>1, <1>3, <1>6, <1>9, <1>10, <1>14, <1>15, <1>16, <1>17, <1>18
     DEF IInv

LEMMA RowEndsIInv ==
  ASSUME IInv, RowEnds
  PROVE  IInv'
<1>1. /\ FollowsHistory' /\ WeightsFollow' /\ Judgements'
      /\ Learned' = Learned /\ heard' = heard /\ counts' = counts
      /\ handling' = handling /\ features' = features
  BY UntouchedKeeps DEF RowEnds
<1>2. /\ export.phase \in {"snapshot", "states", "top"}
      /\ export.row # None /\ export.cells = {}
      /\ DOMAIN export.dist \subseteq Pairs(Learned)
      /\ export.began \in 0..Learned
      /\ export.rows \subseteq DOMAIN counts
      /\ fingerprints' = fingerprints /\ file' = file /\ client' = client
      /\ exports' = exports /\ crashes' = crashes
      /\ daily_snapshots' = daily_snapshots
  BY DEF RowEnds, Looping, IInv, LoopsExist, stored, history
<1>3. /\ export'.phase = export.phase /\ export'.rows = export.rows
      /\ export'.size = export.size /\ export'.row = None
      /\ export'.cells = {} /\ export'.dist = export.dist
      /\ export'.row_size = export.row_size /\ export'.states = export.states
      /\ export'.top = export.top /\ export'.began = export.began
      /\ export'.ended = export.ended /\ export'.events = export.events
      /\ export'.complete = export.complete /\ export'.known = export.known
  BY <1>2, ExportTyped DEF IInv, RowEnds
<1>4. TypeOK'
  <2>1. export' \in Export(export'.dist)
    BY <1>2, <1>3, ExportTyped DEF IInv, RowEnds, Export
  <2>2. QED
    BY <1>2, <1>3, <2>1, UntouchedKeeps DEF IInv, TypeOK, RowEnds
<1>5. LoopsExist'
  <2>1. Pairs(Learned)' = Pairs(Learned)
    BY <1>1 DEF Pairs
  <2>2. QED
    BY <1>1, <1>2, <1>3, <2>1 DEF LoopsExist, Looping
<1>6. /\ Pairs(export.began)' = Pairs(export.began)
      /\ Pairs(Len(heard))' = Pairs(Len(heard))
  BY <1>1, <1>3 DEF Pairs
<1>7. SizesKept'
  <2>1. ~CellsChanged'
    BY <1>3 DEF CellsChanged
  <2>2. RowsChanged' <=> RowsChanged
    BY <1>1, <1>3 DEF RowsChanged
  <2>3. Looping
    BY <1>2 DEF Looping
  <2>4. QED
    BY <2>1, <2>2, <2>3, <1>6 DEF IInv, SizesKept
<1>8. Seen' = Seen
  BY <1>1, <1>3 DEF Seen
<1>9. \A x : ToVisit(x) => ToVisit(x)'
  BY <1>2, <1>3 DEF ToVisit
<1>10. DocumentGrows'
  <2>1. /\ Seen \in export.began..Len(heard)
        /\ SnapshotGrows /\ StatesGrow /\ TopGrows
    BY <1>2 DEF IInv, DocumentGrows
  <2>2. SnapshotGrows'
    BY <2>1, <1>3, <1>6, <1>9 DEF SnapshotGrows
  <2>3. StatesGrow' /\ TopGrows'
    BY <2>1, <1>3, <1>9 DEF StatesGrow, TopGrows
  <2>4. QED
    BY <2>1, <2>2, <2>3, <1>1, <1>3, <1>8 DEF DocumentGrows
<1>11. WeightsInTime'
  <2>1. \A k, p, s : WeightAt(k, k, p, s)' = WeightAt(k, k, p, s)
    BY <1>1, SameHistory
  <2>2. QED
    BY <2>1, <1>3, <1>8 DEF IInv, WeightsInTime, Near
<1>12. CommittedFirst'
  BY <1>2, <1>3 DEF IInv, CommittedFirst, FileFollowsDatabase
<1>13. DocumentCounted'
  <2>1. Counting /\ Counting'
    BY <1>2, <1>3 DEF Counting
  <2>2. Seen' \in 0..Len(heard)
    BY <1>2, <1>8, LearnedIs DEF IInv, DocumentGrows
  <2>3. QED
    BY <1>1, <1>3, <2>1, <2>2, CountedLoop
<1>14. FirstWindow' /\ Noted'
  BY <1>1, <1>2, <1>3, SameWindows
<1>15. QED
  BY <1>1, <1>2, <1>4, <1>5, <1>7, <1>10, <1>11, <1>12, <1>13, <1>14
     DEF IInv

LEMMA ExportBeginsIInv ==
  ASSUME IInv, ExportBegins
  PROVE  IInv'
<1>1. /\ FollowsHistory' /\ WeightsFollow' /\ Judgements'
      /\ Learned' = Learned /\ heard' = heard /\ counts' = counts
      /\ handling' = handling /\ features' = features
  BY UntouchedKeeps DEF ExportBegins
<1>2. PICK n, l \in Nat : n = Len(heard) /\ l = Learned /\ l <= n
  BY HeardType, LearnedIs DEF IInv
<1>3. /\ export'.phase = "snapshot" /\ export'.rows = DOMAIN counts
      /\ export'.size = Cardinality(DOMAIN counts) /\ export'.row = None
      /\ export'.cells = {} /\ export'.dist = Empty
      /\ export'.row_size = 0 /\ export'.states = {}
      /\ export'.top = {} /\ export'.began = l
      /\ export'.ended = 0 /\ export'.events = 0
      /\ export'.complete = (features = Features)
      /\ export'.known = (client = "stored")
      /\ DOMAIN Empty = {}
  BY <1>2 DEF ExportBegins, Loop, NoExport, Empty
<1>4. /\ fingerprints' = fingerprints /\ file' = file /\ client' = client
      /\ daily_snapshots' = daily_snapshots
  BY DEF ExportBegins, stored
<1>5. TypeOK'
  <2>1. Cardinality(DOMAIN counts) \in Nat /\ DOMAIN counts \subseteq Symbols
    <3>1. TypeOK
      BY DEF IInv
    <3>2. DOMAIN counts \subseteq Symbols
      BY <3>1 DEF TypeOK
    <3>3. QED
      BY <3>1, <3>2, RowsAreFinite
  <2>2. export' \in Export(export'.dist)
    <3>1. PICK D, s : D = DOMAIN counts /\ s = Cardinality(DOMAIN counts)
      OBVIOUS
    <3> PICK f, k \in BOOLEAN : f = (features = Features)
                                /\ k = (client = "stored")
      OBVIOUS
    <3>2. export' =
            [phase |-> "snapshot", rows |-> D, size |-> s, row |-> None,
             cells |-> {}, row_size |-> 0, dist |-> Empty,
             recorded |-> None, states |-> {}, top |-> {}, began |-> l,
             ended |-> 0, events |-> 0, complete |-> f, known |-> k]
      BY <3>1, <1>2 DEF ExportBegins, Loop, NoExport
    <3>3. QED
      BY <2>1, <3>1, <3>2, <1>2 DEF Export, Phases
  <2>3. IsWeights(export'.dist, Symbols \X Symbols)
    <3>1. Empty \in [{} -> Nat]
      BY DEF Empty
    <3>2. QED
      BY <3>1, <1>3 DEF IsWeights
  <2>4. exports' \in Nat /\ crashes' \in Nat
    <3>1. exports \in Nat /\ crashes \in Nat
      BY DEF IInv, TypeOK
    <3>2. QED
      BY <3>1 DEF ExportBegins
  <2>5. QED
    BY <2>2, <2>3, <2>4, <1>4, UntouchedKeeps DEF IInv, TypeOK, ExportBegins
<1>6. LoopsExist'
  BY <1>1, <1>2, <1>3 DEF LoopsExist, Looping
<1>7. SizesKept'
  BY <1>1, <1>3 DEF SizesKept, RowsChanged, CellsChanged
<1>8. DocumentGrows'
  <2>1. SnapshotGrows'
    <3> SUFFICES ASSUME NEW x \in Pairs(export.began)'
                 PROVE  x[1] \in DOMAIN counts
      BY <1>3 DEF SnapshotGrows, ToVisit
    <3>1. Pairs(export.began)' = Pairs(l)
      BY <1>1, <1>3 DEF Pairs
    <3>2. PICK i \in 2..l : x = <<Sym(i - 1), Sym(i)>>
      BY <3>1, PairIsHeard
    <3>3. i - 1 \in 1..(n - 1) /\ x[1] = Sym(i - 1)
      BY <3>2, <1>2
    <3>4. QED
      BY <3>3, <1>2 DEF IInv, FollowsHistory
  <2>2. Seen' \in l..n
    BY <1>1, <1>2, <1>3 DEF Seen
  <2>3. StatesGrow' /\ TopGrows'
    BY <1>3 DEF StatesGrow, TopGrows
  <2>4. QED
    BY <2>1, <2>2, <2>3, <1>1, <1>2, <1>3 DEF DocumentGrows
<1>9. WeightsInTime'
  BY <1>3 DEF WeightsInTime
<1>10. CommittedFirst'
  BY <1>3, <1>4 DEF IInv, CommittedFirst, FileFollowsDatabase
<1>11. DocumentCounted'
  <2>1. Counting' /\ Counted' = n /\ Seen' = n /\ n \in n..n
    BY <1>1, <1>2, <1>3 DEF Counting, Counted, Seen
  <2>2. QED
    BY <1>1, <1>2, <1>3, <2>1 DEF DocumentCounted
<1>12. FirstWindow' /\ Noted'
  BY <1>1, <1>3, <1>4 DEF IInv, FirstWindow, Noted
<1>13. QED
  BY <1>1, <1>4, <1>5, <1>6, <1>7, <1>8, <1>9, <1>10, <1>11, <1>12 DEF IInv

LEMMA SnapshotEndsIInv ==
  ASSUME IInv, SnapshotEnds
  PROVE  IInv'
<1>1. /\ FollowsHistory' /\ WeightsFollow' /\ Judgements'
      /\ Learned' = Learned /\ heard' = heard /\ counts' = counts
      /\ handling' = handling /\ features' = features
  BY UntouchedKeeps DEF SnapshotEnds
<1>2. PICK n \in Nat : n = Len(heard)
  BY HeardType DEF IInv
<1>3. /\ export.phase = "snapshot" /\ export.row = None /\ export.rows = {}
      /\ export.began \in 0..Learned
      /\ fingerprints' = fingerprints /\ file' = file /\ client' = client
      /\ exports' = exports /\ crashes' = crashes
  BY <1>2 DEF SnapshotEnds, Looping, IInv, LoopsExist, stored, history
<1>4. /\ export'.phase = "baseline" /\ export'.rows = export.rows
      /\ export'.dist = export.dist /\ export'.recorded = features
      /\ export'.states = export.states /\ export'.top = export.top
      /\ export'.began = export.began /\ export'.ended = n
      /\ export'.complete = export.complete /\ export'.known = export.known
  BY <1>2, ExportTyped DEF IInv, SnapshotEnds
<1>5. daily_snapshots' \in Seq(Snapshots)
      /\ Len(daily_snapshots') <= SnapshotCap
  <2>1. export.dist \in Snapshots
    BY ExportTyped DEF IInv, Snapshots
  <2>2. PICK s : s = Append(daily_snapshots, export.dist)
    OBVIOUS
  <2>3. s \in Seq(Snapshots) /\ Len(s) <= SnapshotCap + 1 /\ Len(s) # 0
    BY <2>1, <2>2 DEF IInv, TypeOK
  <2>4. Tail(s) \in Seq(Snapshots) /\ Len(Tail(s)) = Len(s) - 1
    BY <2>3
  <2>5. daily_snapshots' = Newest(s)
    BY <2>2 DEF SnapshotEnds
  <2>6. QED
    BY <2>3, <2>4, <2>5 DEF Newest
<1>6. TypeOK'
  <2>1. export' \in Export(export'.dist)
    <3>1. PICK f \in 0..Features \cup {None} : f = features
      BY DEF IInv, TypeOK
    <3>2. export' = [export EXCEPT !.phase = "baseline", !.recorded = f,
                                   !.ended = n]
      BY <3>1, <1>2 DEF SnapshotEnds
    <3>3. QED
      BY <3>1, <3>2, <1>4, ExportTyped DEF IInv, Export, Phases
  <2>2. QED
    BY <1>3, <1>4, <1>5, <2>1, UntouchedKeeps DEF IInv, TypeOK, SnapshotEnds
<1>7. LoopsExist' /\ SizesKept'
  <2>1. Pairs(Learned)' = Pairs(Learned)
    BY <1>1 DEF Pairs
  <2>2. DOMAIN export.dist \subseteq Pairs(Learned)
    BY <1>3 DEF IInv, LoopsExist
  <2>3. QED
    BY <2>1, <2>2, <1>1, <1>3, <1>4 DEF LoopsExist, SizesKept, Looping
<1>8. Seen' = Seen /\ Seen = n
  BY <1>2, <1>3, <1>4 DEF Seen
<1>9. DocumentGrows'
  <2>1. SnapshotGrows'
    <3>1. Pairs(export.began)' = Pairs(export.began)
          /\ Pairs(export.began) \subseteq Symbols \X Symbols
      <4>1. Pairs(export.began)' = Pairs(export.began)
        BY <1>1, <1>4 DEF Pairs
      <4>2. QED
        BY <4>1, <1>3, BeforeExport
    <3>2. \A x \in Symbols \X Symbols : ~ToVisit(x)
      BY <1>3 DEF ToVisit
    <3>3. SnapshotGrows
      BY <1>3 DEF IInv, DocumentGrows
    <3>4. QED
      BY <3>1, <3>2, <3>3, <1>4 DEF SnapshotGrows
  <2>2. StatesGrow' /\ TopGrows'
    BY <1>4 DEF StatesGrow, TopGrows
  <2>3. Seen \in export.began..n
    BY <1>2, <1>3 DEF IInv, DocumentGrows
  <2>4. QED
    BY <2>1, <2>2, <2>3, <1>1, <1>2, <1>4, <1>8 DEF DocumentGrows
<1>10. DocumentCounted'
  <2>1. Counting /\ Counting'
    BY <1>3, <1>4 DEF Counting
  <2>2. Seen' \in 0..Len(heard)
    BY <1>2, <1>8
  <2>3. QED
    BY <1>1, <1>4, <2>1, <2>2, CountedLoop
<1>11. WeightsInTime'
  <2>1. \A k, p, s : WeightAt(k, k, p, s)' = WeightAt(k, k, p, s)
    BY <1>1, SameHistory
  <2>2. QED
    BY <2>1, <1>3, <1>4, <1>8 DEF IInv, WeightsInTime, Near
<1>12. CommittedFirst'
  BY <1>3, <1>4 DEF IInv, CommittedFirst, FileFollowsDatabase
<1>13. FirstWindow' /\ Noted'
  BY <1>1, <1>3, <1>4 DEF IInv, FirstWindow, Noted
<1>14. QED
  BY <1>1, <1>5, <1>6, <1>7, <1>9, <1>10, <1>11, <1>12, <1>13 DEF IInv

(* Every transition of the snapshot departs from a row of the contract.     *)
LEMMA SnapshotHasRows ==
  ASSUME IInv, export.phase # "idle",
         DOMAIN export.dist \subseteq Pairs(Learned),
         NEW x \in DOMAIN export.dist
  PROVE  x[1] \in DOMAIN counts
<1>1. PICK n, l \in Nat : n = Len(heard) /\ l = Learned /\ l <= n
  BY LearnedIs, HeardType DEF IInv
<1>2. PICK i \in 2..l : x = <<Sym(i - 1), Sym(i)>>
  BY <1>1, PairIsHeard
<1>3. i - 1 \in 1..(n - 1) /\ x[1] = Sym(i - 1)
  BY <1>1, <1>2
<1>4. QED
  BY <1>1, <1>3 DEF IInv, FollowsHistory

LEMMA BaselineEndsIInv ==
  ASSUME IInv, BaselineEnds
  PROVE  IInv'
<1>1. /\ FollowsHistory' /\ WeightsFollow' /\ Judgements'
      /\ Learned' = Learned /\ heard' = heard /\ counts' = counts
      /\ handling' = handling /\ features' = features
  BY UntouchedKeeps DEF BaselineEnds
<1>2. /\ export.phase = "baseline" /\ export.began \in 0..Learned
      /\ DOMAIN export.dist \subseteq Pairs(Learned)
      /\ fingerprints' = fingerprints /\ file' = file /\ client' = client
      /\ exports' = exports /\ crashes' = crashes
      /\ daily_snapshots' = daily_snapshots
  BY DEF BaselineEnds, IInv, LoopsExist, stored, history
<1>3. /\ export'.phase = "states" /\ export'.rows = DOMAIN counts
      /\ export'.size = Cardinality(DOMAIN counts) /\ export'.row = None
      /\ export'.dist = export.dist /\ export'.states = DOMAIN counts
      /\ export'.top = export.top /\ export'.began = export.began
      /\ export'.ended = export.ended
      /\ export'.complete = export.complete /\ export'.known = export.known
  BY ExportTyped DEF IInv, BaselineEnds, Loop
<1>4. TypeOK'
  <2>1. Cardinality(DOMAIN counts) \in Nat /\ DOMAIN counts \subseteq Symbols
    <3>1. TypeOK
      BY DEF IInv
    <3>2. DOMAIN counts \subseteq Symbols
      BY <3>1 DEF TypeOK
    <3>3. QED
      BY <3>1, <3>2, RowsAreFinite
  <2>2. export' \in Export(export'.dist)
    <3>1. PICK D, s : D = DOMAIN counts /\ s = Cardinality(DOMAIN counts)
      OBVIOUS
    <3>2. export' = [export EXCEPT !.phase = "states", !.rows = D, !.size = s,
                                   !.row = None, !.states = D]
      BY <3>1, ExportTyped DEF IInv, BaselineEnds, Loop
    <3>3. QED
      BY <2>1, <3>1, <3>2, <1>3, ExportTyped DEF IInv, Export, Phases
  <2>3. QED
    BY <1>2, <1>3, <2>2, UntouchedKeeps DEF IInv, TypeOK, BaselineEnds
<1>5. LoopsExist'
  <2>1. Pairs(Learned)' = Pairs(Learned)
    BY <1>1 DEF Pairs
  <2>2. QED
    BY <1>1, <1>2, <1>3, <2>1 DEF LoopsExist, Looping
<1>6. SizesKept'
  BY <1>1, <1>3 DEF SizesKept, RowsChanged, CellsChanged
<1>7. Seen' = Seen
  BY <1>2, <1>3 DEF Seen
<1>8. DocumentGrows'
  <2>1. Seen \in export.began..Len(heard) /\ SnapshotGrows
    BY <1>2 DEF IInv, DocumentGrows
  <2>2. SnapshotGrows'
    <3>1. Pairs(export.began)' = Pairs(export.began)
      BY <1>1, <1>3 DEF Pairs
    <3>2. QED
      BY <2>1, <3>1, <1>2, <1>3 DEF SnapshotGrows
  <2>3. \A x \in DOMAIN export.dist : x[1] \in DOMAIN counts
    BY <1>2, SnapshotHasRows
  <2>4. StatesGrow' /\ TopGrows'
    BY <2>3, <1>3 DEF StatesGrow, TopGrows
  <2>5. QED
    BY <2>1, <2>2, <2>4, <1>1, <1>3, <1>7 DEF DocumentGrows
<1>9. DocumentCounted'
  <2>1. Counting /\ Counting'
    BY <1>2, <1>3 DEF Counting
  <2>2. Seen' \in 0..Len(heard)
    BY <1>2, <1>7, LearnedIs DEF IInv, DocumentGrows
  <2>3. DOMAIN counts \subseteq {Sym(i) : i \in 1..Len(heard)}
    BY RowHeard
  <2>4. QED
    BY <1>1, <1>3, <2>1, <2>2, <2>3, CountedLoop
<1>10. WeightsInTime'
  <2>1. \A k, p, s : WeightAt(k, k, p, s)' = WeightAt(k, k, p, s)
    BY <1>1, SameHistory
  <2>2. QED
    BY <2>1, <1>2, <1>3, <1>7 DEF IInv, WeightsInTime, Near
<1>11. CommittedFirst'
  BY <1>2, <1>3 DEF IInv, CommittedFirst, FileFollowsDatabase
<1>12. FirstWindow' /\ Noted'
  BY <1>1, <1>2, <1>3, SameWindows
<1>13. QED
  BY <1>1, <1>2, <1>4, <1>5, <1>6, <1>8, <1>9, <1>10, <1>11, <1>12 DEF IInv

LEMMA StatesEndIInv ==
  ASSUME IInv, StatesEnd
  PROVE  IInv'
<1>1. /\ FollowsHistory' /\ WeightsFollow' /\ Judgements'
      /\ Learned' = Learned /\ heard' = heard /\ counts' = counts
      /\ handling' = handling /\ features' = features
  BY UntouchedKeeps DEF StatesEnd
<1>2. /\ export.phase = "states" /\ export.rows = {}
      /\ DOMAIN export.dist \subseteq Pairs(Learned)
      /\ export.began \in 0..Learned
      /\ fingerprints' = fingerprints /\ file' = file /\ client' = client
      /\ exports' = exports /\ crashes' = crashes
      /\ daily_snapshots' = daily_snapshots
  BY DEF StatesEnd, Looping, IInv, LoopsExist, stored, history
<1>3. /\ export'.phase = "top" /\ export'.rows = DOMAIN counts
      /\ export'.size = Cardinality(DOMAIN counts) /\ export'.row = None
      /\ export'.cells = export.cells /\ export'.dist = export.dist
      /\ export'.row_size = export.row_size
      /\ export'.states = export.states
      /\ export'.top = export.top /\ export'.began = export.began
      /\ export'.ended = export.ended /\ export'.events = export.events
      /\ export'.complete = export.complete /\ export'.known = export.known
  BY ExportTyped DEF IInv, StatesEnd, Loop
<1>4. TypeOK'
  <2>1. Cardinality(DOMAIN counts) \in Nat /\ DOMAIN counts \subseteq Symbols
    <3>1. TypeOK
      BY DEF IInv
    <3>2. DOMAIN counts \subseteq Symbols
      BY <3>1 DEF TypeOK
    <3>3. QED
      BY <3>1, <3>2, RowsAreFinite
  <2>2. export' \in Export(export'.dist)
    BY <2>1, <1>3, ExportTyped DEF IInv, StatesEnd, Loop, Export, Phases
  <2>3. QED
    BY <1>2, <1>3, <2>2, UntouchedKeeps DEF IInv, TypeOK, StatesEnd
<1>5. LoopsExist'
  <2>1. Pairs(Learned)' = Pairs(Learned)
    BY <1>1 DEF Pairs
  <2>2. QED
    BY <1>1, <1>2, <1>3, <2>1 DEF LoopsExist, Looping
<1>6. SizesKept'
  BY <1>1, <1>3 DEF SizesKept, RowsChanged, CellsChanged
<1>7. Seen' = Seen
  BY <1>2, <1>3 DEF Seen
<1>8. DocumentGrows'
  <2>1. /\ Seen \in export.began..Len(heard)
        /\ SnapshotGrows /\ StatesGrow
    BY <1>2 DEF IInv, DocumentGrows
  <2>2. SnapshotGrows'
    <3>1. Pairs(export.began)' = Pairs(export.began)
      BY <1>1, <1>3 DEF Pairs
    <3>2. QED
      BY <2>1, <3>1, <1>2, <1>3 DEF SnapshotGrows
  <2>3. StatesGrow'
    BY <2>1, <1>2, <1>3 DEF StatesGrow
  <2>4. \A x \in DOMAIN export.dist : x[1] \in DOMAIN counts
    BY <1>2, SnapshotHasRows
  <2>5. TopGrows'
    BY <2>4, <1>3 DEF TopGrows, ToVisit
  <2>6. QED
    BY <2>1, <2>2, <2>3, <2>5, <1>1, <1>3, <1>7 DEF DocumentGrows
<1>9. WeightsInTime'
  <2>1. \A k, p, s : WeightAt(k, k, p, s)' = WeightAt(k, k, p, s)
    BY <1>1, SameHistory
  <2>2. QED
    BY <2>1, <1>2, <1>3, <1>7 DEF IInv, WeightsInTime, Near
<1>10. CommittedFirst'
  BY <1>2, <1>3 DEF IInv, CommittedFirst, FileFollowsDatabase
<1>11. DocumentCounted'
  <2>1. Counting /\ Counting'
    BY <1>2, <1>3 DEF Counting
  <2>2. Seen' \in 0..Len(heard)
    BY <1>2, <1>7, LearnedIs DEF IInv, DocumentGrows
  <2>3. QED
    BY <1>1, <1>3, <2>1, <2>2, CountedLoop
<1>12. FirstWindow' /\ Noted'
  BY <1>1, <1>2, <1>3, SameWindows
<1>13. QED
  BY <1>1, <1>2, <1>4, <1>5, <1>6, <1>8, <1>9, <1>10, <1>11, <1>12 DEF IInv

(* The export's thread no longer looks at the contract.                     *)
LEMMA DocumentStep ==
  ASSUME IInv, Untouched, UNCHANGED <<daily_snapshots, history>>,
         export.phase \notin {"idle", "snapshot", "baseline", "states"},
         export'.phase \in {"client", "insert", "commit", "write", "close"},
         export' = [export EXCEPT !.phase = export'.phase, !.top = export'.top,
                                  !.events = export'.events],
         export'.events \in Nat, export'.top \subseteq export.top,
         client' \in {None, "loop", "export", "stored"}
  PROVE  /\ TypeOK' /\ FollowsHistory' /\ WeightsFollow' /\ Judgements'
         /\ LoopsExist' /\ SizesKept' /\ DocumentGrows' /\ WeightsInTime'
         /\ daily_snapshots' \in Seq(Snapshots)
         /\ handling' = handling /\ features' = features
         /\ export'.complete = export.complete /\ export'.known = export.known
<1>1. /\ FollowsHistory' /\ WeightsFollow' /\ Judgements'
      /\ heard' = heard /\ counts' = counts /\ Learned' = Learned
      /\ handling' = handling /\ features' = features
  BY UntouchedKeeps
<1>2. /\ export'.rows = export.rows /\ export'.size = export.size
      /\ export'.row = export.row /\ export'.cells = export.cells
      /\ export'.row_size = export.row_size /\ export'.dist = export.dist
      /\ export'.states = export.states
      /\ export'.began = export.began /\ export'.ended = export.ended
      /\ export'.complete = export.complete /\ export'.known = export.known
  BY ExportTyped DEF IInv
<1>3. TypeOK'
  <2>1. PICK p, v, t : p = export'.phase /\ v = export'.events
                       /\ t = export'.top
    OBVIOUS
  <2>2. /\ export' = [export EXCEPT !.phase = p, !.top = t, !.events = v]
        /\ p \in Phases /\ v \in Nat /\ t \subseteq Symbols \X Symbols
    BY <2>1, ExportTyped DEF IInv, Phases
  <2>3. export' \in Export(export'.dist)
    BY <2>2, <1>2, ExportTyped DEF IInv, Export
  <2>4. QED
    BY <1>2, <2>3, UntouchedKeeps DEF IInv, TypeOK, history
<1>4. LoopsExist' /\ SizesKept' /\ ~Looping'
  <2>1. Pairs(Learned)' = Pairs(Learned)
    BY <1>1 DEF Pairs
  <2>2. QED
    BY <1>1, <1>2, <2>1 DEF IInv, LoopsExist, SizesKept, Looping
<1>5. Seen' = Seen
  BY <1>2 DEF Seen
<1>6. DocumentGrows'
  <2>1. Seen \in export.began..Len(heard) /\ SnapshotGrows /\ StatesGrow
    BY DEF IInv, DocumentGrows
  <2>2. SnapshotGrows'
    <3>1. Pairs(export.began)' = Pairs(export.began)
      BY <1>1, <1>2 DEF Pairs
    <3>2. QED
      BY <2>1, <3>1, <1>2 DEF SnapshotGrows
  <2>3. StatesGrow' /\ TopGrows'
    BY <2>1, <1>2 DEF StatesGrow, TopGrows
  <2>4. QED
    BY <2>1, <2>2, <2>3, <1>1, <1>2, <1>5 DEF DocumentGrows
<1>7. WeightsInTime'
  <2>1. \A k, p, s : WeightAt(k, k, p, s)' = WeightAt(k, k, p, s)
    BY <1>1, SameHistory
  <2>2. QED
    BY <2>1, <1>2, <1>5 DEF IInv, WeightsInTime, Near
<1>8. QED
  BY <1>1, <1>2, <1>3, <1>4, <1>6, <1>7 DEF IInv

LEMMA TopEndsIInv ==
  ASSUME IInv, TopEnds
  PROVE  IInv'
<1>1. PICK kept \in Cuts(export.top) :
        export' = [Advanced EXCEPT !.top = kept, !.events = event_count]
  BY DEF TopEnds
<1>2. /\ export' = [export EXCEPT !.phase = "client", !.top = kept,
                                  !.events = event_count]
      /\ export.phase = "top" /\ export.rows = {} /\ export.row = None
      /\ export'.phase = "client" /\ export'.events = event_count
      /\ export'.top = kept /\ export'.states = export.states
      /\ export'.began = export.began /\ export'.ended = export.ended
      /\ client' = client
  BY <1>1, ExportTyped DEF IInv, TopEnds, Advanced, After, stored
<1>3. /\ kept \subseteq export.top
      /\ kept = export.top \/ Cardinality(kept) = TopTransitions
  BY <1>1 DEF Cuts
<1>4. PICK n \in Nat : n = Len(heard) /\ event_count = n
  BY HeardType DEF IInv, FollowsHistory
<1>5. /\ TypeOK' /\ FollowsHistory' /\ WeightsFollow' /\ Judgements'
      /\ LoopsExist' /\ SizesKept' /\ DocumentGrows' /\ WeightsInTime'
      /\ daily_snapshots' \in Seq(Snapshots)
      /\ handling' = handling /\ features' = features
      /\ export'.complete = export.complete /\ export'.known = export.known
  <2>1. export' = [export EXCEPT !.phase = export'.phase, !.top = export'.top,
                                 !.events = export'.events]
    BY <1>2
  <2>2. Untouched /\ UNCHANGED <<daily_snapshots, history>>
    BY DEF TopEnds
  <2>3. client' \in {None, "loop", "export", "stored"}
    BY <1>2 DEF IInv, TypeOK
  <2>4. QED
    BY <1>2, <1>3, <1>4, <2>1, <2>2, <2>3, DocumentStep
<1>6. CommittedFirst'
  BY <1>2 DEF IInv, CommittedFirst, FileFollowsDatabase, TopEnds, stored
<1>7. DocumentCounted'
  <2>1. heard' = heard
    BY DEF TopEnds, Untouched
  <2>2. /\ Counted = n /\ Counted' = n /\ Seen' = Seen /\ ~Counting'
    BY <1>2, <1>4 DEF Counting, Counted, Seen
  <2>3. /\ n \in Seen..n /\ export.states \subseteq {Sym(i) : i \in 1..n}
        /\ export.top \subseteq Pairs(n)
    BY <2>2, <1>2, <1>4 DEF IInv, DocumentCounted
  <2>4. Pairs(Counted)' = Pairs(n)
        /\ Pairs(export.began)' = Pairs(export.began)
    BY <2>1, <2>2, <1>2 DEF Pairs
  <2>5. {Sym(i)' : i \in 1..n} = {Sym(i) : i \in 1..n}
    BY <2>1 DEF Sym
  <2>6. Pairs(export.began) \subseteq export.top
    <3>1. export.began \in 0..Learned /\ SnapshotGrows /\ TopGrows
      BY <1>2 DEF IInv, LoopsExist, DocumentGrows
    <3>2. Pairs(export.began) \subseteq Symbols \X Symbols
      BY <3>1, BeforeExport
    <3>3. \A x \in Symbols \X Symbols : ~ToVisit(x)
      BY <1>2 DEF ToVisit
    <3>4. QED
      BY <3>1, <3>2, <3>3, <1>2 DEF SnapshotGrows, TopGrows
  <2>7. QED
    BY <2>1, <2>2, <2>3, <2>4, <2>5, <2>6, <1>2, <1>3, <1>4
       DEF DocumentCounted
<1>8. FirstWindow' /\ Noted'
  BY <1>2, <1>5, SameWindows
<1>9. QED
  BY <1>5, <1>6, <1>7, <1>8 DEF IInv

(* The document is there; what follows passes it on.                        *)
LEMMA DocumentKept ==
  ASSUME IInv, Untouched, UNCHANGED <<daily_snapshots, history>>,
         export.phase \in {"client", "insert", "commit", "write"},
         export'.phase \in {"insert", "commit", "write", "close"},
         export' = [export EXCEPT !.phase = export'.phase],
         client' \in {None, "loop", "export", "stored"},
         CommittedFirst', FirstWindow', Noted'
  PROVE  IInv'
<1>1. /\ export'.top = export.top /\ export'.events = export.events
      /\ export'.states = export.states /\ export'.began = export.began
      /\ export'.ended = export.ended /\ export.events \in Nat
  BY ExportTyped DEF IInv
<1>2. /\ TypeOK' /\ FollowsHistory' /\ WeightsFollow' /\ Judgements'
      /\ LoopsExist' /\ SizesKept' /\ DocumentGrows' /\ WeightsInTime'
      /\ daily_snapshots' \in Seq(Snapshots)
  <2>1. export' = [export EXCEPT !.phase = export'.phase, !.top = export'.top,
                                 !.events = export'.events]
    BY <1>1, ExportTyped DEF IInv
  <2>2. QED
    BY <1>1, <2>1, DocumentStep
<1>3. DocumentCounted'
  <2>1. heard' = heard
    BY DEF Untouched
  <2>2. Counted' = Counted /\ Seen' = Seen /\ ~Counting /\ ~Counting'
    BY <1>1 DEF Counted, Seen, Counting
  <2>3. Pairs(Counted)' = Pairs(Counted)
        /\ Pairs(export.began)' = Pairs(export.began)
    BY <2>1, <2>2, <1>1 DEF Pairs
  <2>4. {Sym(i)' : i \in 1..Counted'} = {Sym(i) : i \in 1..Counted}
    BY <2>1, <2>2 DEF Sym
  <2>5. DocumentCounted
    BY DEF IInv
  <2>6. QED
    BY <2>1, <2>2, <2>3, <2>4, <2>5, <1>1 DEF DocumentCounted
<1>4. QED
  BY <1>2, <1>3 DEF IInv

LEMMA ExportFindsClientIInv ==
  ASSUME IInv, ExportFindsClient
  PROVE  IInv'
<1>1. /\ export' = [export EXCEPT !.phase = export'.phase]
      /\ export.phase = "client" /\ client' = client
      /\ \/ client = "stored" /\ export'.phase = "commit"
         \/ client # "stored" /\ export'.phase = "insert"
      /\ export'.complete = export.complete /\ export'.known = export.known
  BY ExportTyped DEF IInv, ExportFindsClient, Advanced, After, stored
<1>2. handling' = handling /\ features' = features
  BY UntouchedKeeps DEF ExportFindsClient
<1>3. FirstWindow' /\ Noted'
  BY <1>1, <1>2 DEF IInv, FirstWindow, Noted
<1>4. CommittedFirst'
  BY <1>1 DEF IInv, CommittedFirst, FileFollowsDatabase, ExportFindsClient,
              stored
<1>5. QED
  BY <1>1, <1>3, <1>4, DocumentKept DEF ExportFindsClient, IInv, TypeOK

LEMMA ExportInsertsClientIInv ==
  ASSUME IInv, ExportInsertsClient
  PROVE  IInv'
<1>1. /\ export' = [export EXCEPT !.phase = export'.phase]
      /\ export.phase = "insert" /\ client = None /\ client' = "export"
      /\ export'.phase = "commit"
      /\ export'.complete = export.complete /\ export'.known = export.known
  BY ExportTyped DEF IInv, ExportInsertsClient, Advanced, After
<1>2. handling' = handling /\ features' = features
  BY UntouchedKeeps DEF ExportInsertsClient
<1>3. FirstWindow' /\ Noted'
  BY <1>1, <1>2, ContractAssumption DEF IInv, FirstWindow, Noted
<1>4. CommittedFirst'
  BY <1>1 DEF IInv, CommittedFirst, FileFollowsDatabase, ExportInsertsClient
<1>5. QED
  BY <1>1, <1>3, <1>4, DocumentKept DEF ExportInsertsClient

LEMMA CommitRowIInv ==
  ASSUME IInv, CommitRow
  PROVE  IInv'
<1>1. /\ export' = [export EXCEPT !.phase = export'.phase]
      /\ export.phase = "commit" /\ export'.phase = "write"
      /\ export'.events = export.events /\ export'.states = export.states
      /\ export'.top = export.top /\ client' = "stored"
      /\ export'.complete = export.complete /\ export'.known = export.known
  BY ExportTyped DEF IInv, CommitRow, Advanced, After
<1>2. handling' = handling /\ features' = features
  BY UntouchedKeeps DEF CommitRow
<1>3. FirstWindow' /\ Noted'
  BY <1>1, <1>2 DEF IInv, FirstWindow, Noted
<1>4. CommittedFirst'
  BY <1>1 DEF IInv, CommittedFirst, FileFollowsDatabase, CommitRow, Doc
<1>5. QED
  BY <1>1, <1>3, <1>4, DocumentKept DEF CommitRow

LEMMA OpenFileIInv ==
  ASSUME IInv, OpenFile
  PROVE  IInv'
<1>1. /\ export' = [export EXCEPT !.phase = export'.phase]
      /\ export.phase = "write" /\ export'.phase = "close"
      /\ export'.events = export.events /\ export'.states = export.states
      /\ export'.top = export.top /\ client' = client
      /\ export'.complete = export.complete /\ export'.known = export.known
  BY ExportTyped DEF IInv, OpenFile, Advanced, After
<1>2. handling' = handling /\ features' = features
  BY UntouchedKeeps DEF OpenFile
<1>3. FirstWindow' /\ Noted'
  BY <1>1, <1>2, SameWindows
<1>4. CommittedFirst'
  BY <1>1 DEF IInv, CommittedFirst, FileFollowsDatabase, OpenFile, Doc
<1>5. QED
  BY <1>1, <1>3, <1>4, DocumentKept DEF OpenFile, IInv, TypeOK

LEMMA CloseFileIInv ==
  ASSUME IInv, CloseFile
  PROVE  IInv'
<1>1. export' = NoExport /\ NoExport.phase = "idle" /\ export.phase = "close"
  BY DEF CloseFile, Advanced, After, NoExport
<1>2. /\ FollowsHistory' /\ WeightsFollow' /\ Judgements'
      /\ handling' = handling /\ features' = features /\ client' = client
  BY UntouchedKeeps DEF CloseFile
<1>3. TypeOK'
  <2>1. NoExport \in Export(NoExport.dist)
        /\ IsWeights(NoExport.dist, Symbols \X Symbols)
    BY DEF NoExport, Export, Phases, IsWeights, Empty
  <2>2. daily_snapshots' = daily_snapshots /\ exports' = exports
        /\ crashes' = crashes
    BY DEF CloseFile, history
  <2>3. QED
    BY <1>1, <1>2, <2>1, <2>2, UntouchedKeeps DEF IInv, TypeOK, CloseFile
<1>4. LoopsExist' /\ SizesKept' /\ DocumentGrows' /\ DocumentCounted'
      /\ WeightsInTime'
  BY <1>1 DEF LoopsExist, SizesKept, DocumentGrows, DocumentCounted,
              WeightsInTime, Looping
<1>5. CommittedFirst'
  BY <1>1 DEF IInv, CommittedFirst, FileFollowsDatabase, CloseFile
<1>6. daily_snapshots' \in Seq(Snapshots)
  BY DEF IInv, CloseFile
<1>7. FirstWindow' /\ Noted'
  BY <1>1, <1>2 DEF IInv, FirstWindow, Noted, NoExport
<1>8. QED
  BY <1>2, <1>3, <1>4, <1>5, <1>6, <1>7 DEF IInv

LEMMA StutterIInv ==
  ASSUME IInv, UNCHANGED vars
  PROVE  IInv'
<1>1. Untouched /\ export' = export /\ daily_snapshots' = daily_snapshots
      /\ client' = client /\ fingerprints' = fingerprints /\ file' = file
      /\ exports' = exports /\ crashes' = crashes
  BY DEF vars, Untouched, stored, history
<1>2. /\ FollowsHistory' /\ WeightsFollow' /\ Judgements'
      /\ Learned' = Learned /\ heard' = heard /\ counts' = counts
      /\ handling' = handling /\ features' = features
  BY <1>1, UntouchedKeeps
<1>3. TypeOK'
  BY <1>1, UntouchedKeeps DEF IInv, TypeOK
<1>4. /\ \A k : Pairs(k)' = Pairs(k) /\ Sym(k)' = Sym(k)
      /\ \A d, k, p, c : WeightAt(d, k, p, c)' = WeightAt(d, k, p, c)
  BY <1>2, SameHistory
<1>5. Len(heard) <= Len(heard') /\ Learned <= Learned'
  BY <1>2, LearnedIs, HeardType DEF IInv
<1>6. ExportKept'
  BY <1>1, <1>2, <1>3, <1>4, <1>5, ObserveStep
<1>7. FirstWindow' /\ Noted'
  BY <1>1, <1>2, SameWindows
<1>8. QED
  BY <1>1, <1>2, <1>3, <1>6, <1>7 DEF IInv, ExportKept

LEMMA NextIInv == IInv /\ [Next]_vars => IInv'
<1> SUFFICES ASSUME IInv, [Next]_vars PROVE IInv'
  OBVIOUS
<1>1. ASSUME NEW sym \in Symbols, NEW ts \in Times, Hear(sym, ts)
      PROVE  IInv'
  BY <1>1, HearIInv
<1>2. CASE Decay
  BY <1>2, DecayIInv
<1>3. CASE Learn
  BY <1>3, LearnIInv
<1>4. CASE CloseWindow
  BY <1>4, CloseWindowIInv
<1>5. CASE ExportBegins
  BY <1>5, ExportBeginsIInv
<1>6. ASSUME NEW s \in Symbols, NextRow(s) \/ NextCell(s)
      PROVE  IInv'
  BY <1>6, NextRowIInv, NextCellIInv
<1>7. CASE RowEnds
  BY <1>7, RowEndsIInv
<1>8. CASE SnapshotEnds
  BY <1>8, SnapshotEndsIInv
<1>9. CASE StatesEnd
  BY <1>9, StatesEndIInv
<1>10. CASE TopEnds
  BY <1>10, TopEndsIInv
<1>11. CASE ExportRaises \/ WindowRaises \/ Crash
  BY <1>11, ForgetIInv DEF ExportRaises, WindowRaises, Crash
<1>12. CASE CommitRow
  BY <1>12, CommitRowIInv
<1>13. CASE OpenFile
  BY <1>13, OpenFileIInv
<1>14. CASE CloseFile
  BY <1>14, CloseFileIInv
<1>15. CASE \/ WindowFindsClient \/ WindowInsertsClient
            \/ RecordFeature \/ CommitWindow
  BY <1>15, WindowIInv
<1>16. CASE BaselineEnds
  BY <1>16, BaselineEndsIInv
<1>17. CASE ExportFindsClient
  BY <1>17, ExportFindsClientIInv
<1>18. CASE ExportInsertsClient
  BY <1>18, ExportInsertsClientIInv
<1>19. CASE UNCHANGED vars
  BY <1>19, StutterIInv
<1>20. QED
  BY <1>1, <1>2, <1>3, <1>4, <1>5, <1>6, <1>7, <1>8, <1>9, <1>10, <1>11,
     <1>12, <1>13, <1>14, <1>15, <1>16, <1>17, <1>18, <1>19 DEF Next

LEMMA Inductive == Spec => []IInv
<1>1. Init => IInv
  BY InitIInv
<1>2. QED
  BY <1>1, NextIInv, PTL DEF Spec

-----------------------------------------------------------------------------
(* What the model promises.                                                 *)

(* Every variable, the export's half-built document too, stays in its range:*)
(* no weight is negative, no row or cell outside the alphabet, no more      *)
(* snapshots than the cap.                                                  *)
THEOREM TypeCorrect == Spec => []TypeOK
<1>1. IInv => TypeOK
  BY DEF IInv
<1>2. QED
  BY <1>1, Inductive, PTL

(* The contract is a function of the events heard in this life, whatever    *)
(* they were and however many: its weights, the end of its learning and the *)
(* smoothed distributions observe and score compute from it.                *)
THEOREM FollowsEvents == Spec => []ContractFollowsEvents
<1>1. ASSUME IInv PROVE ContractFollowsEvents
  <2> SUFFICES ASSUME step = "idle"
               PROVE  /\ \A p, c \in Symbols :
                           Count(p, c) = Weight(Len(heard), p, c)
                      /\ learning_complete <=> LearnedBy(Len(heard))
                      /\ \A p \in DOMAIN counts :
                           Sum([c \in vocab |-> Prob(p, c).num])
                             = Sum(counts[p]) + Cardinality(vocab) * Unit
    BY DEF ContractFollowsEvents
  <2>1. PICK n \in Nat : n = Len(heard) /\ n <= MaxHeard
    BY <1>1, HeardType DEF IInv, FollowsHistory
  <2>2. Learned = n /\ Aged = n
    BY <2>1 DEF Learned, Aged
  <2>3. ASSUME NEW p \in Symbols, NEW c \in Symbols
        PROVE  Count(p, c) = Weight(n, p, c)
    <3>1. Weight(n, p, c) = WeightAt(n, n, p, c)
      BY WeightIsAt
    <3>2. CASE p \in DOMAIN counts /\ c \in DOMAIN counts[p]
      BY <3>1, <3>2, <1>1, <2>2 DEF Count, IInv, WeightsFollow
    <3>3. CASE ~(p \in DOMAIN counts /\ c \in DOMAIN counts[p])
      <4>1. <<p, c>> \notin Pairs(n)
        <5> SUFFICES ASSUME <<p, c>> \in Pairs(n) PROVE FALSE
          OBVIOUS
        <5>1. PICK i \in 2..n : <<p, c>> = <<Sym(i - 1), Sym(i)>>
          BY PairIsHeard
        <5>2. p = Sym(i - 1) /\ i - 1 \in 1..(n - 1)
          BY <5>1
        <5>3. p \in DOMAIN counts
          BY <5>2, <1>1, <2>1 DEF IInv, FollowsHistory
        <5>4. c \in DOMAIN counts[p]
          BY <5>3, <1>1, <2>2 DEF IInv, FollowsHistory
        <5>5. QED
          BY <3>3, <5>3, <5>4
      <4>2. WeightAt(n, n, p, c) = 0
        BY <4>1, Weightless
      <4>3. QED
        BY <3>1, <3>3, <4>2 DEF Count
    <3>4. QED
      BY <3>2, <3>3
  <2>4. learning_complete <=> LearnedBy(n)
    BY <1>1, <2>2 DEF IInv, FollowsHistory
  <2>5. ASSUME NEW p \in DOMAIN counts
        PROVE  Sum([c \in vocab |-> Prob(p, c).num])
                 = Sum(counts[p]) + Cardinality(vocab) * Unit
    <3>1. PICK row : row = counts[p]
      OBVIOUS
    <3>2. /\ row \in [DOMAIN row -> Nat]
          /\ DOMAIN row \subseteq vocab
          /\ IsFiniteSet(vocab)
      <4>1. vocab \in SUBSET Symbols
        BY <1>1 DEF IInv, TypeOK
      <4>2. IsFiniteSet(vocab)
        BY <4>1, FS_Subset
      <4>3. QED
        BY <3>1, <4>2, <1>1 DEF IInv, TypeOK, FollowsHistory, IsWeights
    <3>3. row # Empty
      <4>1. PICK i \in 1..(n - 1) : p = Sym(i)
        BY <1>1, <2>1 DEF IInv, FollowsHistory
      <4>2. <<p, Sym(i + 1)>> \in Pairs(n)
        <5>1. i + 1 \in 2..n /\ (i + 1) - 1 = i
          OBVIOUS
        <5>2. QED
          BY <4>1, <5>1 DEF Pairs, Sym
      <4>3. Sym(i + 1) \in Symbols
        BY <1>1, <2>1, HeardType, EventAt DEF IInv, Sym
      <4>4. Sym(i + 1) \in DOMAIN row
        BY <3>1, <4>2, <4>3, <1>1, <2>2 DEF IInv, FollowsHistory
      <4>5. QED
        BY <4>4 DEF Empty
    <3>4. PICK u \in Nat : u = Unit
      BY UnitType
    <3>5. \A c \in vocab :
            Prob(p, c).num = (IF c \in DOMAIN row THEN row[c] ELSE 0) + u
      BY <3>1, <3>3, <3>4 DEF Prob
    <3>6. [c \in vocab |-> Prob(p, c).num]
            = [c \in vocab |-> (IF c \in DOMAIN row THEN row[c] ELSE 0) + u]
      BY <3>5
    <3>7. PICK D, S : D = vocab /\ S = DOMAIN row
      OBVIOUS
    <3>8. IsFiniteSet(D) /\ S \in SUBSET D /\ row \in [S -> Nat]
      BY <3>2, <3>7
    <3>9. Sum([c \in D |-> (IF c \in S THEN row[c] ELSE 0) + u])
            = Sum(row) + Cardinality(D) * u
      BY <3>8, SumSmoothed
    <3>10. QED
      BY <3>1, <3>4, <3>6, <3>7, <3>9
  <2>6. QED
    BY <2>1, <2>3, <2>4, <2>5
<1>2. QED
  BY <1>1, Inductive, PTL

(* However the windows fall, a client is enforced at most once on behaviour *)
(* the contract was still learning.                                         *)
THEOREM JudgedOnce == Spec => []LearnedIsJudgedOnce
<1>1. ASSUME IInv PROVE LearnedIsJudgedOnce
  <2> DEFINE M == {i \in DOMAIN judged : Mixed(judged[i])}
  <2>1. DOMAIN judged = 1..Len(judged) /\ Len(judged) \in Nat
    BY <1>1 DEF IInv, TypeOK
  <2>2. ASSUME NEW i \in M, NEW j \in M, i < j PROVE FALSE
    <3>1. ~judged[i].learning /\ \E k \in judged[j].events : heard[k].learned
      BY DEF Mixed
    <3>2. i \in 1..Len(judged) /\ j \in (i + 1)..Len(judged)
      BY <2>1, <2>2
    <3>3. QED
      BY <3>1, <3>2, <1>1 DEF IInv, Judgements
  <2>3. \A i, j \in M : i = j
    BY <2>1, <2>2
  <2>4. Cardinality(M) <= 1
    <3>1. CASE M = {}
      BY <3>1, FS_EmptySet
    <3>2. CASE M # {}
      <4>1. PICK i : M = {i}
        BY <3>2, <2>3
      <4>2. Cardinality({i}) = 1
        BY FS_Singleton
      <4> HIDE DEF M
      <4>3. QED
        BY <4>1, <4>2
    <3>3. QED
      BY <3>1, <3>2
  <2>5. QED
    BY <2>4 DEF LearnedIsJudgedOnce
<1>2. QED
  BY <1>1, Inductive, PTL

LEMMA MaxIs ==
  ASSUME NEW S, S \subseteq Nat, IsFiniteSet(S), S # {}
  PROVE  Max(S) \in S /\ \A y \in S : y <= Max(S)
<1> DEFINE Bounded(s) == \E x \in s : \A y \in s : y <= x
           F == {s \in SUBSET S : s = {} \/ Bounded(s)}
<1>1. ASSUME NEW s \in SUBSET S, \A t \in SUBSET s : t # s => t \in F
      PROVE  s \in F
  <2> SUFFICES ASSUME s # {} PROVE Bounded(s)
    OBVIOUS
  <2>1. PICK x \in s : TRUE
    OBVIOUS
  <2>2. s \ {x} \in SUBSET s /\ s \ {x} # s
    BY <2>1
  <2>3. s \ {x} \in F
    BY <1>1, <2>2
  <2>4. CASE s \ {x} = {}
    BY <2>1, <2>4
  <2>5. CASE Bounded(s \ {x})
    <3>1. PICK z \in s \ {x} : \A y \in s \ {x} : y <= z
      BY <2>5
    <3>2. x \in Nat /\ z \in Nat /\ s \subseteq Nat
      OBVIOUS
    <3>3. CASE x <= z
      BY <3>1, <3>2, <3>3
    <3>4. CASE z < x
      <4>1. \A y \in s : y <= x
        BY <3>1, <3>2, <3>4
      <4>2. QED
        BY <4>1
    <3>5. QED
      BY <3>2, <3>3, <3>4
  <2>6. QED
    BY <2>3, <2>4, <2>5
<1> HIDE DEF F
<1>2. \A s \in SUBSET S : s \in F
  BY <1>1, SubsetsInSet
<1>3. Bounded(S)
  BY <1>2 DEF F
<1>4. \E x \in S : \A y \in S : x >= y
  BY <1>3
<1>5. QED
  BY <1>4 DEF Max

LEMMA ImageFinite ==
  ASSUME NEW S, IsFiniteSet(S), NEW f
  PROVE  IsFiniteSet({f[x] : x \in S})
<1> DEFINE Image(s) == {f[x] : x \in s}
           F == {s \in SUBSET S : IsFiniteSet(Image(s))}
<1>1. ASSUME NEW s \in SUBSET S, \A t \in SUBSET s : t # s => t \in F
      PROVE  s \in F
  <2>1. CASE s = {}
    <3>1. Image(s) = {}
      BY <2>1
    <3>2. QED
      BY <3>1, FS_EmptySet
  <2>2. CASE s # {}
    <3>1. PICK x \in s : TRUE
      BY <2>2
    <3>2. s \ {x} \in F
      BY <1>1, <3>1
    <3>3. Image(s) = Image(s \ {x}) \cup {f[x]}
      BY <3>1
    <3>4. IsFiniteSet(Image(s \ {x}) \cup {f[x]})
      BY <3>2, FS_AddElement
    <3>5. QED
      BY <3>3, <3>4
  <2>3. QED
    BY <2>1, <2>2
<1> HIDE DEF F
<1>2. \A s \in SUBSET S : s \in F
  BY <1>1, SubsetsInSet
<1>3. QED
  BY <1>2 DEF F

LEMMA MinIs ==
  ASSUME NEW S, S \subseteq Nat, S # {}
  PROVE  Min(S) \in S /\ \A y \in S : Min(S) <= y
BY LeastNat DEF Min

(* What the stability is computed from is as close to a state of the        *)
(* contract as SnapshotIsClose says, and what the document has and lacks is *)
(* what DocumentIsCoherent says, for every alphabet, decay, cut of the      *)
(* transitions and interleaving of the export with the events.              *)
LEMMA CloseSnapshot ==
  ASSUME IInv, export.phase = "baseline"
  PROVE  SnapshotIsClose
<1> DEFINE During(p, c) ==
             {Weight(n, p, c) : n \in export.began..export.ended}
<1>1. PICK n \in Nat : n = Len(heard) /\ n <= MaxHeard
  BY HeardType DEF IInv, FollowsHistory
<1>2. /\ export.began \in 0..n /\ Seen = export.ended
      /\ export.ended \in export.began..n
      /\ SnapshotGrows
  BY <1>1, LearnedIs DEF IInv, LoopsExist, DocumentGrows, Seen
<1>3. PICK b, e \in Nat : b = export.began /\ e = export.ended
                          /\ b <= e /\ e <= MaxHeard
  BY <1>1, <1>2
<1>4. \A p, c : \A k \in b..e : Weight(k, p, c) = WeightAt(k, k, p, c)
                                /\ Weight(k, p, c) \in Nat
  <2>1. \A k \in b..e : k \in 0..MaxHeard /\ k \in 0..k
    BY <1>3
  <2>2. QED
    BY <2>1, WeightIsAt, WeightType
<1>5. ASSUME NEW x \in DOMAIN export.dist
      PROVE  /\ export.dist[x] <= Max(During(x[1], x[2]))
             /\ export.dist[x] * AlphaInverse
                  >= Min(During(x[1], x[2])) * (AlphaInverse - 1)
  <2>1. PICK S : S = During(x[1], x[2])
    OBVIOUS
  <2>2. S = {Weight(k, x[1], x[2]) : k \in b..e}
    BY <2>1, <1>3
  <2>3. S \subseteq Nat /\ S # {} /\ IsFiniteSet(S)
    <3>1. S \subseteq Nat
      BY <2>2, <1>4
    <3>2. b \in b..e
      BY <1>3
    <3>3. IsFiniteSet(b..e)
      BY FS_Interval
    <3>4. PICK f : f = [k \in b..e |-> Weight(k, x[1], x[2])]
      OBVIOUS
    <3>5. S = {f[k] : k \in b..e}
      BY <2>2, <3>4
    <3>6. IsFiniteSet({f[k] : k \in b..e})
      <4>1. PICK I : I = b..e
        OBVIOUS
      <4>2. IsFiniteSet({f[k] : k \in I})
        BY <3>3, <4>1, ImageFinite
      <4>3. QED
        BY <4>1, <4>2
    <3>7. QED
      BY <2>2, <3>1, <3>2, <3>5, <3>6
  <2>4. PICK hi, lo : hi = Max(S) /\ lo = Min(S)
    OBVIOUS
  <2>5. /\ hi \in Nat /\ lo \in Nat
        /\ \A y \in S : lo <= y /\ y <= hi
    BY <2>3, <2>4, MaxIs, MinIs
  <2>6. PICK k \in b..e : Near(export.dist[x], WeightAt(k, k, x[1], x[2]))
    BY <1>2, <1>3 DEF IInv, WeightsInTime
  <2>7. PICK v, w \in Nat : v = export.dist[x] /\ w = Weight(k, x[1], x[2])
    BY <1>4, ExportTyped DEF IInv
  <2>8. w \in S /\ lo <= w /\ w <= hi
    BY <2>2, <2>5, <2>7
  <2>9. v <= w /\ v * AlphaInverse >= w * (AlphaInverse - 1)
    BY <2>6, <2>7, <1>4 DEF Near
  <2>10. v <= hi
    BY <2>5, <2>8, <2>9
  <2>11. v * AlphaInverse >= lo * (AlphaInverse - 1)
    <3>1. PICK a \in Nat : a = AlphaInverse - 1
      OBVIOUS
    <3>2. PICK d \in Nat : w = lo + d
      <4>1. w - lo \in Nat /\ w = lo + (w - lo)
        BY <2>5, <2>8
      <4>2. QED
        BY <4>1
    <3>3. w * a = lo * a + d * a
      BY <2>5, <3>2
    <3>4. lo * a \in Nat /\ d * a \in Nat /\ v * AlphaInverse \in Nat
      BY <2>5, Product
    <3>5. QED
      BY <2>9, <3>1, <3>2, <3>3, <3>4
  <2>12. QED
    BY <2>1, <2>4, <2>7, <2>10, <2>11
<1>6. Pairs(export.began) \subseteq DOMAIN export.dist
  BY <1>2, ExportTyped DEF IInv, SnapshotGrows
<1>7. QED
  BY <1>5, <1>6 DEF SnapshotIsClose

LEMMA CoherentDocument ==
  ASSUME IInv, export.phase = "client"
  PROVE  DocumentIsCoherent
<1>1. PICK n \in Nat : n = Len(heard)
  BY HeardType DEF IInv
<1>2. ~Counting /\ Counted = export.events /\ Seen = export.ended
  BY DEF Counting, Counted, Seen
<1>3. StatesGrow /\ Seen \in export.began..n
  BY <1>1 DEF IInv, DocumentGrows
<1>4. /\ export.events \in export.ended..n
      /\ export.states \subseteq {Sym(i) : i \in 1..export.events}
      /\ export.top \subseteq Pairs(export.events)
      /\ \/ Cardinality(export.top) = TopTransitions
         \/ Pairs(export.began) \subseteq export.top
  BY <1>1, <1>2 DEF IInv, DocumentCounted
<1>5. export.events >= export.ended
  BY <1>4
<1>6. \A x \in DOMAIN export.dist : {x[1], x[2]} \subseteq export.states
  BY <1>3 DEF StatesGrow
<1>7. QED
  BY <1>4, <1>5, <1>6 DEF DocumentIsCoherent, Sym

THEOREM FingerprintCoherent == Spec => []FingerprintIsCoherent
<1>1. IInv => FingerprintIsCoherent
  BY CloseSnapshot, CoherentDocument DEF FingerprintIsCoherent, After
<1>2. QED
  BY <1>1, Inductive, PTL

(* The file is a document of the database, torn or absent, wherever the     *)
(* process ends.                                                            *)
THEOREM FileFollows == Spec => []FileFollowsDatabase
<1>1. IInv => FileFollowsDatabase
  BY DEF IInv, CommittedFirst
<1>2. QED
  BY <1>1, Inductive, PTL

(* A client whose first window has been handled and that repeats itself     *)
(* never ends the worker: a dictionary in a loop grows, and an insert of    *)
(* the client's row fails, only with something that happens for the first   *)
(* time since the export began.                                             *)
THEOREM RaisesOnlyOnNovelty == Spec => ExportFailsOnlyOnNovelty
<1> DEFINE Novelty ==
             /\ LoopBroken => Pairs(Len(heard)) # Pairs(export.began)
             /\ BaselineBroken => ~export.complete
             /\ ExportInsertFails => ~export.known
             /\ WindowInsertFails => features = None
<1>1. ASSUME IInv PROVE Novelty
  <2>1. LoopBroken => Pairs(Len(heard)) # Pairs(export.began)
    BY <1>1 DEF IInv, SizesKept, LoopBroken
  <2>2. BaselineBroken => ~export.complete
    BY <1>1 DEF IInv, Noted, BaselineBroken, BaselineChanged
  <2>3. ExportInsertFails => ~export.known
    BY <1>1 DEF IInv, Noted, ExportInsertFails
  <2>4. WindowInsertFails => features = None
    BY <1>1 DEF IInv, FirstWindow, WindowInsertFails
  <2>5. QED
    BY <2>1, <2>2, <2>3, <2>4
<1>2. IInv /\ [Next]_vars => [crashes' # crashes => Novelty]_vars
  BY <1>1
<1>3. QED
  BY <1>2, Inductive, PTL DEF Spec, ExportFailsOnlyOnNovelty
====
