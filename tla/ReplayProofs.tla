---------------------------- MODULE ReplayProofs ----------------------------
(***************************************************************************)
(* That the report of Replay judges every event, and by the metrics it     *)
(* names, for all scripts, speeds and lengths of windows.                  *)
(***************************************************************************)
EXTENDS Replay, FiniteSetTheorems, SequenceTheorems, WellFoundedInduction,
        TLAPS

-----------------------------------------------------------------------------
(* Induction, over sets of naturals and of subsets: no prover here can      *)
(* instantiate a predicate, but a set of counterexamples has a least one.   *)

LEMMA LeastNat ==
  ASSUME NEW T, T \subseteq Nat, T # {}
  PROVE  \E n \in T : \A m \in T : n <= m
<1>1. PICK n \in T : \A m \in T : ~(<<m, n>> \in OpToRel(<, Nat))
  BY WFMin, NatLessThanWellFounded
<1>2. \A m \in T : <<m, n>> \in OpToRel(<, Nat) <=> m < n
  BY DEF OpToRel
<1>3. \A m \in T : ~(m < n)
  BY <1>1, <1>2, Zenon
<1>4. \A m \in T : n <= m
  BY <1>3
<1>5. QED
  BY <1>4

LEMMA NatInSet ==
  ASSUME NEW F, 0 \in F, \A n \in Nat : n \in F => n + 1 \in F
  PROVE  \A n \in Nat : n \in F
<1> SUFFICES ASSUME Nat \ F # {} PROVE FALSE
  OBVIOUS
<1>1. PICK n \in Nat \ F : \A m \in Nat \ F : n <= m
  BY LeastNat
<1>2. n # 0 /\ n - 1 \in Nat
  BY <1>1
<1>3. n - 1 \in F
  BY <1>1, <1>2
<1>4. (n - 1) + 1 = n
  BY <1>1
<1>5. QED
  BY <1>1, <1>2, <1>3, <1>4

LEMMA SubsetsInSet ==
  ASSUME NEW D, IsFiniteSet(D), NEW F,
         \A s \in SUBSET D :
           (\A t \in SUBSET s : t # s => t \in F) => s \in F
  PROVE  \A s \in SUBSET D : s \in F
<1> DEFINE Bad == (SUBSET D) \ F
           R == StrictSubsetOrdering(D)
<1> SUFFICES ASSUME Bad # {} PROVE FALSE
  OBVIOUS
<1>1. IsWellFoundedOn(R, FiniteSubsetsOf(D))
  BY FS_StrictSubsetOrderingWellFounded
<1>2. Bad \subseteq FiniteSubsetsOf(D)
  BY FS_Subset DEF FiniteSubsetsOf
<1>3. PICK s \in Bad : \A t \in Bad : ~(<<t, s>> \in R)
  <2> HIDE DEF Bad, R
  <2> QED BY <1>1, <1>2, WFMin
<1>4. ASSUME NEW t \in SUBSET s, t # s PROVE t \in F
  <2>1. <<t, s>> \in R
    BY <1>4 DEF StrictSubsetOrdering
  <2>2. QED
    BY <2>1, <1>3
<1>5. QED
  BY <1>3, <1>4

-----------------------------------------------------------------------------
(* Sums.  `partial' is the recursive function of the fold: the sum of f     *)
(* over each set of arguments, one element chosen after the other.          *)

IsPartialSum(g, f, D) ==
  g = [s \in SUBSET D |->
         IF s = {} THEN 0
         ELSE LET x == CHOOSE x \in s : TRUE IN f[x] + g[s \ {x}]]

PartialSum(f) == CHOOSE g : IsPartialSum(g, f, DOMAIN f)

Chosen(s) == CHOOSE x \in s : TRUE

LEMMA SumIsPartial == \A f : Sum(f) = PartialSum(f)[DOMAIN f]
BY DEF Sum, MapThenSumSet, MapThenFoldSet, PartialSum, IsPartialSum

LEMMA PartialSumsExist ==
  ASSUME NEW D, IsFiniteSet(D), NEW f \in [D -> Nat]
  PROVE  \E g : IsPartialSum(g, f, D)
<1> DEFINE Small(n) == {s \in SUBSET D : Cardinality(s) <= n}
           Unfold(g, s) == IF s = {} THEN 0
                         ELSE f[Chosen(s)] + g[s \ {Chosen(s)}]
           Upto(n, g) == /\ g \in [Small(n) -> Nat]
                         /\ \A s \in Small(n) : g[s] = Unfold(g, s)
           F == {n \in Nat : \E g : Upto(n, g)}
<1>1. \A s \in SUBSET D : /\ IsFiniteSet(s)
                          /\ Cardinality(s) \in Nat
                          /\ Cardinality(s) <= Cardinality(D)
  BY FS_Subset, FS_CardinalityType
<1>2. \A s \in SUBSET D : s # {} =>
        /\ Chosen(s) \in s
        /\ f[Chosen(s)] \in Nat
        /\ s \ {Chosen(s)} \in SUBSET D
        /\ Cardinality(s \ {Chosen(s)}) = Cardinality(s) - 1
  BY <1>1, FS_RemoveElement DEF Chosen
<1>3. Small(0) = {{}}
  BY <1>1, FS_EmptySet
<1>4. 0 \in F
  <2> DEFINE g == [s \in {{}} |-> 0]
  <2>1. Upto(0, g)
    <3> HIDE DEF Small
    <3> QED BY <1>3
  <2>2. QED
    BY <2>1
<1>5. ASSUME NEW n \in Nat, n \in F PROVE n + 1 \in F
  <2>1. PICK g : Upto(n, g)
    BY <1>5
  <2> DEFINE h == [s \in Small(n + 1) |-> Unfold(g, s)]
  <2>2. \A s \in Small(n + 1) : s # {} => s \ {Chosen(s)} \in Small(n)
    BY <1>1, <1>2
  <2>3. \A s \in Small(n) : s \in Small(n + 1) /\ h[s] = g[s]
    <3>1. \A s \in Small(n) : s \in Small(n + 1)
      BY <1>1
    <3> HIDE DEF Unfold, Small
    <3>2. QED
      BY <3>1, <2>1
  <2>4. \A s \in Small(n + 1) : h[s] \in Nat /\ h[s] = Unfold(h, s)
    <3> SUFFICES ASSUME NEW s \in Small(n + 1)
                 PROVE  h[s] \in Nat /\ h[s] = Unfold(h, s)
      OBVIOUS
    <3>1. h[s] = Unfold(g, s)
      OBVIOUS
    <3>2. CASE s = {}
      BY <3>1, <3>2
    <3>3. CASE s # {}
      <4> DEFINE t == s \ {Chosen(s)}
      <4>1. t \in Small(n)
        BY <2>2, <3>3
      <4>2. g[t] \in Nat /\ h[t] = g[t]
        <5> HIDE DEF h, t, Small
        <5> QED BY <4>1, <2>1, <2>3
      <4>3. f[Chosen(s)] \in Nat
        BY <1>2, <3>3
      <4> HIDE DEF h, t
      <4>4. Unfold(g, s) = f[Chosen(s)] + g[t]
            /\ Unfold(h, s) = f[Chosen(s)] + h[t]
        BY <3>3 DEF t
      <4>5. QED
        BY <3>1, <4>2, <4>3, <4>4
    <3>4. QED
      BY <3>2, <3>3
  <2>5. Upto(n + 1, h)
    <3> HIDE DEF Unfold
    <3> QED BY <2>4
  <2> HIDE DEF h, Upto
  <2>6. QED
    BY <2>5
<1>6. \E g : Upto(Cardinality(D), g)
  <2> HIDE DEF F
  <2>1. \A n \in Nat : n \in F
    BY <1>4, <1>5, NatInSet
  <2>2. QED
    BY <2>1, <1>1 DEF F
<1>7. PICK g : Upto(Cardinality(D), g)
  BY <1>6
<1>8. Small(Cardinality(D)) = SUBSET D
  BY <1>1
<1>9. g \in [SUBSET D -> Nat] /\ \A s \in SUBSET D : g[s] = Unfold(g, s)
  <2> HIDE DEF Small, Unfold
  <2> QED BY <1>7, <1>8
<1>10. IsPartialSum(g, f, D)
  BY <1>9 DEF IsPartialSum, Chosen
<1>11. QED
  BY <1>10

(* The partial sums of a function with a finite domain.                     *)
LEMMA PartialSumDef ==
  ASSUME NEW D, IsFiniteSet(D), NEW f \in [D -> Nat]
  PROVE  /\ PartialSum(f)[{}] = 0
         /\ \A s \in SUBSET D :
              /\ PartialSum(f)[s] \in Nat
              /\ s # {} =>
                   /\ Chosen(s) \in s
                   /\ PartialSum(f)[s]
                        = f[Chosen(s)] + PartialSum(f)[s \ {Chosen(s)}]
<1> DEFINE g == PartialSum(f)
<1>1. IsPartialSum(g, f, D)
  BY PartialSumsExist DEF PartialSum
<1> HIDE DEF g
<1>2. \A s \in SUBSET D :
        g[s] = IF s = {} THEN 0 ELSE f[Chosen(s)] + g[s \ {Chosen(s)}]
  BY <1>1 DEF IsPartialSum, Chosen
<1>3. \A s \in SUBSET D : s # {} => Chosen(s) \in s /\ f[Chosen(s)] \in Nat
  BY DEF Chosen
<1>4. \A s \in SUBSET D : g[s] \in Nat
  <2> DEFINE F == {s \in SUBSET D : g[s] \in Nat}
  <2>1. ASSUME NEW s \in SUBSET D, \A t \in SUBSET s : t # s => t \in F
        PROVE  s \in F
    <3>1. CASE s = {}
      BY <3>1, <1>2
    <3>2. CASE s # {}
      <4>1. s \ {Chosen(s)} \in F
        BY <2>1, <3>2, <1>3
      <4>2. g[s \ {Chosen(s)}] \in Nat
        BY <4>1
      <4>3. QED
        BY <4>2, <3>2, <1>2, <1>3
    <3>3. QED
      BY <3>1, <3>2
  <2> HIDE DEF F
  <2>2. \A s \in SUBSET D : s \in F
    BY <2>1, SubsetsInSet
  <2>3. QED
    BY <2>2 DEF F
<1>5. QED
  BY <1>2, <1>3, <1>4 DEF g

(* It does not matter which element is taken out first.                     *)
LEMMA PartialSumTakes ==
  ASSUME NEW D, IsFiniteSet(D), NEW f \in [D -> Nat]
  PROVE  \A s \in SUBSET D : \A y \in s :
           PartialSum(f)[s] = f[y] + PartialSum(f)[s \ {y}]
<1> DEFINE g == PartialSum(f)
           Takes(s) == \A y \in s : g[s] = f[y] + g[s \ {y}]
           F == {s \in SUBSET D : Takes(s)}
<1>0. \A s \in SUBSET D :
        /\ g[s] \in Nat
        /\ s # {} => /\ Chosen(s) \in s
                      /\ g[s] = f[Chosen(s)] + g[s \ {Chosen(s)}]
  BY PartialSumDef
<1> HIDE DEF g
<1>1. ASSUME NEW s \in SUBSET D, \A t \in SUBSET s : t # s => t \in F
      PROVE  s \in F
  <2> SUFFICES ASSUME NEW y \in s PROVE g[s] = f[y] + g[s \ {y}]
    OBVIOUS
  <2>1. PICK x \in s : x = Chosen(s) /\ g[s] = f[x] + g[s \ {x}]
    BY <1>0
  <2>2. CASE x = y
    BY <2>1, <2>2
  <2>3. CASE x # y
    <3>1. s \ {x} \in F /\ s \ {y} \in F
      BY <1>1
    <3>2. g[s \ {x}] = f[y] + g[(s \ {x}) \ {y}]
      BY <3>1, <2>3
    <3>3. g[s \ {y}] = f[x] + g[(s \ {y}) \ {x}]
      BY <3>1, <2>3
    <3>4. (s \ {x}) \ {y} = (s \ {y}) \ {x}
      OBVIOUS
    <3>5. PICK z : z = (s \ {x}) \ {y} /\ g[z] \in Nat
      BY <1>0
    <3>6. f[x] \in Nat /\ f[y] \in Nat
      OBVIOUS
    <3>7. QED
      BY <2>1, <3>2, <3>3, <3>4, <3>5, <3>6
  <2>4. QED
    BY <2>2, <2>3
<1> HIDE DEF F
<1>2. \A s \in SUBSET D : s \in F
  BY <1>1, SubsetsInSet
<1>3. QED
  BY <1>2 DEF F, g

(* Partial sums only depend on the values summed.                           *)
LEMMA PartialSumLocal ==
  ASSUME NEW D, IsFiniteSet(D), NEW f \in [D -> Nat]
  PROVE  \A S \in SUBSET D : \A h \in [S -> Nat] :
           (\A x \in S : h[x] = f[x]) =>
             \A s \in SUBSET S : PartialSum(h)[s] = PartialSum(f)[s]
<1> DEFINE g == PartialSum(f)
<1>1. /\ g[{}] = 0
      /\ \A s \in SUBSET D :
            /\ g[s] \in Nat
            /\ s # {} =>
                 Chosen(s) \in s /\ g[s] = f[Chosen(s)] + g[s \ {Chosen(s)}]
  BY PartialSumDef
<1> SUFFICES ASSUME NEW S \in SUBSET D, NEW h \in [S -> Nat],
                    \A x \in S : h[x] = f[x]
             PROVE  \A s \in SUBSET S : PartialSum(h)[s] = g[s]
  OBVIOUS
<1> DEFINE k == PartialSum(h)
           F == {s \in SUBSET S : k[s] = g[s]}
<1>0. IsFiniteSet(S)
  BY FS_Subset
<1>2. /\ k[{}] = 0
      /\ \A s \in SUBSET S :
            /\ k[s] \in Nat
            /\ s # {} =>
                 Chosen(s) \in s /\ k[s] = h[Chosen(s)] + k[s \ {Chosen(s)}]
  BY <1>0, PartialSumDef
<1> HIDE DEF g, k
<1>3. ASSUME NEW s \in SUBSET S, \A t \in SUBSET s : t # s => t \in F
      PROVE  s \in F
  <2>1. CASE s = {}
    BY <2>1, <1>1, <1>2
  <2>2. CASE s # {}
    <3>1. PICK x \in s : /\ g[s] = f[x] + g[s \ {x}]
                         /\ k[s] = h[x] + k[s \ {x}]
      BY <2>2, <1>1, <1>2
    <3>2. s \ {x} \in F
      BY <1>3
    <3>3. k[s \ {x}] = g[s \ {x}]
      BY <3>2
    <3>4. QED
      BY <3>1, <3>3
  <2>3. QED
    BY <2>1, <2>2
<1> HIDE DEF F
<1>4. \A s \in SUBSET S : s \in F
  BY <1>0, <1>3, SubsetsInSet
<1>5. QED
  BY <1>4 DEF F, g, k

-----------------------------------------------------------------------------
(* What the proofs below use of sums.                                       *)

LEMMA SumType ==
  ASSUME NEW D, IsFiniteSet(D), NEW f \in [D -> Nat]
  PROVE  Sum(f) \in Nat
BY SumIsPartial, PartialSumDef

LEMMA SumOfNothing ==
  ASSUME NEW D, D = {}, NEW f \in [D -> Nat]
  PROVE  Sum(f) = 0
BY SumIsPartial, PartialSumDef, FS_EmptySet

LEMMA SumTakes ==
  ASSUME NEW D, IsFiniteSet(D), NEW f \in [D -> Nat], NEW x \in D
  PROVE  Sum(f) = f[x] + Sum([y \in D \ {x} |-> f[y]])
<1> DEFINE h == [y \in D \ {x} |-> f[y]]
<1>1. Sum(f) = f[x] + PartialSum(f)[D \ {x}]
  <2>1. DOMAIN f = D
    OBVIOUS
  <2>2. PartialSum(f)[D] = f[x] + PartialSum(f)[D \ {x}]
    BY PartialSumTakes
  <2>3. QED
    BY <2>1, <2>2, SumIsPartial
<1>2. h \in [D \ {x} -> Nat] /\ \A y \in D \ {x} : h[y] = f[y]
  OBVIOUS
<1> HIDE DEF h
<1>3. PartialSum(h)[D \ {x}] = PartialSum(f)[D \ {x}]
  BY <1>2, PartialSumLocal
<1>4. Sum(h) = PartialSum(h)[D \ {x}]
  BY <1>2, SumIsPartial
<1>5. QED
  BY <1>1, <1>3, <1>4 DEF h

NatFun(D) == [D -> Nat]

On(f, s) == [y \in s |-> f[y]]

LEMMA SumOn ==
  ASSUME NEW D, IsFiniteSet(D), NEW f \in NatFun(D)
  PROVE  /\ On(f, D) = f
         /\ Sum(On(f, {})) = 0
         /\ \A s \in SUBSET D :
              /\ Sum(On(f, s)) \in Nat
              /\ \A x \in s : Sum(On(f, s)) = f[x] + Sum(On(f, s \ {x}))
<1>0. f \in [D -> Nat]
  BY DEF NatFun
<1>1. On(f, D) = f
  BY <1>0 DEF On
<1>2. Sum(On(f, {})) = 0
  <2>1. On(f, {}) \in [{} -> Nat]
    BY DEF On
  <2>2. QED
    BY <2>1, SumOfNothing
<1>3. ASSUME NEW s \in SUBSET D
      PROVE  /\ Sum(On(f, s)) \in Nat
             /\ \A x \in s : Sum(On(f, s)) = f[x] + Sum(On(f, s \ {x}))
  <2>1. PICK h : h = On(f, s)
    OBVIOUS
  <2>2. h \in [s -> Nat] /\ IsFiniteSet(s)
    BY <1>0, <2>1, FS_Subset DEF On
  <2>3. Sum(h) \in Nat
    BY <2>2, SumType
  <2>4. ASSUME NEW x \in s PROVE Sum(h) = f[x] + Sum(On(f, s \ {x}))
    <3>1. Sum(h) = h[x] + Sum([y \in s \ {x} |-> h[y]])
      <4>1. \A z \in s : Sum(h) = h[z] + Sum([y \in s \ {z} |-> h[y]])
        BY <2>2, SumTakes
      <4>2. QED
        BY <4>1
    <3>2. [y \in s \ {x} |-> h[y]] = On(f, s \ {x})
      BY <1>0, <2>1 DEF On
    <3>3. h[x] = f[x]
      BY <1>0, <2>1 DEF On
    <3>4. QED
      BY <3>1, <3>2, <3>3
  <2>5. QED
    BY <2>1, <2>3, <2>4
<1>4. QED
  BY <1>1, <1>2, <1>3

(* A function of sets that grows by f[x] with each x is the sum of f.       *)
GrowsBy(G, f, D) ==
  /\ G[{}] = 0
  /\ \A s \in SUBSET D : \A x \in s : G[s] = f[x] + G[s \ {x}]

LEMMA SumBy ==
  ASSUME NEW D, IsFiniteSet(D), NEW f \in NatFun(D), NEW G, GrowsBy(G, f, D)
  PROVE  \A s \in SUBSET D : Sum(On(f, s)) = G[s]
<1>0. /\ G[{}] = 0
      /\ \A s \in SUBSET D : \A x \in s : G[s] = f[x] + G[s \ {x}]
  BY DEF GrowsBy
<1> DEFINE F == {s \in SUBSET D : Sum(On(f, s)) = G[s]}
<1>1. ASSUME NEW s \in SUBSET D, \A t \in SUBSET s : t # s => t \in F
      PROVE  s \in F
  <2>1. CASE s = {}
    BY <1>0, <2>1, SumOn
  <2>2. CASE s # {}
    <3>1. PICK x \in s : TRUE
      BY <2>2
    <3>2. s \ {x} \in F
      BY <1>1, <3>1
    <3>3. Sum(On(f, s \ {x})) = G[s \ {x}]
      BY <3>2
    <3>4. Sum(On(f, s)) = f[x] + Sum(On(f, s \ {x}))
      BY <3>1, SumOn
    <3>5. QED
      BY <1>0, <3>1, <3>3, <3>4
  <2>3. QED
    BY <2>1, <2>2
<1> HIDE DEF F
<1>2. \A s \in SUBSET D : s \in F
  BY <1>1, SubsetsInSet
<1>3. QED
  BY <1>2 DEF F

(* The size of a part of a set, one element after the other.                *)
LEMMA PartGrows ==
  ASSUME NEW D, IsFiniteSet(D), NEW A
  PROVE  \A s \in SUBSET D : \A x \in s :
           /\ Cardinality(A \cap s) \in Nat
           /\ Cardinality(A \cap (s \ {x})) \in Nat
           /\ Cardinality(A \cap s)
                = (IF x \in A THEN 1 ELSE 0) + Cardinality(A \cap (s \ {x}))
<1> SUFFICES ASSUME NEW s \in SUBSET D, NEW x \in s
             PROVE  /\ Cardinality(A \cap s) \in Nat
                    /\ Cardinality(A \cap (s \ {x})) \in Nat
                    /\ Cardinality(A \cap s)
                         = (IF x \in A THEN 1 ELSE 0)
                           + Cardinality(A \cap (s \ {x}))
  OBVIOUS
<1>1. IsFiniteSet(A \cap s) /\ IsFiniteSet(A \cap (s \ {x}))
  BY FS_Subset
<1>2. Cardinality(A \cap s) \in Nat /\ Cardinality(A \cap (s \ {x})) \in Nat
  BY <1>1, FS_CardinalityType
<1>3. CASE x \in A
  <2>1. A \cap (s \ {x}) = (A \cap s) \ {x} /\ x \in A \cap s
    BY <1>3
  <2>2. Cardinality((A \cap s) \ {x}) = Cardinality(A \cap s) - 1
    BY <1>1, <2>1, FS_RemoveElement
  <2>3. QED
    BY <1>2, <1>3, <2>1, <2>2
<1>4. CASE x \notin A
  <2>1. A \cap (s \ {x}) = A \cap s
    BY <1>4
  <2>2. QED
    BY <1>2, <1>4, <2>1
<1>5. QED
  BY <1>2, <1>3, <1>4

-----------------------------------------------------------------------------
(* The area under the curve.  A pair of samples weighs 2 if the first is    *)
(* trusted more, 1 if both are trusted the same.                            *)

Worth(a, b) == IF a > b THEN 2 ELSE IF a = b THEN 1 ELSE 0

Weight(T, D) == [x \in D \X D |-> Worth(T[x[1]], T[x[2]])]

(* What one sample weighs against those of a set.                           *)
Against(W, p, s) == Sum([i \in s |-> W[<<p, i>>]])

LEMMA WeightOf ==
  ASSUME NEW D, NEW T \in NatFun(D), NEW p \in D, NEW i \in D
  PROVE  /\ Weight(T, D)[<<p, i>>] \in Nat
         /\ Weight(T, D)[<<p, i>>] = Worth(T[p], T[i])
BY DEF Weight, Worth, NatFun

LEMMA WeightBothWays ==
  ASSUME NEW D, NEW T \in NatFun(D), NEW p \in D, NEW i \in D
  PROVE  Weight(T, D)[<<p, i>>] + Weight(T, D)[<<i, p>>] = 2
<1>1. PICK a, b \in Nat : a = T[p] /\ b = T[i]
  BY DEF NatFun
<1>2. Weight(T, D)[<<p, i>>] = IF a > b THEN 2 ELSE IF a = b THEN 1 ELSE 0
  BY <1>1 DEF Weight, Worth
<1>3. Weight(T, D)[<<i, p>>] = IF b > a THEN 2 ELSE IF b = a THEN 1 ELSE 0
  BY <1>1 DEF Weight, Worth
<1>4. QED
  BY <1>1, <1>2, <1>3

LEMMA WeightType ==
  ASSUME NEW D, NEW T \in NatFun(D)
  PROVE  Weight(T, D) \in NatFun(D \X D)
BY DEF Weight, Worth, NatFun

(* Adding one more sample to those weighed against.                         *)
LEMMA AgainstTakes ==
  ASSUME NEW D, IsFiniteSet(D), NEW W \in NatFun(D \X D), NEW p \in D
  PROVE  /\ Against(W, p, {}) = 0
         /\ \A s \in SUBSET D :
              /\ Against(W, p, s) \in Nat
              /\ \A x \in s :
                   Against(W, p, s) = W[<<p, x>>] + Against(W, p, s \ {x})
<1>1. PICK f : f = [i \in D |-> W[<<p, i>>]]
  OBVIOUS
<1>2. f \in NatFun(D) /\ \A i \in D : f[i] = W[<<p, i>>]
  BY <1>1 DEF NatFun
<1>3. \A s \in SUBSET D : On(f, s) = [i \in s |-> W[<<p, i>>]]
  BY <1>2 DEF On
<1>4. \A s \in SUBSET D : Sum(On(f, s)) = Against(W, p, s)
  BY <1>3 DEF Against
<1>5. /\ Sum(On(f, {})) = 0
      /\ \A s \in SUBSET D :
           /\ Sum(On(f, s)) \in Nat
           /\ \A x \in s : Sum(On(f, s)) = f[x] + Sum(On(f, s \ {x}))
  BY <1>2, SumOn
<1>6. QED
  BY <1>2, <1>4, <1>5

LEMMA AgainstBoth ==
  ASSUME NEW D, IsFiniteSet(D), NEW W \in NatFun(D \X D), NEW p \in D,
         NEW A \in SUBSET D, NEW B \in SUBSET D, A \cap B = {}
  PROVE  Against(W, p, A \cup B) = Against(W, p, A) + Against(W, p, B)
<1>0. /\ Against(W, p, {}) = 0
      /\ \A u \in SUBSET D : Against(W, p, u) \in Nat
      /\ \A u \in SUBSET D : \A y \in u :
           Against(W, p, u) = W[<<p, y>>] + Against(W, p, u \ {y})
  BY AgainstTakes
<1> DEFINE F == {s \in SUBSET B : Against(W, p, A \cup s)
                                   = Against(W, p, A) + Against(W, p, s)}
<1>1. ASSUME NEW s \in SUBSET B, \A t \in SUBSET s : t # s => t \in F
      PROVE  s \in F
  <2>1. CASE s = {}
    <3>1. A \cup s = A
      BY <2>1
    <3>2. PICK a \in Nat : a = Against(W, p, A)
      BY <1>0
    <3>3. Against(W, p, s) = 0
      BY <2>1, <1>0
    <3>4. Against(W, p, A \cup s) = Against(W, p, A)
      BY <3>1
    <3>5. Against(W, p, A \cup s) = a
      BY <3>2, <3>4
    <3>6. Against(W, p, A) + Against(W, p, s) = a
      BY <3>2, <3>3
    <3>7. QED
      BY <3>5, <3>6
  <2>2. CASE s # {}
    <3>1. PICK x \in s : TRUE
      BY <2>2
    <3>2. s \ {x} \in F
      BY <1>1, <3>1
    <3>3. (A \cup s) \ {x} = A \cup (s \ {x})
      BY <3>1
    <3>4. /\ A \cup s \in SUBSET D /\ x \in A \cup s /\ s \in SUBSET D
          /\ s \ {x} \in SUBSET D
      BY <3>1
    <3>5. /\ Against(W, p, A \cup s)
               = W[<<p, x>>] + Against(W, p, (A \cup s) \ {x})
          /\ Against(W, p, s) = W[<<p, x>>] + Against(W, p, s \ {x})
      BY <3>1, <1>0, <3>4
    <3>6. PICK a, b, w \in Nat :
            /\ a = Against(W, p, A) /\ b = Against(W, p, s \ {x})
            /\ w = W[<<p, x>>]
      BY <3>1, <3>4, <1>0 DEF NatFun
    <3>7. Against(W, p, A \cup (s \ {x})) = a + b
      BY <3>2, <3>6
    <3>8. QED
      BY <3>3, <3>5, <3>6, <3>7
  <2>3. QED
    BY <2>1, <2>2
<1> HIDE DEF F
<1>2. IsFiniteSet(B)
  BY FS_Subset
<1>3. B \in F
  BY <1>1, <1>2, SubsetsInSet
<1>4. QED
  BY <1>3 DEF F


(* The sum of two functions, and of ones.                                   *)
LEMMA SumPlus ==
  ASSUME NEW D, IsFiniteSet(D), NEW f \in NatFun(D), NEW g \in NatFun(D),
         NEW s \in SUBSET D
  PROVE  Sum([x \in s |-> f[x] + g[x]]) = Sum(On(f, s)) + Sum(On(g, s))
<1>1. /\ Sum(On(f, {})) = 0 /\ Sum(On(g, {})) = 0
      /\ \A t \in SUBSET D : Sum(On(f, t)) \in Nat /\ Sum(On(g, t)) \in Nat
      /\ \A t \in SUBSET D : \A x \in t :
           /\ Sum(On(f, t)) = f[x] + Sum(On(f, t \ {x}))
           /\ Sum(On(g, t)) = g[x] + Sum(On(g, t \ {x}))
  BY SumOn
<1>2. PICK h : h = [x \in D |-> f[x] + g[x]]
  OBVIOUS
<1>3. h \in NatFun(D) /\ \A x \in D : h[x] = f[x] + g[x]
  BY <1>2 DEF NatFun
<1>4. PICK G : G = [t \in SUBSET D |-> Sum(On(f, t)) + Sum(On(g, t))]
  OBVIOUS
<1>5. G[{}] = 0
  BY <1>1, <1>4
<1>6. ASSUME NEW t \in SUBSET D, NEW x \in t
      PROVE  G[t] = h[x] + G[t \ {x}]
  <2>1. x \in D /\ t \ {x} \in SUBSET D
    OBVIOUS
  <2>2. PICK a, b, c, d \in Nat :
          /\ a = f[x] /\ b = g[x]
          /\ c = Sum(On(f, t \ {x})) /\ d = Sum(On(g, t \ {x}))
    BY <1>1, <2>1 DEF NatFun
  <2>3. G[t] = (a + c) + (b + d)
    BY <1>1, <1>4, <2>1, <2>2
  <2>4. h[x] = a + b /\ G[t \ {x}] = c + d
    BY <1>3, <1>4, <2>1, <2>2
  <2>5. QED
    BY <2>2, <2>3, <2>4
<1>7. Sum(On(h, s)) = G[s]
  <2>1. GrowsBy(G, h, D)
    BY <1>5, <1>6 DEF GrowsBy
  <2>2. \A t \in SUBSET D : Sum(On(h, t)) = G[t]
    BY <1>3, <2>1, SumBy
  <2>3. QED
    BY <2>2
<1>8. On(h, s) = [x \in s |-> f[x] + g[x]]
  BY <1>2 DEF On
<1>9. QED
  BY <1>4, <1>7, <1>8

LEMMA SumOfOnes ==
  ASSUME NEW D, IsFiniteSet(D)
  PROVE  /\ Cardinality(D) \in Nat
         /\ Sum([x \in D |-> 1]) = Cardinality(D)
<1>1. \A t \in SUBSET D : IsFiniteSet(t) /\ Cardinality(t) \in Nat
  BY FS_Subset, FS_CardinalityType
<1>2. PICK f : f = [x \in D |-> 1]
  OBVIOUS
<1>3. f \in NatFun(D) /\ \A x \in D : f[x] = 1
  BY <1>2 DEF NatFun
<1>4. PICK G : G = [t \in SUBSET D |-> Cardinality(t)]
  OBVIOUS
<1>5. G[{}] = 0
  BY <1>4, FS_EmptySet
<1>6. ASSUME NEW t \in SUBSET D, NEW x \in t
      PROVE  G[t] = f[x] + G[t \ {x}]
  <2>1. Cardinality(t \ {x}) = Cardinality(t) - 1
    BY <1>1, FS_RemoveElement
  <2>2. G[t] = Cardinality(t) /\ G[t \ {x}] = Cardinality(t \ {x}) /\ f[x] = 1
    BY <1>3, <1>4
  <2>3. PICK n \in Nat : n = Cardinality(t)
    BY <1>1
  <2>4. QED
    BY <2>1, <2>2, <2>3
<1>7. Sum(On(f, D)) = G[D]
  <2>1. GrowsBy(G, f, D)
    BY <1>5, <1>6 DEF GrowsBy
  <2>2. \A t \in SUBSET D : Sum(On(f, t)) = G[t]
    BY <1>3, <2>1, SumBy
  <2>3. QED
    BY <2>2
<1>8. On(f, D) = f
  BY <1>2 DEF On
<1>9. QED
  BY <1>1, <1>2, <1>4, <1>7, <1>8

(* A rank, doubled: what the sample weighs against all, and 1.              *)
LEMMA RankIsWeight ==
  ASSUME NEW D, IsFiniteSet(D), NEW T \in NatFun(D), NEW p \in D
  PROVE  Cardinality({i \in D : T[i] < T[p]}) + 1
           + Cardinality({i \in D : T[i] <= T[p]})
         = Against(Weight(T, D), p, D) + 1
<1>0. \A i \in D : Weight(T, D)[<<p, i>>] = Worth(T[p], T[i])
  BY WeightOf
<1>1. PICK less : less = {i \in D : T[i] < T[p]}
  OBVIOUS
<1>2. PICK upto : upto = {i \in D : T[i] <= T[p]}
  OBVIOUS
<1>3. PICK f : f = [i \in D |-> Weight(T, D)[<<p, i>>]]
  OBVIOUS
<1>4. \A i \in D :
        /\ f[i] \in Nat
        /\ f[i] = (IF i \in less THEN 1 ELSE 0) + (IF i \in upto THEN 1 ELSE 0)
  <2> SUFFICES ASSUME NEW i \in D
               PROVE  /\ f[i] \in Nat
                      /\ f[i] = (IF i \in less THEN 1 ELSE 0)
                                  + (IF i \in upto THEN 1 ELSE 0)
    OBVIOUS
  <2>1. PICK a, b \in Nat : a = T[p] /\ b = T[i]
    BY DEF NatFun
  <2>2. f[i] = IF a > b THEN 2 ELSE IF a = b THEN 1 ELSE 0
    BY <1>0, <1>3, <2>1 DEF Worth
  <2>3. (i \in less) = (b < a) /\ (i \in upto) = (b <= a)
    BY <1>1, <1>2, <2>1
  <2>4. QED
    BY <2>1, <2>2, <2>3
<1>5. f \in NatFun(D)
  BY <1>3, <1>4 DEF NatFun
<1>6. PICK G : G = [t \in SUBSET D |-> Cardinality(less \cap t)
                                         + Cardinality(upto \cap t)]
  OBVIOUS
<1>7. G[{}] = 0
  <2>1. less \cap {} = {} /\ upto \cap {} = {}
    OBVIOUS
  <2>2. QED
    BY <1>6, <2>1, FS_EmptySet
<1>g. \A t \in SUBSET D : \A x \in t :
        /\ Cardinality(less \cap t) \in Nat
        /\ Cardinality(less \cap (t \ {x})) \in Nat
        /\ Cardinality(less \cap t)
             = (IF x \in less THEN 1 ELSE 0) + Cardinality(less \cap (t \ {x}))
  BY PartGrows
<1>u. \A t \in SUBSET D : \A x \in t :
        /\ Cardinality(upto \cap t) \in Nat
        /\ Cardinality(upto \cap (t \ {x})) \in Nat
        /\ Cardinality(upto \cap t)
             = (IF x \in upto THEN 1 ELSE 0) + Cardinality(upto \cap (t \ {x}))
  BY PartGrows
<1>8. ASSUME NEW t \in SUBSET D, NEW x \in t
      PROVE  G[t] = f[x] + G[t \ {x}]
  <2>1. PICK a, b, c, d :
          /\ a = Cardinality(less \cap t) /\ b = Cardinality(upto \cap t)
          /\ c = Cardinality(less \cap (t \ {x}))
          /\ d = Cardinality(upto \cap (t \ {x}))
    OBVIOUS
  <2>2. a \in Nat /\ c \in Nat /\ a = (IF x \in less THEN 1 ELSE 0) + c
    BY <1>g, <2>1
  <2>3. b \in Nat /\ d \in Nat /\ b = (IF x \in upto THEN 1 ELSE 0) + d
    BY <1>u, <2>1
  <2>4. G[t] = a + b /\ G[t \ {x}] = c + d
    BY <1>6, <2>1
  <2>5. f[x] = (IF x \in less THEN 1 ELSE 0) + (IF x \in upto THEN 1 ELSE 0)
    BY <1>4
  <2>6. QED
    BY <2>2, <2>3, <2>4, <2>5
<1>9. Sum(On(f, D)) = G[D]
  <2>1. GrowsBy(G, f, D)
    BY <1>7, <1>8 DEF GrowsBy
  <2>2. \A t \in SUBSET D : Sum(On(f, t)) = G[t]
    BY <1>5, <2>1, SumBy
  <2>3. QED
    BY <2>2
<1>10. On(f, D) = f /\ Against(Weight(T, D), p, D) = Sum(f)
  BY <1>3, <1>5 DEF On, Against
<1>11. less \cap D = less /\ upto \cap D = upto
  BY <1>1, <1>2
<1>12. PICK l, u \in Nat : l = Cardinality(less) /\ u = Cardinality(upto)
  BY <1>11, FS_Intersection, FS_CardinalityType
<1>13. Against(Weight(T, D), p, D) = l + u
  BY <1>6, <1>9, <1>10, <1>11, <1>12
<1>14. QED
  BY <1>1, <1>2, <1>12, <1>13

(* Both ways, a sample weighs 2 against each sample of a set.               *)
LEMMA CrossWeight ==
  ASSUME NEW D, IsFiniteSet(D), NEW T \in NatFun(D), NEW x \in D,
         NEW u \in SUBSET D
  PROVE  Against(Weight(T, D), x, u)
           + Sum([p \in u |-> Weight(T, D)[<<p, x>>]])
           = Cardinality(u) + Cardinality(u)
<1>1. /\ \A p \in D : /\ Weight(T, D)[<<x, p>>] \in Nat
                      /\ Weight(T, D)[<<p, x>>] \in Nat
      /\ \A p \in D : Weight(T, D)[<<x, p>>] + Weight(T, D)[<<p, x>>] = 2
  BY WeightOf, WeightBothWays
<1>2. IsFiniteSet(u)
  BY FS_Subset
<1>3. Sum([p \in u |-> 1]) = Cardinality(u)
  BY <1>2, SumOfOnes
<1>4. \A f, g \in NatFun(D) :
        Sum([p \in u |-> f[p] + g[p]]) = Sum(On(f, u)) + Sum(On(g, u))
  BY SumPlus
<1>5. PICK r : r = [p \in D |-> Weight(T, D)[<<x, p>>]]
  OBVIOUS
<1>6. PICK c : c = [p \in D |-> Weight(T, D)[<<p, x>>]]
  OBVIOUS
<1>7. PICK o : o = [p \in D |-> 1]
  OBVIOUS
<1>8. r \in NatFun(D) /\ c \in NatFun(D) /\ o \in NatFun(D)
  BY <1>1, <1>5, <1>6, <1>7 DEF NatFun
<1>9. \A p \in u : r[p] + c[p] = 2 /\ o[p] + o[p] = 2
  BY <1>1, <1>5, <1>6, <1>7
<1>10. [p \in u |-> r[p] + c[p]] = [p \in u |-> o[p] + o[p]]
  BY <1>9
<1>11. Sum(On(r, u)) + Sum(On(c, u)) = Sum(On(o, u)) + Sum(On(o, u))
  <2>1. Sum([p \in u |-> r[p] + c[p]]) = Sum(On(r, u)) + Sum(On(c, u))
    BY <1>4, <1>8
  <2>2. Sum([p \in u |-> o[p] + o[p]]) = Sum(On(o, u)) + Sum(On(o, u))
    BY <1>4, <1>8
  <2>3. QED
    BY <1>10, <2>1, <2>2
<1>12. On(o, u) = [p \in u |-> 1]
  BY <1>7 DEF On
<1>13. On(r, u) = [p \in u |-> Weight(T, D)[<<x, p>>]]
  BY <1>5 DEF On
<1>14. On(c, u) = [p \in u |-> Weight(T, D)[<<p, x>>]]
  BY <1>6 DEF On
<1>15. Against(Weight(T, D), x, u) = Sum(On(r, u))
  BY <1>13 DEF Against
<1>16. QED
  BY <1>3, <1>11, <1>12, <1>14, <1>15

(* What the samples of a set weigh against each other, one more taken.      *)
Mutual(W, s) == Sum([p \in s |-> Against(W, p, s)])

LEMMA WeightsGrow ==
  ASSUME NEW D, IsFiniteSet(D), NEW T \in NatFun(D), NEW s \in SUBSET D,
         NEW x \in s
  PROVE  Mutual(Weight(T, D), s)
           = (1 + Cardinality(s \ {x}) + Cardinality(s \ {x}))
             + Mutual(Weight(T, D), s \ {x})
<1>0. \A p, i \in D :
        /\ Weight(T, D)[<<p, i>>] \in Nat
        /\ Weight(T, D)[<<p, i>>] = Worth(T[p], T[i])
  BY WeightOf
<1>1. PICK W : W = Weight(T, D)
  OBVIOUS
<1>2. W \in NatFun(D \X D)
  BY <1>1, WeightType
<1>3. PICK u : u = s \ {x}
  OBVIOUS
<1>4. u \in SUBSET D /\ x \in D /\ x \notin u
  BY <1>3
<1>5. Against(W, x, u) + Sum([p \in u |-> W[<<p, x>>]])
        = Cardinality(u) + Cardinality(u)
  <2>1. \A t \in SUBSET D : \A y \in D :
          Against(Weight(T, D), y, t)
            + Sum([p \in t |-> Weight(T, D)[<<p, y>>]])
            = Cardinality(t) + Cardinality(t)
    BY CrossWeight
  <2>2. QED
    BY <1>1, <1>4, <2>1
<1>6. \A p \in D : \A t \in SUBSET D :
        /\ Against(W, p, t) \in Nat
        /\ \A y \in t : Against(W, p, t) = W[<<p, y>>] + Against(W, p, t \ {y})
  BY <1>2, AgainstTakes
<1>7. W[<<x, x>>] = 1 /\ \A p \in D : W[<<p, x>>] \in Nat
  <2>1. PICK a \in Nat : a = T[x]
    BY <1>4 DEF NatFun
  <2>2. QED
    BY <1>0, <1>1, <1>4, <2>1 DEF Worth
<1>8. PICK f : f = [p \in D |-> Against(W, p, s)]
  OBVIOUS
<1>9. PICK g : g = [p \in D |-> Against(W, p, u)]
  OBVIOUS
<1>10. PICK c : c = [p \in D |-> W[<<p, x>>]]
  OBVIOUS
<1>11. f \in NatFun(D) /\ g \in NatFun(D) /\ c \in NatFun(D)
  BY <1>4, <1>6, <1>7, <1>8, <1>9, <1>10 DEF NatFun
<1>12. Sum(On(f, s)) = f[x] + Sum(On(f, u)) /\ Sum(On(f, u)) \in Nat
  BY <1>3, <1>4, <1>11, SumOn
<1>13. On(f, u) = [p \in u |-> c[p] + g[p]]
  <2>1. \A p \in u : f[p] = c[p] + g[p]
    BY <1>3, <1>4, <1>6, <1>8, <1>9, <1>10
  <2>2. QED
    BY <2>1 DEF On
<1>14. Sum([p \in u |-> c[p] + g[p]]) = Sum(On(c, u)) + Sum(On(g, u))
  BY <1>4, <1>11, SumPlus
<1>15. f[x] = 1 + Against(W, x, u)
  BY <1>3, <1>4, <1>6, <1>7, <1>8
<1>16. PICK a, b, d, n \in Nat :
         /\ a = Against(W, x, u) /\ b = Sum(On(c, u)) /\ d = Sum(On(g, u))
         /\ n = Cardinality(u)
  <2>1. Against(W, x, u) \in Nat
    BY <1>4, <1>6
  <2>2. Sum(On(c, u)) \in Nat /\ Sum(On(g, u)) \in Nat
    BY <1>4, <1>11, SumOn
  <2>3. Cardinality(u) \in Nat
    BY <1>4, FS_Subset, FS_CardinalityType
  <2>4. QED
    BY <2>1, <2>2, <2>3
<1>17. /\ On(c, u) = [p \in u |-> W[<<p, x>>]]
       /\ On(g, u) = [p \in u |-> Against(W, p, u)]
       /\ On(f, s) = [p \in s |-> Against(W, p, s)]
  BY <1>4, <1>8, <1>9, <1>10 DEF On
<1>18. a + b = n + n
  BY <1>5, <1>16, <1>17
<1>19. Sum(On(f, s)) = (1 + a) + (b + d)
  BY <1>12, <1>13, <1>14, <1>15, <1>16
<1>20. Sum(On(f, s)) = (1 + n + n) + d
  BY <1>16, <1>18, <1>19
<1>21. QED
  BY <1>1, <1>3, <1>16, <1>17, <1>20 DEF Mutual

LEMMA WeightsSquare ==
  ASSUME NEW D, IsFiniteSet(D), NEW T \in NatFun(D), NEW s \in SUBSET D
  PROVE  Mutual(Weight(T, D), s) = Cardinality(s) * Cardinality(s)
<1>1. \A t \in SUBSET D : \A x \in t :
        Mutual(Weight(T, D), t)
          = (1 + Cardinality(t \ {x}) + Cardinality(t \ {x}))
            + Mutual(Weight(T, D), t \ {x})
  BY WeightsGrow
<1>2. PICK H : H = [t \in SUBSET D |-> Mutual(Weight(T, D), t)]
  OBVIOUS
<1>3. \A t \in SUBSET D : \A x \in t :
        H[t] = (1 + Cardinality(t \ {x}) + Cardinality(t \ {x})) + H[t \ {x}]
  BY <1>1, <1>2
<1>4. H[{}] = 0
  <2>1. H[{}] = Sum([p \in {} |-> Against(Weight(T, D), p, {})])
    BY <1>2 DEF Mutual
  <2>2. [p \in {} |-> Against(Weight(T, D), p, {})] \in [{} -> Nat]
    OBVIOUS
  <2>3. QED
    BY <2>1, <2>2, SumOfNothing
<1>5. \A t \in SUBSET D :
        /\ IsFiniteSet(t) /\ Cardinality(t) \in Nat
        /\ \A x \in t : Cardinality(t \ {x}) = Cardinality(t) - 1
  BY FS_Subset, FS_CardinalityType, FS_RemoveElement
<1> DEFINE F == {t \in SUBSET D : H[t] = Cardinality(t) * Cardinality(t)}
<1>6. ASSUME NEW t \in SUBSET D, \A q \in SUBSET t : q # t => q \in F
      PROVE  t \in F
  <2>1. CASE t = {}
    <3>1. Cardinality({}) = 0
      BY FS_EmptySet
    <3>2. H[t] = 0 /\ Cardinality(t) = 0
      BY <1>4, <2>1, <3>1
    <3>3. QED
      BY <3>2
  <2>2. CASE t # {}
    <3>1. PICK x \in t : TRUE
      BY <2>2
    <3>2. t \ {x} \in F
      BY <1>6, <3>1
    <3>3. PICK n \in Nat : n = Cardinality(t \ {x})
      BY <1>5
    <3>4. Cardinality(t) = n + 1
      <4>1. PICK m \in Nat : m = Cardinality(t)
        BY <1>5
      <4>2. n = m - 1
        BY <1>5, <3>1, <3>3, <4>1
      <4>3. QED
        BY <4>1, <4>2
    <3>5. H[t] = (1 + n + n) + n * n
      <4>1. H[t \ {x}] = n * n
        BY <3>2, <3>3
      <4>2. H[t] = (1 + n + n) + H[t \ {x}]
        BY <1>3, <3>1, <3>3
      <4>3. QED
        BY <4>1, <4>2
    <3>6. (1 + n + n) + n * n = (n + 1) * (n + 1)
      OBVIOUS
    <3>7. QED
      BY <3>4, <3>5, <3>6
  <2>3. QED
    BY <2>1, <2>2
<1> HIDE DEF F
<1>7. \A t \in SUBSET D : t \in F
  BY <1>6, SubsetsInSet
<1>8. QED
  BY <1>2, <1>7 DEF F

(* The pairs of a table, one more row taken, and row by row.                *)
LEMMA PairsOfRow ==
  ASSUME NEW D, IsFiniteSet(D), NEW W \in NatFun(D \X D), NEW B \in SUBSET D,
         NEW s \in SUBSET D, NEW x \in s
  PROVE  Sum(On(W, s \X B)) = Against(W, x, B) + Sum(On(W, (s \ {x}) \X B))
<1>1. IsFiniteSet(D \X D) /\ IsFiniteSet(B)
  BY FS_Product, FS_Subset
<1>2. \A q \in SUBSET (D \X D) :
        /\ Sum(On(W, q)) \in Nat
        /\ \A z \in q : Sum(On(W, q)) = W[z] + Sum(On(W, q \ {z}))
  BY <1>1, SumOn
<1>3. PICK f : f = [i \in B |-> W[<<x, i>>]]
  OBVIOUS
<1>4. f \in NatFun(B)
  BY <1>3 DEF NatFun
<1>5. PICK P : P = (s \ {x}) \X B
  OBVIOUS
<1>6. P \in SUBSET (D \X D) /\ \A i \in B : <<x, i>> \notin P
  BY <1>5
<1>7. PICK Q : Q = [t \in SUBSET B |-> P \cup {<<x, i>> : i \in t}]
  OBVIOUS
<1>8. PICK G : G = [t \in SUBSET B |-> Sum(On(W, Q[t])) - Sum(On(W, P))]
  OBVIOUS
<1>9. \A t \in SUBSET B : Q[t] \in SUBSET (D \X D)
  BY <1>6, <1>7
<1>10. G[{}] = 0
  <2>1. Q[{}] = P
    BY <1>7
  <2>2. Sum(On(W, P)) \in Nat
    BY <1>2, <1>6
  <2>3. G[{}] = Sum(On(W, P)) - Sum(On(W, P))
    BY <1>8, <2>1
  <2>4. QED
    BY <2>2, <2>3
<1>11. ASSUME NEW t \in SUBSET B, NEW y \in t PROVE G[t] = f[y] + G[t \ {y}]
  <2>1. <<x, y>> \in Q[t]
    BY <1>7
  <2>2. Q[t] \ {<<x, y>>} = Q[t \ {y}]
    <3>1. y \in B /\ t \ {y} \in SUBSET B
      OBVIOUS
    <3>2. Q[t] = P \cup {<<x, i>> : i \in t}
      BY <1>7
    <3>3. Q[t \ {y}] = P \cup {<<x, i>> : i \in t \ {y}}
      BY <1>7, <3>1
    <3>4. <<x, y>> \notin P
      BY <1>6, <3>1
    <3>5. QED
      BY <3>2, <3>3, <3>4
  <2>3. Sum(On(W, Q[t])) = W[<<x, y>>] + Sum(On(W, Q[t \ {y}]))
    <3>1. PICK q : q = Q[t]
      OBVIOUS
    <3>2. q \in SUBSET (D \X D) /\ <<x, y>> \in q
      BY <1>9, <2>1, <3>1
    <3>3. Sum(On(W, q)) = W[<<x, y>>] + Sum(On(W, q \ {<<x, y>>}))
      BY <1>2, <3>2
    <3>4. QED
      BY <2>2, <3>1, <3>3
  <2>4. PICK a, b, c \in Nat :
          /\ a = W[<<x, y>>] /\ b = Sum(On(W, Q[t \ {y}]))
          /\ c = Sum(On(W, P))
    BY <1>2, <1>6, <1>9 DEF NatFun
  <2>5. G[t] = (a + b) - c /\ G[t \ {y}] = b - c /\ f[y] = a
    BY <1>3, <1>8, <2>3, <2>4
  <2>6. QED
    BY <2>4, <2>5
<1>12. Sum(On(f, B)) = G[B]
  <2>1. IsFiniteSet(B)
    BY <1>1
  <2>2. GrowsBy(G, f, B)
    BY <1>10, <1>11 DEF GrowsBy
  <2>3. \A t \in SUBSET B : Sum(On(f, t)) = G[t]
    BY <1>4, <2>1, <2>2, SumBy
  <2>4. QED
    BY <2>3
<1>13. On(f, B) = f /\ Against(W, x, B) = Sum(f)
  BY <1>3 DEF On, Against
<1>14. Q[B] = s \X B
  <2>1. Q[B] = P \cup {<<x, i>> : i \in B}
    BY <1>7
  <2>2. QED
    BY <1>5, <2>1
<1>15. PICK b, c \in Nat : b = Sum(On(W, s \X B)) /\ c = Sum(On(W, P))
  BY <1>2, <1>6, <1>9, <1>14
<1>16. Against(W, x, B) = b - c
  BY <1>8, <1>12, <1>13, <1>14, <1>15
<1>17. QED
  BY <1>5, <1>15, <1>16

LEMMA PairsByRow ==
  ASSUME NEW D, IsFiniteSet(D), NEW W \in NatFun(D \X D), NEW B \in SUBSET D,
         NEW s \in SUBSET D
  PROVE  Sum([p \in s |-> Against(W, p, B)]) = Sum(On(W, s \X B))
<1>1. \A t \in SUBSET D : \A x \in t :
        Sum(On(W, t \X B)) = Against(W, x, B) + Sum(On(W, (t \ {x}) \X B))
  BY PairsOfRow
<1>2. Sum(On(W, {} \X B)) = 0
  <2>1. On(W, {} \X B) = On(W, {})
    OBVIOUS
  <2>2. Sum(On(W, {})) = 0
    BY FS_Product, SumOn
  <2>3. QED
    BY <2>1, <2>2
<1>3. \A p \in D : Against(W, p, B) \in Nat
  BY AgainstTakes
<1>4. PICK f : f = [p \in D |-> Against(W, p, B)]
  OBVIOUS
<1>5. f \in NatFun(D)
  BY <1>3, <1>4 DEF NatFun
<1>6. PICK G : G = [t \in SUBSET D |-> Sum(On(W, t \X B))]
  OBVIOUS
<1>7. G[{}] = 0
  BY <1>2, <1>6
<1>8. \A t \in SUBSET D : \A x \in t : G[t] = f[x] + G[t \ {x}]
  <2> SUFFICES ASSUME NEW t \in SUBSET D, NEW x \in t
               PROVE  G[t] = f[x] + G[t \ {x}]
    OBVIOUS
  <2>1. x \in D /\ t \ {x} \in SUBSET D
    OBVIOUS
  <2>2. QED
    BY <1>1, <1>4, <1>6, <2>1
<1>9. \A t \in SUBSET D : Sum(On(f, t)) = G[t]
  <2>1. GrowsBy(G, f, D)
    BY <1>7, <1>8 DEF GrowsBy
  <2>2. QED
    BY <1>5, <2>1, SumBy
<1>10. On(f, s) = [p \in s |-> Against(W, p, B)]
  BY <1>4 DEF On
<1>11. QED
  BY <1>6, <1>9, <1>10

(* Ranking the samples of pos among all, ties averaged, counts the pairs of *)
(* pos and the others that are ranked rightly, ties for a half.             *)
LEMMA RanksCountPairs ==
  ASSUME NEW D, IsFiniteSet(D), NEW T \in NatFun(D), NEW pos \in SUBSET D
  PROVE  Sum([p \in pos |-> Against(Weight(T, D), p, D) + 1])
           = Cardinality(pos) * (Cardinality(pos) + 1)
             + Sum(On(Weight(T, D), pos \X (D \ pos)))
<1>1. PICK W : W = Weight(T, D)
  OBVIOUS
<1>2. W \in NatFun(D \X D)
  BY <1>1, WeightType
<1>3. PICK neg : neg = D \ pos
  OBVIOUS
<1>4. neg \in SUBSET D /\ pos \cap neg = {} /\ pos \cup neg = D
  BY <1>3
<1>5. Mutual(W, pos) = Cardinality(pos) * Cardinality(pos)
  BY <1>1, WeightsSquare
<1>6. Sum([p \in pos |-> Against(W, p, neg)]) = Sum(On(W, pos \X neg))
  <2>1. \A s, B \in SUBSET D :
          Sum([p \in s |-> Against(W, p, B)]) = Sum(On(W, s \X B))
    BY <1>2, PairsByRow
  <2>2. QED
    BY <1>4, <2>1
<1>7. \A p \in D : Against(W, p, D) = Against(W, p, pos) + Against(W, p, neg)
  <2>1. \A p \in D : Against(W, p, pos \cup neg)
                       = Against(W, p, pos) + Against(W, p, neg)
    BY <1>2, <1>4, AgainstBoth
  <2>2. QED
    BY <1>4, <2>1
<1>8. \A p \in D : Against(W, p, pos) \in Nat /\ Against(W, p, neg) \in Nat
  BY <1>2, <1>4, AgainstTakes
<1>9. PICK f : f = [p \in D |-> Against(W, p, pos)]
  OBVIOUS
<1>10. PICK g : g = [p \in D |-> Against(W, p, neg)]
  OBVIOUS
<1>11. PICK o : o = [p \in D |-> 1]
  OBVIOUS
<1>12. PICK h : h = [p \in D |-> f[p] + g[p]]
  OBVIOUS
<1>13. \A p \in D : f[p] \in Nat /\ g[p] \in Nat /\ h[p] = f[p] + g[p]
  BY <1>8, <1>9, <1>10, <1>12
<1>14. /\ f \in NatFun(D) /\ g \in NatFun(D)
       /\ o \in NatFun(D) /\ h \in NatFun(D)
  BY <1>9, <1>10, <1>11, <1>12, <1>13 DEF NatFun
<1>15. Sum([p \in pos |-> h[p] + o[p]]) = Sum(On(h, pos)) + Sum(On(o, pos))
  BY <1>14, SumPlus
<1>16. Sum([p \in pos |-> f[p] + g[p]]) = Sum(On(f, pos)) + Sum(On(g, pos))
  BY <1>14, SumPlus
<1>17. On(h, pos) = [p \in pos |-> f[p] + g[p]]
  BY <1>12 DEF On
<1>18. On(f, pos) = [p \in pos |-> Against(W, p, pos)]
  BY <1>9 DEF On
<1>19. On(g, pos) = [p \in pos |-> Against(W, p, neg)]
  BY <1>10 DEF On
<1>20. On(o, pos) = [p \in pos |-> 1]
  BY <1>11 DEF On
<1>21. Sum([p \in pos |-> 1]) = Cardinality(pos) /\ Cardinality(pos) \in Nat
  BY FS_Subset, SumOfOnes
<1>22. PICK n, r \in Nat : n = Cardinality(pos) /\ r = Sum(On(W, pos \X neg))
  <2>1. Sum(On(g, pos)) \in Nat
    BY <1>14, SumOn
  <2>2. QED
    BY <1>6, <1>19, <1>21, <2>1
<1>23. Sum(On(h, pos)) = n * n + r
  BY <1>5, <1>6, <1>16, <1>17, <1>18, <1>19, <1>22 DEF Mutual
<1>24. Sum([p \in pos |-> h[p] + o[p]]) = (n * n + r) + n
  BY <1>15, <1>20, <1>21, <1>22, <1>23
<1>25. [p \in pos |-> h[p] + o[p]] = [p \in pos |-> Against(W, p, D) + 1]
  <2>1. \A p \in pos : h[p] + o[p] = Against(W, p, D) + 1
    BY <1>7, <1>9, <1>10, <1>11, <1>13
  <2>2. QED
    BY <2>1
<1>26. (n * n + r) + n = n * (n + 1) + r
  OBVIOUS
<1>27. QED
  BY <1>1, <1>3, <1>22, <1>24, <1>25, <1>26

(* _roc_auc computes what it stands for.                                    *)
LEMMA AucCountsPairs ==
  ASSUME NEW samples, IsFiniteSet(DOMAIN samples),
         \A i \in DOMAIN samples : samples[i].trust \in Nat,
         NEW pos \in SUBSET DOMAIN samples
  PROVE  TwiceAuc(samples, pos) = TwicePairs(samples, pos)
<1>1. PICK D : D = DOMAIN samples
  OBVIOUS
<1>2. PICK T : T = [i \in D |-> samples[i].trust]
  OBVIOUS
<1>3. /\ T \in NatFun(D) /\ IsFiniteSet(D) /\ pos \in SUBSET D
      /\ \A i \in D : T[i] = samples[i].trust
  BY <1>1, <1>2 DEF NatFun
<1>4. \A p \in D : TwiceRank(samples, samples[p])
                     = Against(Weight(T, D), p, D) + 1
  <2>1. \A p \in D : Cardinality({i \in D : T[i] < T[p]}) + 1
                       + Cardinality({i \in D : T[i] <= T[p]})
                     = Against(Weight(T, D), p, D) + 1
    BY <1>3, RankIsWeight
  <2>2. ASSUME NEW p \in D
        PROVE  /\ {i \in DOMAIN samples : samples[i].trust < samples[p].trust}
                    = {i \in D : T[i] < T[p]}
               /\ {i \in DOMAIN samples : samples[i].trust <= samples[p].trust}
                    = {i \in D : T[i] <= T[p]}
    BY <1>1, <1>3
  <2>3. QED
    BY <2>1, <2>2 DEF TwiceRank
<1>5. [i \in pos |-> TwiceRank(samples, samples[i])]
        = [i \in pos |-> Against(Weight(T, D), i, D) + 1]
  BY <1>3, <1>4
<1>6. On(Weight(T, D), pos \X (D \ pos))
        = [x \in pos \X (D \ pos) |->
             CASE samples[x[1]].trust > samples[x[2]].trust -> 2
               [] samples[x[1]].trust = samples[x[2]].trust -> 1
               [] OTHER -> 0]
  <2>1. \A x \in pos \X (D \ pos) :
          Weight(T, D)[x] = CASE samples[x[1]].trust > samples[x[2]].trust -> 2
                              [] samples[x[1]].trust = samples[x[2]].trust -> 1
                              [] OTHER -> 0
    <3> SUFFICES ASSUME NEW p \in pos, NEW i \in D \ pos
                 PROVE  Weight(T, D)[<<p, i>>]
                          = CASE samples[p].trust > samples[i].trust -> 2
                              [] samples[p].trust = samples[i].trust -> 1
                              [] OTHER -> 0
      OBVIOUS
    <3>1. PICK a, b \in Nat : a = samples[p].trust /\ b = samples[i].trust
      BY <1>1
    <3>2. T[p] = a /\ T[i] = b /\ p \in D /\ i \in D
      BY <1>3, <3>1
    <3>3. Weight(T, D)[<<p, i>>] = IF a > b THEN 2 ELSE IF a = b THEN 1 ELSE 0
      BY <3>2 DEF Weight, Worth
    <3>4. (CASE a > b -> 2 [] a = b -> 1 [] OTHER -> 0)
            = IF a > b THEN 2 ELSE IF a = b THEN 1 ELSE 0
      BY <3>1
    <3>5. QED
      BY <3>1, <3>3, <3>4
  <2>2. QED
    BY <2>1 DEF On
<1>7. TwicePairs(samples, pos) = Sum(On(Weight(T, D), pos \X (D \ pos)))
  BY <1>1, <1>6 DEF TwicePairs
<1>8. Sum([p \in pos |-> Against(Weight(T, D), p, D) + 1])
        = Cardinality(pos) * (Cardinality(pos) + 1)
          + Sum(On(Weight(T, D), pos \X (D \ pos)))
  BY <1>3, RanksCountPairs
<1>9. PICK r \in Nat : r = Sum(On(Weight(T, D), pos \X (D \ pos)))
  <2>1. IsFiniteSet(D \X D) /\ Weight(T, D) \in NatFun(D \X D)
    BY <1>3, FS_Product, WeightType
  <2>2. \A q \in SUBSET (D \X D) : Sum(On(Weight(T, D), q)) \in Nat
    BY <2>1, SumOn
  <2>3. QED
    BY <1>3, <2>2
<1>10. PICK m \in Nat : m = Cardinality(pos) * (Cardinality(pos) + 1)
  <2>1. PICK n \in Nat : n = Cardinality(pos)
    BY <1>3, FS_Subset, FS_CardinalityType
  <2>2. n * (n + 1) \in Nat
    OBVIOUS
  <2>3. QED
    BY <2>1, <2>2
<1>11. TwiceAuc(samples, pos) = (m + r) - m
  BY <1>5, <1>8, <1>9, <1>10 DEF TwiceAuc
<1>12. QED
  BY <1>7, <1>9, <1>11

-----------------------------------------------------------------------------
(* The counts: predicted and actual cut the samples in four.                *)

LEMMA FourParts ==
  ASSUME NEW D, IsFiniteSet(D), NEW P \in SUBSET D, NEW A \in SUBSET D
  PROVE  Cardinality(P \cap A) + Cardinality(P \ A) + Cardinality(A \ P)
           + Cardinality((D \ A) \ P) = Cardinality(D)
<1>1. /\ IsFiniteSet(P \cap A) /\ IsFiniteSet(P \ A) /\ IsFiniteSet(A \ P)
      /\ IsFiniteSet((D \ A) \ P) /\ IsFiniteSet(P) /\ IsFiniteSet(D \ P)
  <2>1. \A S \in SUBSET D : IsFiniteSet(S)
    BY FS_Subset
  <2>2. QED
    BY <2>1
<1>2. PICK a, b, c, d, p, q, n \in Nat :
        /\ a = Cardinality(P \cap A) /\ b = Cardinality(P \ A)
        /\ c = Cardinality(A \ P) /\ d = Cardinality((D \ A) \ P)
        /\ p = Cardinality(P) /\ q = Cardinality(D \ P) /\ n = Cardinality(D)
  BY <1>1, FS_CardinalityType
<1>3. \A S, T : IsFiniteSet(S) /\ IsFiniteSet(T) /\ S \cap T = {} =>
        Cardinality(S \cup T) = Cardinality(S) + Cardinality(T) - 0
  BY FS_Union, FS_EmptySet
<1>4. p = a + b - 0
  <2>1. /\ (P \cap A) \cup (P \ A) = P
        /\ (P \cap A) \cap (P \ A) = {}
    OBVIOUS
  <2>2. Cardinality((P \cap A) \cup (P \ A))
          = Cardinality(P \cap A) + Cardinality(P \ A) - 0
    BY <1>1, <1>3, <2>1
  <2>3. QED
    BY <1>2, <2>1, <2>2
<1>5. q = c + d - 0
  <2>1. /\ (A \ P) \cup ((D \ A) \ P) = D \ P
        /\ (A \ P) \cap ((D \ A) \ P) = {}
    OBVIOUS
  <2>2. Cardinality((A \ P) \cup ((D \ A) \ P))
          = Cardinality(A \ P) + Cardinality((D \ A) \ P) - 0
    BY <1>1, <1>3, <2>1
  <2>3. QED
    BY <1>2, <2>1, <2>2
<1>6. n = p + q - 0
  <2>1. P \cup (D \ P) = D /\ P \cap (D \ P) = {}
    OBVIOUS
  <2>2. Cardinality(P \cup (D \ P)) = Cardinality(P) + Cardinality(D \ P) - 0
    BY <1>1, <1>3, <2>1
  <2>3. QED
    BY <1>2, <2>1, <2>2
<1>7. a + b + c + d = n
  BY <1>2, <1>4, <1>5, <1>6
<1>8. QED
  BY <1>2, <1>7

LEMMA CountsAgree ==
  ASSUME NEW samples, IsFiniteSet(DOMAIN samples),
         \A i \in DOMAIN samples : samples[i].level \in Nat,
         NEW R, R = Metrics(samples)
  PROVE  /\ R.tp + R.fp + R.fn + R.tn = Cardinality(DOMAIN samples)
         /\ R.false_quarantine <= R.fp
<1>1. PICK D : D = DOMAIN samples
  OBVIOUS
<1>2. PICK A : A = {i \in D : IsLabeledAttack(samples[i])}
  OBVIOUS
<1>3. PICK P : P = {i \in D : samples[i].level >= PredictedPositive}
  OBVIOUS
<1>4. PICK Q : Q = {i \in D \ A : samples[i].level >= Quarantine}
  OBVIOUS
<1>5. /\ R.tp = Cardinality(P \cap A) /\ R.fp = Cardinality(P \ A)
      /\ R.fn = Cardinality(A \ P) /\ R.tn = Cardinality((D \ A) \ P)
      /\ R.false_quarantine = Cardinality(Q)
  BY <1>1, <1>2, <1>3, <1>4 DEF Metrics
<1>6. P \in SUBSET D /\ A \in SUBSET D /\ IsFiniteSet(D)
  BY <1>1, <1>2, <1>3
<1>7. Q \in SUBSET (P \ A)
  BY <1>1, <1>3, <1>4 DEF Quarantine, PredictedPositive
<1>8. Cardinality(Q) <= Cardinality(P \ A)
  <2>1. IsFiniteSet(P \ A)
    BY <1>6, FS_Subset
  <2>2. QED
    BY <1>7, <2>1, FS_Subset
<1>9. Cardinality(P \cap A) + Cardinality(P \ A) + Cardinality(A \ P)
        + Cardinality((D \ A) \ P) = Cardinality(D)
  BY <1>6, FourParts
<1>10. QED
  BY <1>1, <1>5, <1>8, <1>9

-----------------------------------------------------------------------------
(* Runs of a label, of the events in a set.                                 *)

Uniform(L, E, i, j) == \A k \in E : i <= k /\ k <= j => L[k] = L[i]

Maximal(L, E, i, j) ==
  /\ i \in E /\ j \in E /\ i <= j
  /\ Uniform(L, E, i, j)
  /\ \A k \in E : /\ k < i => ~Uniform(L, E, k, j)
                  /\ k > j => ~Uniform(L, E, i, k)

(* The run that ends with the last event.                                   *)
LastRun(L, E, a, b) ==
  /\ a \in E /\ b \in E /\ a <= b
  /\ Uniform(L, E, a, b)
  /\ \A k \in E : k <= b /\ (k < a => ~Uniform(L, E, k, b))

LEMMA LastIsMaximal ==
  ASSUME NEW L, NEW E \in SUBSET Nat, NEW a, NEW b, LastRun(L, E, a, b)
  PROVE  /\ Maximal(L, E, a, b)
         /\ \A i, j : Maximal(L, E, i, j) => (i = a /\ j = b) \/ j < a
<1>1. a \in Nat /\ b \in Nat
  BY DEF LastRun
<1>2. Maximal(L, E, a, b)
  <2>1. \A k \in E : ~(k > b)
    BY <1>1 DEF LastRun
  <2>2. QED
    BY <2>1 DEF LastRun, Maximal
<1>3. ASSUME NEW i, NEW j, Maximal(L, E, i, j), ~(j < a)
      PROVE  i = a /\ j = b
  <2>1. /\ i \in Nat /\ j \in Nat /\ i \in E /\ j \in E /\ i <= j
        /\ a <= j /\ j <= b
    BY <1>1, <1>3 DEF Maximal, LastRun
  <2>2. \A k \in E : a <= k => L[k] = L[a]
    BY <1>1 DEF LastRun, Uniform
  <2>3. \A k \in E : i <= k => L[k] = L[i]
    <3>1. L[j] = L[a] /\ L[j] = L[i]
      BY <1>3, <2>1, <2>2 DEF Maximal, Uniform
    <3>2. \A k \in E : i <= k /\ k <= j => L[k] = L[i]
      BY <1>3 DEF Maximal, Uniform
    <3>3. QED
      BY <1>1, <2>1, <2>2, <3>1, <3>2
  <2>4. j = b
    <3>1. Uniform(L, E, i, b)
      BY <2>3 DEF Uniform
    <3>2. ~(b > j)
      BY <1>3, <3>1 DEF Maximal, LastRun
    <3>3. QED
      BY <1>1, <2>1, <3>2
  <2>5. i = a
    <3>1. Uniform(L, E, i, b) /\ Uniform(L, E, a, j)
      BY <2>2, <2>3 DEF Uniform
    <3>2. ~(i < a) /\ ~(a < i)
      BY <1>3, <2>1, <3>1 DEF Maximal, LastRun
    <3>3. QED
      BY <1>1, <2>1, <3>2
  <2>6. QED
    BY <2>4, <2>5
<1>4. QED
  BY <1>2, <1>3

(* One more event: the runs among those before it.                          *)
LEMMA UniformBefore ==
  ASSUME NEW L, NEW E \in SUBSET Nat, NEW x \in Nat, \A k \in E : k < x,
         NEW i \in E, NEW j \in E
  PROVE  Uniform(L, E \cup {x}, i, j) <=> Uniform(L, E, i, j)
BY DEF Uniform

LEMMA UniformTo ==
  ASSUME NEW L, NEW E \in SUBSET Nat, NEW x \in Nat, \A k \in E : k < x,
         NEW i \in E, NEW b \in E, \A k \in E : k <= b
  PROVE  Uniform(L, E \cup {x}, i, x) <=> Uniform(L, E, i, b) /\ L[i] = L[x]
BY DEF Uniform

LEMMA MaximalBefore ==
  ASSUME NEW L, NEW E \in SUBSET Nat, NEW x \in Nat, \A k \in E : k < x,
         NEW b \in E, \A k \in E : k <= b,
         NEW i, NEW j
  PROVE  Maximal(L, E \cup {x}, i, j) /\ j < x
           <=> /\ Maximal(L, E, i, j)
               /\ ~(Uniform(L, E, i, b) /\ L[i] = L[x])
<1>1. \A p, q \in E : Uniform(L, E \cup {x}, p, q) <=> Uniform(L, E, p, q)
  BY UniformBefore
<1>2. \A p \in E :
        Uniform(L, E \cup {x}, p, x) <=> Uniform(L, E, p, b) /\ L[p] = L[x]
  BY UniformTo
<1>3. ASSUME Maximal(L, E \cup {x}, i, j), j < x
      PROVE  Maximal(L, E, i, j) /\ ~(Uniform(L, E, i, b) /\ L[i] = L[x])
  <2>1. /\ i \in E \cup {x} /\ j \in E \cup {x} /\ i <= j
        /\ Uniform(L, E \cup {x}, i, j)
        /\ \A k \in E \cup {x} : /\ k < i => ~Uniform(L, E \cup {x}, k, j)
                                 /\ k > j => ~Uniform(L, E \cup {x}, i, k)
    BY <1>3 DEF Maximal
  <2>2. i \in E /\ j \in E
    BY <1>3, <2>1
  <2>3. x > j
    BY <1>3, <2>2
  <2>4. Maximal(L, E, i, j)
    BY <1>1, <2>1, <2>2 DEF Maximal
  <2>5. ~Uniform(L, E \cup {x}, i, x)
    BY <2>1, <2>3
  <2>6. QED
    BY <1>2, <2>2, <2>4, <2>5
<1>4. ASSUME Maximal(L, E, i, j), ~(Uniform(L, E, i, b) /\ L[i] = L[x])
      PROVE  Maximal(L, E \cup {x}, i, j) /\ j < x
  <2>1. /\ i \in E /\ j \in E /\ i <= j /\ i \in Nat /\ j \in Nat
        /\ Uniform(L, E, i, j)
        /\ \A k \in E : /\ k < i => ~Uniform(L, E, k, j)
                        /\ k > j => ~Uniform(L, E, i, k)
    BY <1>4 DEF Maximal
  <2>2. i < x /\ j < x
    BY <2>1
  <2>3. Uniform(L, E \cup {x}, i, j) /\ ~Uniform(L, E \cup {x}, i, x)
    BY <1>1, <1>2, <1>4, <2>1
  <2>4. \A k \in E \cup {x} : /\ k < i => ~Uniform(L, E \cup {x}, k, j)
                              /\ k > j => ~Uniform(L, E \cup {x}, i, k)
    BY <1>1, <2>1, <2>2, <2>3
  <2>5. QED
    BY <2>1, <2>2, <2>3, <2>4 DEF Maximal
<1>5. QED
  BY <1>3, <1>4

LEMMA RunBreaks ==
  ASSUME NEW L, NEW E \in SUBSET Nat, NEW x \in Nat, \A k \in E : k < x,
         NEW a, NEW b, LastRun(L, E, a, b), L[a] # L[x]
  PROVE  /\ LastRun(L, E \cup {x}, x, x)
         /\ \A i, j : Maximal(L, E \cup {x}, i, j) /\ j < x
                        <=> Maximal(L, E, i, j)
<1>1. b \in E /\ a \in E /\ L[b] = L[a] /\ \A k \in E : k <= b
  BY DEF LastRun, Uniform
<1>2. \A i \in E : ~(Uniform(L, E, i, b) /\ L[i] = L[x])
  BY <1>1 DEF Uniform
<1>3. LastRun(L, E \cup {x}, x, x)
  <2>1. \A k \in E : ~Uniform(L, E \cup {x}, k, x)
    BY <1>1, <1>2, UniformTo
  <2>2. Uniform(L, E \cup {x}, x, x)
    BY DEF Uniform
  <2>3. QED
    BY <2>1, <2>2 DEF LastRun
<1>4. \A i, j : Maximal(L, E \cup {x}, i, j) /\ j < x
                  <=> /\ Maximal(L, E, i, j)
                      /\ ~(Uniform(L, E, i, b) /\ L[i] = L[x])
  BY <1>1, MaximalBefore
<1>5. \A i, j : Maximal(L, E, i, j) => i \in E
  BY DEF Maximal
<1>6. QED
  BY <1>2, <1>3, <1>4, <1>5

LEMMA RunGoesOn ==
  ASSUME NEW L, NEW E \in SUBSET Nat, NEW x \in Nat, \A k \in E : k < x,
         NEW a, NEW b, LastRun(L, E, a, b), L[a] = L[x]
  PROVE  /\ LastRun(L, E \cup {x}, a, x)
         /\ \A i, j : Maximal(L, E \cup {x}, i, j) /\ j < a
                        <=> Maximal(L, E, i, j) /\ j < a
<1>1. /\ b \in E /\ a \in E /\ a <= b /\ \A k \in E : k <= b
      /\ Uniform(L, E, a, b) /\ \A k \in E : k < a => ~Uniform(L, E, k, b)
      /\ a \in Nat /\ b \in Nat /\ a < x /\ b < x
  BY DEF LastRun
<1>2. LastRun(L, E \cup {x}, a, x)
  <2>1. \A k \in E :
          Uniform(L, E \cup {x}, k, x) <=> Uniform(L, E, k, b) /\ L[k] = L[x]
    BY <1>1, UniformTo
  <2>2. Uniform(L, E \cup {x}, a, x)
    BY <1>1, <2>1
  <2>3. \A k \in E \cup {x} :
          k <= x /\ (k < a => ~Uniform(L, E \cup {x}, k, x))
    BY <1>1, <2>1
  <2>4. QED
    BY <1>1, <2>2, <2>3 DEF LastRun
<1>3. \A i, j : Maximal(L, E \cup {x}, i, j) /\ j < x
                  <=> /\ Maximal(L, E, i, j)
                      /\ ~(Uniform(L, E, i, b) /\ L[i] = L[x])
  BY <1>1, MaximalBefore
<1>4. ASSUME NEW i, NEW j, Maximal(L, E, i, j), j < a
      PROVE  ~Uniform(L, E, i, b) /\ j < x
  <2>1. j \in E /\ j \in Nat
    BY <1>4 DEF Maximal
  <2>2. b > j /\ j < x
    BY <1>1, <1>4, <2>1
  <2>3. QED
    BY <1>1, <1>4, <2>2 DEF Maximal
<1>5. ASSUME NEW i, NEW j, Maximal(L, E \cup {x}, i, j), j < a
      PROVE  j < x
  <2>1. j \in Nat
    BY <1>5 DEF Maximal
  <2>2. QED
    BY <1>1, <1>5, <2>1
<1>6. QED
  BY <1>2, <1>3, <1>4, <1>5

-----------------------------------------------------------------------------
(* Scans: `iter' of the fold is the recursive function that scans each set  *)
(* of events, the last of them last.                                        *)

LEMMA MaxIs ==
  ASSUME NEW S, S \subseteq Nat, IsFiniteSet(S), S # {}
  PROVE  Max(S) \in S /\ \A y \in S : y <= Max(S)
<1> DEFINE Bounded(s) == \E x \in s : \A y \in s : y <= x
           F == {s \in SUBSET S : s = {} \/ Bounded(s)}
<1>1. ASSUME NEW s \in SUBSET S, \A t \in SUBSET s : t # s => t \in F
      PROVE  s \in F
  <2> SUFFICES ASSUME s # {} PROVE Bounded(s)
    OBVIOUS
  <2>1. PICK x \in s : TRUE
    OBVIOUS
  <2>2. s \ {x} \in SUBSET s /\ s \ {x} # s
    BY <2>1
  <2>3. s \ {x} \in F
    BY <1>1, <2>2
  <2>4. CASE s \ {x} = {}
    BY <2>1, <2>4
  <2>5. CASE Bounded(s \ {x})
    <3>1. PICK z \in s \ {x} : \A y \in s \ {x} : y <= z
      BY <2>5
    <3>2. x \in Nat /\ z \in Nat /\ s \subseteq Nat
      OBVIOUS
    <3>3. CASE x <= z
      BY <3>1, <3>2, <3>3
    <3>4. CASE z < x
      <4>1. \A y \in s : y <= x
        BY <3>1, <3>2, <3>4
      <4>2. QED
        BY <4>1
    <3>5. QED
      BY <3>2, <3>3, <3>4
  <2>6. QED
    BY <2>3, <2>4, <2>5
<1> HIDE DEF F
<1>2. \A s \in SUBSET S : s \in F
  BY <1>1, SubsetsInSet
<1>3. Bounded(S)
  BY <1>2 DEF F
<1>4. \E x \in S : \A y \in S : x >= y
  BY <1>3
<1>5. QED
  BY <1>4 DEF Max

NoScans == [c \in Clients |-> [run |-> <<>>, done |-> {}]]

IsPartialScan(g, evs) ==
  g = [s \in SUBSET DOMAIN evs |->
         IF s = {} THEN NoScans
         ELSE LET x == Max(s) IN ScannedNext(g[s \ {x}], evs[x])]

PartialScan(evs) == CHOOSE g : IsPartialScan(g, evs)

LEMMA ScansIsPartial ==
  \A evs : Scans(evs) = PartialScan(evs)[DOMAIN evs]
BY DEF Scans, FoldLeft, MapThenFoldSet, PartialScan, IsPartialScan, NoScans

LEMMA PartialScansExist ==
  ASSUME NEW evs, IsFiniteSet(DOMAIN evs), DOMAIN evs \subseteq Nat
  PROVE  \E g : IsPartialScan(g, evs)
<1> DEFINE D == DOMAIN evs
           Small(n) == {s \in SUBSET D : Cardinality(s) <= n}
           Unfold(g, s) == IF s = {} THEN NoScans
                           ELSE ScannedNext(g[s \ {Max(s)}], evs[Max(s)])
           Upto(n, g) == g = [s \in Small(n) |-> Unfold(g, s)]
           F == {n \in Nat : \E g : Upto(n, g)}
<1>1. \A s \in SUBSET D : /\ IsFiniteSet(s)
                          /\ Cardinality(s) \in Nat
                          /\ Cardinality(s) <= Cardinality(D)
  BY FS_Subset, FS_CardinalityType
<1>2. \A s \in SUBSET D : s # {} =>
        /\ Max(s) \in s
        /\ s \ {Max(s)} \in SUBSET D
        /\ Cardinality(s \ {Max(s)}) = Cardinality(s) - 1
  <2>1. \A s \in SUBSET D : s # {} => Max(s) \in s
    BY <1>1, MaxIs
  <2>2. QED
    BY <1>1, <2>1, FS_RemoveElement
<1>3. \A s \in Small(0) : s = {}
  BY <1>1, FS_EmptySet
<1>4. 0 \in F
  <2> DEFINE g == [s \in Small(0) |-> NoScans]
  <2>1. \A s \in Small(0) : Unfold(g, s) = NoScans
    BY <1>3
  <2>2. Upto(0, g)
    <3> HIDE DEF Small, Unfold
    <3> QED BY <2>1
  <2>3. QED
    BY <2>2
<1>5. ASSUME NEW n \in Nat, n \in F PROVE n + 1 \in F
  <2>1. PICK g : Upto(n, g)
    BY <1>5
  <2> DEFINE h == [s \in Small(n + 1) |-> Unfold(g, s)]
  <2>2. \A s \in Small(n + 1) : s # {} => s \ {Max(s)} \in Small(n)
    BY <1>1, <1>2
  <2>3. \A s \in Small(n) : h[s] = g[s]
    <3>1. \A s \in Small(n) : s \in Small(n + 1)
      BY <1>1
    <3> HIDE DEF Unfold, Small
    <3>2. QED
      BY <3>1, <2>1
  <2>4. \A s \in Small(n + 1) : Unfold(g, s) = Unfold(h, s)
    <3> SUFFICES ASSUME NEW s \in Small(n + 1)
                 PROVE  Unfold(g, s) = Unfold(h, s)
      OBVIOUS
    <3>1. s # {} => h[s \ {Max(s)}] = g[s \ {Max(s)}]
      <4> HIDE DEF h, Small
      <4> QED BY <2>2, <2>3
    <3> HIDE DEF h
    <3>2. QED
      BY <3>1
  <2>5. Upto(n + 1, h)
    <3> HIDE DEF Unfold, Small
    <3> QED BY <2>4
  <2> HIDE DEF h, Upto
  <2>6. QED
    BY <2>5
<1>6. \E g : Upto(Cardinality(D), g)
  <2> HIDE DEF F
  <2>1. \A n \in Nat : n \in F
    BY <1>4, <1>5, NatInSet
  <2>2. QED
    BY <2>1, <1>1 DEF F
<1>7. PICK g : Upto(Cardinality(D), g)
  BY <1>6
<1>8. Small(Cardinality(D)) = SUBSET D
  BY <1>1
<1>9. g = [s \in SUBSET D |-> Unfold(g, s)]
  <2> HIDE DEF Small, Unfold
  <2> QED BY <1>7, <1>8
<1>10. IsPartialScan(g, evs)
  BY <1>9 DEF IsPartialScan
<1>11. QED
  BY <1>10

(* The scans of the first k events, one event after the other.              *)
ScansTo(evs, k) == PartialScan(evs)[1..k]

LEMMA ScanByScan ==
  ASSUME NEW n \in Nat, NEW evs, DOMAIN evs = 1..n
  PROVE  /\ ScansTo(evs, 0) = NoScans
         /\ \A k \in 0..(n - 1) :
              ScansTo(evs, k + 1) = ScannedNext(ScansTo(evs, k), evs[k + 1])
         /\ Scans(evs) = ScansTo(evs, n)
<1>1. IsPartialScan(PartialScan(evs), evs)
  <2>1. IsFiniteSet(1..n) /\ 1..n \subseteq Nat
    BY FS_Interval
  <2>2. QED
    BY <2>1, PartialScansExist DEF PartialScan
<1>2. PICK g : g = PartialScan(evs)
  OBVIOUS
<1>3. \A s \in SUBSET (1..n) :
        g[s] = IF s = {} THEN NoScans
               ELSE ScannedNext(g[s \ {Max(s)}], evs[Max(s)])
  BY <1>1, <1>2 DEF IsPartialScan
<1>4. g[1..0] = NoScans
  <2>1. 1..0 = {}
    OBVIOUS
  <2>2. QED
    BY <1>3, <2>1
<1>5. ASSUME NEW k \in 0..(n - 1)
      PROVE  g[1..(k + 1)] = ScannedNext(g[1..k], evs[k + 1])
  <2>1. PICK s : s = 1..(k + 1)
    OBVIOUS
  <2>2. k + 1 \in Nat /\ k + 1 <= n
    OBVIOUS
  <2>3. s \in SUBSET (1..n) /\ s # {} /\ s \subseteq Nat /\ k + 1 \in s
    <3>1. PICK m : m = k + 1
      OBVIOUS
    <3>2. s = 1..m /\ m \in Nat /\ m <= n /\ 1 <= m
      BY <2>1, <2>2, <3>1
    <3>3. m \in 1..m /\ 1..m \subseteq 1..n /\ 1..m \subseteq Nat
      BY <3>2
    <3>4. QED
      BY <3>1, <3>2, <3>3
  <2>4. IsFiniteSet(s)
    BY <2>1, FS_Interval
  <2>5. Max(s) = k + 1
    <3>1. Max(s) \in s /\ \A y \in s : y <= Max(s)
      BY <2>3, <2>4, MaxIs
    <3>2. QED
      BY <2>1, <2>2, <2>3, <3>1
  <2>6. s \ {k + 1} = 1..k
    BY <2>1, <2>2
  <2>7. QED
    BY <1>3, <2>1, <2>3, <2>5, <2>6
<1>6. Scans(evs) = g[1..n]
  BY <1>2, ScansIsPartial
<1>7. QED
  BY <1>2, <1>4, <1>5, <1>6 DEF ScansTo

(* The interval of the events from i to j, and those of the attacks among   *)
(* the events in a set.                                                     *)
Spanned(evs, i, j) ==
  [client |-> evs[i].client, start_ts |-> evs[i].ts, end_ts |-> evs[j].ts,
   attack |-> evs[i].label]

Labels(evs) == [i \in DOMAIN evs |-> evs[i].label]

AttacksIn(evs, E) ==
  {r \in E \X E : /\ evs[r[1]].label # Benign
                  /\ Maximal(Labels(evs), E, r[1], r[2])}

Spans(evs, R) == {Spanned(evs, r[1], r[2]) : r \in R}

(* What the scan of a client has found when E are its events so far: the    *)
(* runs that ended, and the last one, which may go on.                      *)
RunIs(scan, evs, E, a, b) ==
  /\ LastRun(Labels(evs), E, a, b)
  /\ scan.run = <<Spanned(evs, a, b)>>
  /\ scan.done = Spans(evs, {r \in AttacksIn(evs, E) : r[2] < a})
  /\ DOMAIN scan = {"run", "done"}

ScanHas(scan, evs, E) ==
  IF E = {} THEN scan = [run |-> <<>>, done |-> {}]
  ELSE \E a, b \in E : RunIs(scan, evs, E, a, b)

LEMMA SpansOneMore ==
  ASSUME NEW evs, NEW R, NEW a, NEW b
  PROVE  Spans(evs, R \cup {<<a, b>>})
           = Spans(evs, R) \cup {Spanned(evs, a, b)}
<1>1. \A Q : \A v : v \in Spans(evs, Q) <=>
                       \E r \in Q : v = Spanned(evs, r[1], r[2])
  BY DEF Spans
<1>2. PICK z : z = <<a, b>>
  OBVIOUS
<1>3. z[1] = a /\ z[2] = b
  BY <1>2
<1>4. \A v : (\E r \in R \cup {z} : v = Spanned(evs, r[1], r[2])) <=>
              \/ \E r \in R : v = Spanned(evs, r[1], r[2])
              \/ v = Spanned(evs, a, b)
  BY <1>3
<1>5. \A v : v \in Spans(evs, R \cup {z}) <=>
               v \in Spans(evs, R) \/ v = Spanned(evs, a, b)
  BY <1>1, <1>4
<1>6. QED
  BY <1>2, <1>5

(* A scan that has this gives the intervals of all attacks so far.          *)
LEMMA ScanClosed ==
  ASSUME NEW evs, NEW E \in SUBSET Nat, NEW scan, ScanHas(scan, evs, E),
         E \subseteq DOMAIN evs
  PROVE  scan.done \cup ClosedRun(scan) = Spans(evs, AttacksIn(evs, E))
<1>1. CASE E = {}
  <2>1. scan = [run |-> <<>>, done |-> {}]
    BY <1>1 DEF ScanHas
  <2>2. scan.done = {} /\ ClosedRun(scan) = {}
    BY <2>1 DEF ClosedRun
  <2>3. AttacksIn(evs, E) = {}
    BY <1>1 DEF AttacksIn
  <2>4. QED
    BY <2>2, <2>3 DEF Spans
<1>2. CASE E # {}
  <2>1. PICK a, b \in E :
          /\ LastRun(Labels(evs), E, a, b)
          /\ scan.run = <<Spanned(evs, a, b)>>
          /\ scan.done = Spans(evs, {r \in AttacksIn(evs, E) : r[2] < a})
    BY <1>2 DEF ScanHas, RunIs
  <2>2. /\ Maximal(Labels(evs), E, a, b)
        /\ \A i, j : Maximal(Labels(evs), E, i, j)
                       => (i = a /\ j = b) \/ j < a
    BY <2>1, LastIsMaximal
  <2>3. ~(b < a)
    <3>1. a \in Nat /\ b \in Nat /\ a <= b
      BY <2>1 DEF LastRun
    <3>2. QED
      BY <3>1
  <2>4. ClosedRun(scan) = IF evs[a].label = Benign THEN {}
                          ELSE {Spanned(evs, a, b)}
    <3>1. scan.run # <<>> /\ scan.run[1] = Spanned(evs, a, b)
      BY <2>1
    <3>2. scan.run[1].attack = evs[a].label
      BY <3>1 DEF Spanned
    <3>3. QED
      BY <3>1, <3>2 DEF ClosedRun
  <2>5. AttacksIn(evs, E) =
          {r \in AttacksIn(evs, E) : r[2] < a}
            \cup (IF evs[a].label = Benign THEN {} ELSE {<<a, b>>})
    <3>1. ASSUME NEW r \in AttacksIn(evs, E), ~(r[2] < a)
          PROVE  evs[a].label # Benign /\ r = <<a, b>>
      BY <2>2, <3>1 DEF AttacksIn
    <3>2. evs[a].label # Benign => <<a, b>> \in AttacksIn(evs, E)
      BY <2>1, <2>2 DEF AttacksIn
    <3>3. QED
      BY <3>1, <3>2
  <2>6. QED
    <3>1. Spans(evs, AttacksIn(evs, E)) =
            Spans(evs, {r \in AttacksIn(evs, E) : r[2] < a})
              \cup (IF evs[a].label = Benign THEN {} ELSE {Spanned(evs, a, b)})
      <4>1. CASE evs[a].label = Benign
        BY <2>5, <4>1
      <4>2. CASE evs[a].label # Benign
        BY <2>5, <4>2, SpansOneMore
      <4>3. QED
        BY <4>1, <4>2
    <3>2. QED
      BY <2>1, <2>4, <3>1
<1>3. QED
  BY <1>1, <1>2

(* An event of the client takes its scan one event further.                 *)
LEMMA ScannedHas ==
  ASSUME NEW evs, NEW E \in SUBSET Nat, NEW scan, ScanHas(scan, evs, E),
         NEW x \in Nat, \A k \in E : k < x, E \cup {x} \subseteq DOMAIN evs,
         \A k \in E : evs[k].client = evs[x].client
  PROVE  ScanHas(Scanned(scan, evs[x]), evs, E \cup {x})
<1>1. Opened(evs[x]) = Spanned(evs, x, x)
  BY DEF Opened, Spanned
<1>2. E \cup {x} # {}
  OBVIOUS
<1>3. CASE E = {}
  <2>1. scan = [run |-> <<>>, done |-> {}]
    BY <1>3 DEF ScanHas
  <2>2. Scanned(scan, evs[x]) = [run |-> <<Spanned(evs, x, x)>>, done |-> {}]
    <3>1. scan.run = <<>> /\ scan.done = {} /\ ClosedRun(scan) = {}
      BY <2>1 DEF ClosedRun
    <3>2. QED
      BY <1>1, <3>1 DEF Scanned
  <2>3. E \cup {x} = {x}
    BY <1>3
  <2>4. LastRun(Labels(evs), {x}, x, x)
    BY DEF LastRun, Uniform
  <2>5. {r \in AttacksIn(evs, {x}) : r[2] < x} = {}
    BY DEF AttacksIn
  <2>6. Spans(evs, {r \in AttacksIn(evs, {x}) : r[2] < x}) = {}
    BY <2>5 DEF Spans
  <2>7. RunIs(Scanned(scan, evs[x]), evs, {x}, x, x)
    <3>1. PICK t : t = Scanned(scan, evs[x])
      OBVIOUS
    <3>2. /\ t.run = <<Spanned(evs, x, x)>> /\ t.done = {}
          /\ DOMAIN t = {"run", "done"}
      BY <2>2, <3>1
    <3>3. RunIs(t, evs, {x}, x, x)
      BY <2>4, <2>6, <3>2 DEF RunIs
    <3>4. QED
      BY <3>1, <3>3
  <2>8. QED
    BY <2>3, <2>7 DEF ScanHas
<1>4. CASE E # {}
  <2>1. PICK a, b \in E :
          /\ LastRun(Labels(evs), E, a, b)
          /\ scan.run = <<Spanned(evs, a, b)>>
          /\ scan.done = Spans(evs, {r \in AttacksIn(evs, E) : r[2] < a})
          /\ DOMAIN scan = {"run", "done"}
    BY <1>4 DEF ScanHas, RunIs
  <2>2. /\ scan.run # <<>> /\ scan.run[1] = Spanned(evs, a, b)
        /\ scan.run[1].attack = evs[a].label
    BY <2>1 DEF Spanned
  <2>3. /\ Labels(evs)[a] = evs[a].label /\ Labels(evs)[x] = evs[x].label
    BY DEF Labels
  <2>4. CASE evs[a].label # evs[x].label
    <3>1. Scanned(scan, evs[x])
            = [run |-> <<Spanned(evs, x, x)>>,
               done |-> scan.done \cup ClosedRun(scan)]
      BY <1>1, <2>2, <2>4 DEF Scanned
    <3>2. scan.done \cup ClosedRun(scan) = Spans(evs, AttacksIn(evs, E))
      BY ScanClosed
    <3>3. /\ LastRun(Labels(evs), E \cup {x}, x, x)
          /\ \A i, j : Maximal(Labels(evs), E \cup {x}, i, j) /\ j < x
                         <=> Maximal(Labels(evs), E, i, j)
      BY <2>1, <2>3, <2>4, RunBreaks
    <3>4. {r \in AttacksIn(evs, E \cup {x}) : r[2] < x} = AttacksIn(evs, E)
      <4>1. \A i, j : Maximal(Labels(evs), E, i, j) => i \in E /\ j \in E
        BY DEF Maximal
      <4>2. QED
        BY <3>3, <4>1 DEF AttacksIn
    <3>5. RunIs(Scanned(scan, evs[x]), evs, E \cup {x}, x, x)
      <4>1. PICK t : t = Scanned(scan, evs[x])
        OBVIOUS
      <4>2. /\ t.run = <<Spanned(evs, x, x)>>
            /\ t.done = Spans(evs, AttacksIn(evs, E))
            /\ DOMAIN t = {"run", "done"}
        BY <3>1, <3>2, <4>1
      <4>3. RunIs(t, evs, E \cup {x}, x, x)
        BY <3>3, <3>4, <4>2 DEF RunIs
      <4>4. QED
        BY <4>1, <4>3
    <3>6. QED
      BY <1>2, <3>5 DEF ScanHas
  <2>5. CASE evs[a].label = evs[x].label
    <3>1. Scanned(scan, evs[x]) = [scan EXCEPT !.run[1].end_ts = evs[x].ts]
      BY <2>2, <2>5 DEF Scanned
    <3>2. /\ Scanned(scan, evs[x]).run = <<Spanned(evs, a, x)>>
          /\ Scanned(scan, evs[x]).done = scan.done
          /\ DOMAIN Scanned(scan, evs[x]) = {"run", "done"}
      <4>1. [scan.run EXCEPT ![1].end_ts = evs[x].ts] = <<Spanned(evs, a, x)>>
        BY <2>1 DEF Spanned
      <4>2. QED
        BY <2>1, <3>1, <4>1
    <3>3. /\ LastRun(Labels(evs), E \cup {x}, a, x)
          /\ \A i, j : Maximal(Labels(evs), E \cup {x}, i, j) /\ j < a
                         <=> Maximal(Labels(evs), E, i, j) /\ j < a
      BY <2>1, <2>3, <2>5, RunGoesOn
    <3>4. {r \in AttacksIn(evs, E \cup {x}) : r[2] < a}
            = {r \in AttacksIn(evs, E) : r[2] < a}
      <4>1. \A i, j : Maximal(Labels(evs), E, i, j) => i \in E /\ j \in E
        BY DEF Maximal
      <4>2. QED
        BY <3>3, <4>1 DEF AttacksIn
    <3>5. RunIs(Scanned(scan, evs[x]), evs, E \cup {x}, a, x)
      BY <2>1, <3>2, <3>3, <3>4 DEF RunIs
    <3>6. QED
      BY <1>2, <3>5 DEF ScanHas
  <2>6. QED
    BY <2>4, <2>5
<1>5. QED
  BY <1>3, <1>4

(* The scan of a client has found, of the first k events, its own.          *)
Own(evs, c, k) == {i \in 1..k : evs[i].client = c}

LEMMA ScansHave ==
  ASSUME NEW n \in Nat, NEW evs, DOMAIN evs = 1..n,
         \A i \in 1..n : evs[i].client \in Clients, NEW c \in Clients
  PROVE  \A k \in 0..n : /\ DOMAIN ScansTo(evs, k) = Clients
                         /\ ScanHas(ScansTo(evs, k)[c], evs, Own(evs, c, k))
<1> DEFINE F == {k \in Nat : k <= n =>
                   /\ DOMAIN ScansTo(evs, k) = Clients
                   /\ ScanHas(ScansTo(evs, k)[c], evs, Own(evs, c, k))}
<1>1. /\ ScansTo(evs, 0) = NoScans
      /\ \A k \in 0..(n - 1) :
           ScansTo(evs, k + 1) = ScannedNext(ScansTo(evs, k), evs[k + 1])
  BY ScanByScan
<1>2. 0 \in F
  <2>1. Own(evs, c, 0) = {}
    BY DEF Own
  <2>2. /\ DOMAIN NoScans = Clients
        /\ NoScans[c] = [run |-> <<>>, done |-> {}]
    BY DEF NoScans
  <2>3. ScanHas(ScansTo(evs, 0)[c], evs, Own(evs, c, 0))
    BY <1>1, <2>1, <2>2 DEF ScanHas
  <2>4. QED
    BY <1>1, <2>2, <2>3
<1>3. ASSUME NEW k \in Nat, k \in F PROVE k + 1 \in F
  <2> SUFFICES ASSUME k + 1 <= n
               PROVE  /\ DOMAIN ScansTo(evs, k + 1) = Clients
                      /\ ScanHas(ScansTo(evs, k + 1)[c], evs,
                                 Own(evs, c, k + 1))
    OBVIOUS
  <2>1. PICK x \in Nat : x = k + 1
    OBVIOUS
  <2>2. PICK E : E = Own(evs, c, k)
    OBVIOUS
  <2>3. PICK f : f = ScansTo(evs, k)
    OBVIOUS
  <2>4. DOMAIN f = Clients /\ ScanHas(f[c], evs, E)
    BY <1>3, <2>2, <2>3
  <2>5. ScansTo(evs, x) = [f EXCEPT ![evs[x].client] = Scanned(@, evs[x])]
    BY <1>1, <2>1, <2>3 DEF ScannedNext
  <2>6. x \in 1..n /\ E \in SUBSET Nat /\ E \subseteq 1..n
        /\ \A i \in E : i < x /\ evs[i].client = c
    BY <2>1, <2>2 DEF Own
  <2>7. DOMAIN ScansTo(evs, x) = Clients
    BY <2>4, <2>5
  <2>8. CASE evs[x].client = c
    <3>1. Own(evs, c, x) = E \cup {x}
      BY <2>1, <2>2, <2>8 DEF Own
    <3>2. ScansTo(evs, x)[c] = Scanned(f[c], evs[x])
      BY <2>4, <2>5, <2>8
    <3>3. E \cup {x} \subseteq DOMAIN evs
      BY <2>6
    <3>4. ScanHas(Scanned(f[c], evs[x]), evs, E \cup {x})
      BY <2>4, <2>6, <2>8, <3>3, ScannedHas
    <3>5. QED
      BY <2>1, <2>7, <3>1, <3>2, <3>4
  <2>9. CASE evs[x].client # c
    <3>1. Own(evs, c, x) = E
      BY <2>1, <2>2, <2>9 DEF Own
    <3>2. ScansTo(evs, x)[c] = f[c]
      BY <2>4, <2>5, <2>9
    <3>3. QED
      BY <2>1, <2>4, <2>7, <3>1, <3>2
  <2>10. QED
    BY <2>8, <2>9
<1> HIDE DEF F
<1>4. \A k \in Nat : k \in F
  BY <1>2, <1>3, NatInSet
<1>5. QED
  BY <1>4 DEF F

LEMMA IntervalsFound ==
  ASSUME NEW n \in Nat, NEW evs, DOMAIN evs = 1..n,
         \A i \in 1..n : evs[i].client \in Clients, NEW c \in Clients
  PROVE  Scans(evs)[c].done \cup ClosedRun(Scans(evs)[c])
           = Spans(evs, AttacksIn(evs, Own(evs, c, n)))
<1>1. ScanHas(ScansTo(evs, n)[c], evs, Own(evs, c, n))
  BY ScansHave
<1>2. Scans(evs) = ScansTo(evs, n)
  BY ScanByScan
<1>3. Own(evs, c, n) \in SUBSET Nat /\ Own(evs, c, n) \subseteq DOMAIN evs
  BY DEF Own
<1>4. QED
  BY <1>1, <1>2, <1>3, ScanClosed
-----------------------------------------------------------------------------
USE WindowAssumption, ReplayAssumption

(* The replay: where each event is, and until when.                         *)

(* An open window began in the past and is not overdue for a sweep.         *)
OpenOnTime ==
  \A c \in Clients : acc[c] # NoWindow =>
    /\ acc[c].window_start <= now
    /\ now < acc[c].window_start + WindowLen + IdleGrace + SweepLate

(* What was sent is in an open window or in a row.                          *)
InOpen(i) == \E c \in Clients : acc[c] # NoWindow /\ i \in acc[c].entries
InRow(i)  == \E r \in 1..Len(rows) : i \in rows[r].entries
Placed    == \A i \in 1..Len(sent) : InOpen(i) \/ InRow(i)

RowsOnTime ==
  /\ StartWall <= now
  /\ \A r \in 1..Len(rows) : StartWall <= rows[r].ts /\ rows[r].ts <= now

(* After the replay no window begins; once the wait is over, none is open.  *)
Ended ==
  phase # "replay" =>
    /\ Len(sent) = Len(events)
    /\ end_wall <= now
    /\ now <= end_wall + Wait
    /\ \A c \in Clients : acc[c] # NoWindow => acc[c].window_start <= end_wall

Reported ==
  IF phase = "done"
  THEN /\ now >= end_wall + Wait
       /\ report = IF DOMAIN Samples = {} THEN <<>> ELSE <<Metrics(Samples)>>
  ELSE report = <<>>

IInv ==
  /\ TypeOK
  /\ OpenOnTime
  /\ Placed
  /\ RowsOnTime
  /\ Ended
  /\ Reported

LEMMA Initial == Init => IInv
<1> SUFFICES ASSUME Init PROVE IInv
  OBVIOUS
<1>1. events \in Seq(Event)
  <2>1. PICK origin \in Origins, n \in 1..MaxEvents :
          events \in Scripts(origin, n)
    BY DEF Init
  <2>2. n \in Nat /\ origin \in Nat
    OBVIOUS
  <2>3. [client : Clients, ts : origin..(origin + MaxSpan), label : Label]
          \subseteq Event
    <3>1. origin..(origin + MaxSpan) \subseteq Nat
      BY <2>2
    <3>2. QED
      BY <3>1 DEF Event
  <2>4. events \in [1..n -> [client : Clients, ts : origin..(origin + MaxSpan),
                             label : Label]]
    BY <2>1 DEF Scripts
  <2>5. events \in [1..n -> Event]
    BY <2>3, <2>4
  <2>6. QED
    BY <2>2, <2>5, SeqDef
<1>2. TypeOK
  BY <1>1 DEF Init, TypeOK, StartWall
<1>3. OpenOnTime
  BY DEF Init, OpenOnTime
<1>4. Placed
  BY DEF Init, Placed
<1>5. RowsOnTime
  BY DEF Init, RowsOnTime, StartWall
<1>6. Ended
  BY DEF Init, Ended
<1>7. Reported
  BY DEF Init, Reported
<1>8. QED
  BY <1>2, <1>3, <1>4, <1>5, <1>6, <1>7 DEF IInv

(* A window closes: what was in it is in its row.                           *)
LEMMA WindowRecorded ==
  ASSUME TypeOK, NEW c \in Clients, acc[c] # NoWindow, NEW v \in Verdicts
  PROVE  /\ Recorded(c, v) \in Seq(Row)
         /\ Len(Recorded(c, v)) = Len(rows) + 1
         /\ \A r \in 1..Len(rows) : Recorded(c, v)[r] = rows[r]
         /\ Recorded(c, v)[Len(rows) + 1].ts = now
         /\ Recorded(c, v)[Len(rows) + 1].entries = acc[c].entries
<1>1. acc[c].entries \in SUBSET Nat /\ now \in Nat /\ rows \in Seq(Row)
  BY DEF TypeOK, Accumulator
<1>2. PICK e : e = [client |-> c, ts |-> now, level |-> v.level,
                    trust |-> v.trust, entries |-> acc[c].entries]
  OBVIOUS
<1>3. v.level \in 0..4 /\ v.trust \in 0..100
  OBVIOUS
<1>4. e \in Row /\ e.ts = now /\ e.entries = acc[c].entries
  BY <1>1, <1>2, <1>3 DEF Row
<1>5. Recorded(c, v) = Append(rows, e)
  BY <1>2 DEF Recorded
<1>6. QED
  BY <1>1, <1>4, <1>5

(* The accumulator an event leaves.                                         *)
LEMMA EventCounted ==
  ASSUME TypeOK, OpenOnTime, NEW c \in Clients, NEW i \in Nat,
         NEW w, w = AfterEvent(acc[c], i, now)
  PROVE  /\ w \in Accumulator /\ w # NoWindow
         /\ w.window_start <= now
         /\ now < w.window_start + WindowLen + IdleGrace + SweepLate
         /\ i \in w.entries
         /\ ~Rolls(acc[c], now) /\ acc[c] # NoWindow
              => acc[c].entries \subseteq w.entries
<1>1. /\ now \in Nat /\ WindowLen \in Nat /\ IdleGrace \in Nat
      /\ WindowLen > 0 /\ SweepLate \in Nat /\ SweepLate > 0
  BY DEF TypeOK
<1>2. PICK a : a = acc[c]
  OBVIOUS
<1>3. CASE a = NoWindow
  <2>1. w = [window_start |-> now, entries |-> {i}]
    BY <1>2, <1>3 DEF AfterEvent
  <2>2. QED
    BY <1>1, <1>2, <1>3, <2>1 DEF Accumulator
<1>4. CASE a \in Accumulator
  <2>1. a # NoWindow /\ a.window_start \in Nat /\ a.entries \in SUBSET Nat
    BY <1>4 DEF Accumulator
  <2>2. /\ a.window_start <= now
        /\ now < a.window_start + WindowLen + IdleGrace + SweepLate
    BY <1>2, <2>1 DEF OpenOnTime
  <2>3. CASE Rolls(a, now)
    <3>1. w = [window_start |-> a.window_start + WindowLen, entries |-> {i}]
      BY <1>2, <2>1, <2>3 DEF AfterEvent
    <3>2. now >= a.window_start + WindowLen
      BY <2>3 DEF Rolls
    <3>3. /\ w.window_start = a.window_start + WindowLen
          /\ w \in Accumulator /\ i \in w.entries
      BY <1>1, <2>1, <3>1 DEF Accumulator
    <3>4. QED
      BY <1>1, <1>2, <2>1, <2>2, <2>3, <3>2, <3>3
  <2>4. CASE ~Rolls(a, now)
    <3>1. w = [a EXCEPT !.entries = @ \cup {i}]
      BY <1>2, <2>1, <2>4 DEF AfterEvent
    <3>2. /\ w.window_start = a.window_start
          /\ w.entries = a.entries \cup {i} /\ w \in Accumulator
      BY <1>4, <2>1, <3>1 DEF Accumulator
    <3>3. QED
      BY <1>2, <2>2, <3>2
  <2>5. QED
    BY <2>3, <2>4
<1>5. QED
  BY <1>2, <1>3, <1>4 DEF TypeOK

-----------------------------------------------------------------------------
(* The steps.                                                               *)

LEMMA PublishIInv ==
  ASSUME IInv, NEW v \in Verdicts, Publish(v)
  PROVE  IInv'
<1>1. TypeOK /\ OpenOnTime /\ Placed /\ RowsOnTime /\ Reported
  BY DEF IInv
<1>2. PICK n \in Nat : n = Len(sent)
  BY <1>1 DEF TypeOK
<1>3. PICK i \in Nat : i = n + 1
  OBVIOUS
<1>4. i \in 1..Len(events)
  <2>1. Len(events) \in Nat /\ n < Len(events)
    BY <1>1, <1>2 DEF TypeOK, Publish, Due
  <2>2. QED
    BY <1>3, <2>1
<1>5. PICK c \in Clients : c = events[i].client
  <2>1. events[i] \in Event
    BY <1>1, <1>4 DEF TypeOK
  <2>2. QED
    BY <2>1 DEF Event
<1>6. PICK w : w = AfterEvent(acc[c], i, now)
  OBVIOUS
<1>7. /\ phase = "replay"
      /\ sent' = Append(sent, now)
      /\ acc' = [acc EXCEPT ![c] = w]
      /\ rows' = IF Rolls(acc[c], now) THEN Recorded(c, v) ELSE rows
      /\ UNCHANGED <<events, speed, now, phase, end_wall, report>>
  BY <1>2, <1>3, <1>5, <1>6 DEF Publish
<1>8. /\ w \in Accumulator /\ w # NoWindow
      /\ w.window_start <= now
      /\ now < w.window_start + WindowLen + IdleGrace + SweepLate
      /\ i \in w.entries
      /\ ~Rolls(acc[c], now) /\ acc[c] # NoWindow
           => acc[c].entries \subseteq w.entries
  BY <1>1, <1>6, EventCounted
<1>9. PICK k \in Nat : k = Len(rows)
  BY <1>1 DEF TypeOK
<1>10. \/ /\ Rolls(acc[c], now) /\ acc[c] # NoWindow
          /\ rows' \in Seq(Row) /\ Len(rows') = k + 1
          /\ \A r \in 1..k : rows'[r] = rows[r]
          /\ rows'[k + 1].ts = now
          /\ rows'[k + 1].entries = acc[c].entries
       \/ /\ ~Rolls(acc[c], now)
          /\ rows' = rows
  <2>1. CASE Rolls(acc[c], now)
    <3>1. acc[c] # NoWindow
      BY <2>1 DEF Rolls
    <3>2. rows' = Recorded(c, v)
      BY <1>7, <2>1
    <3>3. QED
      BY <1>1, <1>9, <2>1, <3>1, <3>2, WindowRecorded
  <2>2. CASE ~Rolls(acc[c], now)
    BY <1>7, <2>2
  <2>3. QED
    BY <2>1, <2>2
<1>11. /\ acc' \in [Clients -> Accumulator \cup {NoWindow}] /\ acc'[c] = w
       /\ \A d \in Clients : d # c => acc'[d] = acc[d]
  BY <1>1, <1>7, <1>8 DEF TypeOK
<1>12. /\ sent' \in Seq(Nat) /\ Len(sent') = i
  BY <1>1, <1>2, <1>3, <1>7 DEF TypeOK
<1>13. TypeOK'
  <2>1. rows' \in Seq(Row)
    BY <1>1, <1>10 DEF TypeOK
  <2>2. QED
    BY <1>1, <1>7, <1>11, <1>12, <2>1 DEF TypeOK
<1>14. OpenOnTime'
  <2>1. ASSUME NEW d \in Clients, acc'[d] # NoWindow
        PROVE  /\ acc'[d].window_start <= now
               /\ now < acc'[d].window_start + WindowLen
                          + IdleGrace + SweepLate
    <3>1. CASE d = c
      BY <1>8, <1>11, <3>1
    <3>2. CASE d # c
      BY <1>1, <1>11, <2>1, <3>2 DEF OpenOnTime
    <3>3. QED
      BY <3>1, <3>2
  <2>2. QED
    BY <1>7, <2>1 DEF OpenOnTime
<1>15. Placed'
  <2>1. ASSUME NEW j \in 1..i
        PROVE  InOpen(j)' \/ InRow(j)'
    <3>1. CASE j = i
      BY <1>8, <1>11, <3>1 DEF InOpen
    <3>2. CASE InRow(j)
      <4>1. PICK r \in 1..k : j \in rows[r].entries
        BY <1>9, <3>2 DEF InRow
      <4>2. r \in 1..Len(rows') /\ rows'[r] = rows[r]
        BY <1>9, <1>10, <4>1
      <4>3. QED
        BY <4>1, <4>2 DEF InRow
    <3>3. CASE j # i /\ InOpen(j)
      <4>1. PICK d \in Clients : acc[d] # NoWindow /\ j \in acc[d].entries
        BY <3>3 DEF InOpen
      <4>2. CASE d # c
        BY <1>11, <4>1, <4>2 DEF InOpen
      <4>3. CASE d = c /\ ~Rolls(acc[c], now)
        BY <1>8, <1>11, <4>1, <4>3 DEF InOpen
      <4>4. CASE d = c /\ Rolls(acc[c], now)
        <5>1. k + 1 \in 1..Len(rows') /\ j \in rows'[k + 1].entries
          BY <1>10, <4>1, <4>4
        <5>2. QED
          BY <5>1 DEF InRow
      <4>5. QED
        BY <4>2, <4>3, <4>4
    <3>4. j # i => InOpen(j) \/ InRow(j)
      BY <1>1, <1>2, <1>3 DEF Placed
    <3>5. QED
      BY <3>1, <3>2, <3>3, <3>4
  <2>2. QED
    BY <1>12, <2>1 DEF Placed
<1>16. RowsOnTime'
  <2>1. now \in Nat
    BY <1>1 DEF TypeOK
  <2>2. ASSUME NEW r \in 1..Len(rows')
        PROVE  StartWall <= rows'[r].ts /\ rows'[r].ts <= now
    <3>1. CASE r \in 1..k
      BY <1>1, <1>9, <1>10, <3>1 DEF RowsOnTime
    <3>2. CASE r \notin 1..k
      <4>1. r = k + 1 /\ rows'[r].ts = now
        BY <1>9, <1>10, <3>2
      <4>2. QED
        BY <1>1, <2>1, <4>1 DEF RowsOnTime
    <3>3. QED
      BY <3>1, <3>2
  <2>3. QED
    BY <1>1, <1>7, <2>2 DEF RowsOnTime
<1>17. Ended' /\ Reported'
  BY <1>1, <1>7 DEF Ended, Reported
<1>18. QED
  BY <1>13, <1>14, <1>15, <1>16, <1>17 DEF IInv

(* Once the wait is over no window is open: the last began before the end   *)
(* of the replay, and the wait is longer than a window and its lateness.    *)
LEMMA NoneOpen ==
  ASSUME TypeOK, OpenOnTime, Ended, phase # "replay", now >= end_wall + Wait
  PROVE  \A c \in Clients : acc[c] = NoWindow
<1> SUFFICES ASSUME NEW c \in Clients, acc[c] # NoWindow PROVE FALSE
  OBVIOUS
<1>1. acc[c].window_start \in Nat
  BY DEF TypeOK, Accumulator
<1>2. PICK s \in Nat : s = acc[c].window_start
  BY <1>1
<1>3. s <= end_wall /\ now < s + WindowLen + IdleGrace + SweepLate
  BY <1>2 DEF Ended, OpenOnTime
<1>4. now \in Nat /\ end_wall \in Nat
  BY DEF TypeOK
<1>5. QED
  BY <1>3, <1>4 DEF Wait

LEMMA SweepOneIInv ==
  ASSUME IInv, NEW c \in Clients, NEW v \in Verdicts, SweepOne(c, v)
  PROVE  IInv'
<1>1. /\ TypeOK /\ OpenOnTime /\ Placed /\ RowsOnTime /\ Ended /\ Reported
  BY DEF IInv
<1>2. /\ acc[c] # NoWindow
      /\ acc' = [acc EXCEPT ![c] = NoWindow]
      /\ rows' = Recorded(c, v)
      /\ UNCHANGED <<events, speed, now, phase, sent, end_wall, report>>
  BY DEF SweepOne, Stale
<1>3. PICK k \in Nat : k = Len(rows)
  BY <1>1 DEF TypeOK
<1>4. /\ rows' \in Seq(Row) /\ Len(rows') = k + 1
      /\ \A r \in 1..k : rows'[r] = rows[r]
      /\ rows'[k + 1].ts = now
      /\ rows'[k + 1].entries = acc[c].entries
  BY <1>1, <1>2, <1>3, WindowRecorded
<1>5. /\ acc' \in [Clients -> Accumulator \cup {NoWindow}]
      /\ acc'[c] = NoWindow
      /\ \A d \in Clients : d # c => acc'[d] = acc[d]
  BY <1>1, <1>2 DEF TypeOK
<1>6. TypeOK'
  BY <1>1, <1>2, <1>4, <1>5 DEF TypeOK
<1>7. OpenOnTime'
  BY <1>1, <1>2, <1>5 DEF OpenOnTime
<1>8. Placed'
  <2>1. ASSUME NEW j \in 1..Len(sent)
        PROVE  InOpen(j)' \/ InRow(j)'
    <3>1. CASE InRow(j)
      <4>1. PICK r \in 1..k : j \in rows[r].entries
        BY <1>3, <3>1 DEF InRow
      <4>2. r \in 1..Len(rows') /\ rows'[r] = rows[r]
        BY <1>4, <4>1
      <4>3. QED
        BY <4>1, <4>2 DEF InRow
    <3>2. CASE InOpen(j)
      <4>1. PICK d \in Clients : acc[d] # NoWindow /\ j \in acc[d].entries
        BY <3>2 DEF InOpen
      <4>2. CASE d # c
        BY <1>5, <4>1, <4>2 DEF InOpen
      <4>3. CASE d = c
        <5>1. k + 1 \in 1..Len(rows') /\ j \in rows'[k + 1].entries
          BY <1>4, <4>1, <4>3
        <5>2. QED
          BY <5>1 DEF InRow
      <4>4. QED
        BY <4>2, <4>3
    <3>3. QED
      BY <1>1, <3>1, <3>2 DEF Placed
  <2>2. QED
    BY <1>2, <2>1 DEF Placed
<1>9. RowsOnTime'
  <2>1. now \in Nat
    BY <1>1 DEF TypeOK
  <2>2. ASSUME NEW r \in 1..Len(rows')
        PROVE  StartWall <= rows'[r].ts /\ rows'[r].ts <= now
    <3>1. CASE r \in 1..k
      BY <1>1, <1>3, <1>4, <3>1 DEF RowsOnTime
    <3>2. CASE r \notin 1..k
      <4>1. r = k + 1 /\ rows'[r].ts = now
        BY <1>4, <3>2
      <4>2. QED
        BY <1>1, <2>1, <4>1 DEF RowsOnTime
    <3>3. QED
      BY <3>1, <3>2
  <2>3. QED
    BY <1>1, <1>2, <2>2 DEF RowsOnTime
<1>10. Ended'
  <2>1. Wait' = Wait
    BY DEF Wait
  <2>2. QED
    BY <1>1, <1>2, <1>5, <2>1 DEF Ended
<1>11. Reported'
  <2>1. phase # "done"
    BY <1>1, <1>2, NoneOpen DEF Reported
  <2>2. QED
    BY <1>1, <1>2, <2>1 DEF Reported
<1>12. QED
  BY <1>6, <1>7, <1>8, <1>9, <1>10, <1>11 DEF IInv

LEMMA ReplayEndsIInv ==
  ASSUME IInv, ReplayEnds
  PROVE  IInv'
<1>1. /\ TypeOK /\ OpenOnTime /\ Placed /\ RowsOnTime /\ Reported
  BY DEF IInv
<1>2. /\ phase = "replay" /\ phase' = "wait"
      /\ Len(sent) = Len(events) /\ end_wall' = now
      /\ UNCHANGED <<events, speed, now, sent, acc, rows, report>>
  BY DEF ReplayEnds
<1>3. TypeOK'
  BY <1>1, <1>2 DEF TypeOK
<1>4. OpenOnTime' /\ Placed' /\ RowsOnTime'
  BY <1>1, <1>2 DEF OpenOnTime, Placed, InOpen, InRow, RowsOnTime
<1>5. Ended'
  <2>1. now \in Nat /\ Wait \in Nat /\ Wait' = Wait
    BY <1>1 DEF TypeOK, Wait
  <2>2. now <= now + Wait
    BY <2>1
  <2>3. QED
    BY <1>1, <1>2, <2>1, <2>2 DEF Ended, OpenOnTime
<1>6. Reported'
  BY <1>1, <1>2 DEF Reported
<1>7. QED
  BY <1>3, <1>4, <1>5, <1>6 DEF IInv

LEMMA SameReport ==
  ASSUME UNCHANGED <<events, end_wall, rows>>
  PROVE  Samples' = Samples /\ Metrics(Samples)' = Metrics(Samples)
<1>1. Samples' = Samples
  BY DEF Samples, Wait
<1>2. LabelIntervals' = LabelIntervals
  BY DEF LabelIntervals, IntervalsOf
<1>3. QED
  BY <1>1, <1>2 DEF Metrics, IsLabeledAttack, TwiceAuc, TwiceRank,
                    TimesToMitigation

LEMMA ReportIInv ==
  ASSUME IInv, Report
  PROVE  IInv'
<1>1. /\ TypeOK /\ OpenOnTime /\ Placed /\ RowsOnTime /\ Ended
  BY DEF IInv
<1>2. /\ phase = "wait" /\ phase' = "done" /\ now >= end_wall + Wait
      /\ report' = IF DOMAIN Samples = {} THEN <<>> ELSE <<Metrics(Samples)>>
      /\ UNCHANGED <<events, speed, now, sent, end_wall, acc, rows>>
  BY DEF Report
<1>3. TypeOK'
  BY <1>1, <1>2 DEF TypeOK
<1>4. OpenOnTime' /\ Placed' /\ RowsOnTime'
  BY <1>1, <1>2 DEF OpenOnTime, Placed, InOpen, InRow, RowsOnTime
<1>5. Ended'
  BY <1>1, <1>2 DEF Ended, Wait
<1>6. Reported'
  <2>1. Samples' = Samples /\ Metrics(Samples)' = Metrics(Samples)
    BY <1>2, SameReport
  <2>2. QED
    BY <1>2, <2>1 DEF Reported, Wait
<1>7. QED
  BY <1>3, <1>4, <1>5, <1>6 DEF IInv

LEMMA AdvanceIInv ==
  ASSUME IInv, Advance
  PROVE  IInv'
<1>1. /\ TypeOK /\ OpenOnTime /\ Placed /\ RowsOnTime /\ Ended /\ Reported
  BY DEF IInv
<1>2. /\ now' = now + 1 /\ phase # "done"
      /\ ~(phase = "wait" /\ now >= end_wall + Wait)
      /\ \A c \in Clients : acc[c] # NoWindow =>
           now + 1 < acc[c].window_start + WindowLen + IdleGrace + SweepLate
      /\ UNCHANGED <<events, speed, phase, sent, end_wall, acc, rows, report>>
  BY DEF Advance
<1>3. now \in Nat /\ end_wall \in Nat /\ Wait \in Nat /\ Wait' = Wait
  BY <1>1 DEF TypeOK, Wait
<1>4. TypeOK'
  BY <1>1, <1>2, <1>3 DEF TypeOK
<1>5. OpenOnTime'
  <2>1. ASSUME NEW c \in Clients, acc[c] # NoWindow
        PROVE  acc[c].window_start <= now + 1
    <3>1. acc[c].window_start \in Nat /\ acc[c].window_start <= now
      BY <1>1, <2>1 DEF TypeOK, Accumulator, OpenOnTime
    <3>2. QED
      BY <1>3, <3>1
  <2>2. QED
    BY <1>2, <2>1 DEF OpenOnTime
<1>6. Placed'
  BY <1>1, <1>2 DEF Placed, InOpen, InRow
<1>7. RowsOnTime'
  <2>1. ASSUME NEW r \in 1..Len(rows)
        PROVE  rows[r].ts <= now + 1
    <3>1. rows[r] \in Row
      BY <1>1, <2>1 DEF TypeOK
    <3>2. rows[r].ts \in Nat /\ rows[r].ts <= now
      BY <1>1, <2>1, <3>1 DEF Row, RowsOnTime
    <3>3. QED
      BY <1>3, <3>2
  <2>2. StartWall <= now + 1
    BY <1>1, <1>3 DEF RowsOnTime, StartWall
  <2>3. QED
    BY <1>1, <1>2, <2>1, <2>2 DEF RowsOnTime
<1>8. Ended'
  <2>1. phase # "replay" => phase = "wait"
    BY <1>1, <1>2 DEF TypeOK
  <2>2. phase # "replay" => end_wall <= now + 1 /\ now + 1 <= end_wall + Wait
    BY <1>1, <1>2, <1>3, <2>1 DEF Ended
  <2>3. QED
    BY <1>1, <1>2, <1>3, <2>2 DEF Ended
<1>9. Reported'
  BY <1>1, <1>2 DEF Reported
<1>10. QED
  BY <1>4, <1>5, <1>6, <1>7, <1>8, <1>9 DEF IInv

LEMMA StutterIInv ==
  ASSUME IInv, UNCHANGED vars
  PROVE  IInv'
<1>1. UNCHANGED <<events, speed, now, phase, sent, end_wall, acc, rows,
                  report>>
  BY DEF vars
<1>2. TypeOK' /\ OpenOnTime'
  BY <1>1 DEF IInv, TypeOK, OpenOnTime
<1>3. Placed' /\ RowsOnTime'
  BY <1>1 DEF IInv, Placed, InOpen, InRow, RowsOnTime
<1>4. Ended'
  BY <1>1 DEF IInv, Ended, Wait
<1>5. Samples' = Samples /\ Metrics(Samples)' = Metrics(Samples)
  BY <1>1, SameReport
<1>6. Reported'
  BY <1>1, <1>5 DEF IInv, Reported, Wait
<1>7. QED
  BY <1>2, <1>3, <1>4, <1>6 DEF IInv

LEMMA Invariant == Spec => []IInv
<1>1. IInv /\ [Next]_vars => IInv'
  <2>1. SUFFICES ASSUME IInv, [Next]_vars PROVE IInv'
    OBVIOUS
  <2>2. CASE UNCHANGED vars
    BY <2>1, <2>2, StutterIInv
  <2>3. CASE Next
    BY <2>1, <2>3, PublishIInv, SweepOneIInv, ReplayEndsIInv, ReportIInv,
       AdvanceIInv DEF Next
  <2>4. QED
    BY <2>1, <2>2, <2>3
<1>2. QED
  BY <1>1, Initial, PTL DEF Spec


-----------------------------------------------------------------------------
(* What the report says of a replay.                                        *)

(* The intervals are those of the attack runs.                              *)
LEMMA IntervalsAreRuns == TypeOK => LabelIntervals = RunIntervals
<1> SUFFICES ASSUME TypeOK PROVE LabelIntervals = RunIntervals
  OBVIOUS
<1>1. PICK n \in Nat : n = Len(events)
  BY DEF TypeOK
<1>2. DOMAIN events = 1..n
  BY <1>1 DEF TypeOK
<1>3. \A i \in 1..n : events[i].client \in Clients
  <2>1. \A i \in 1..n : events[i] \in Event
    BY <1>1 DEF TypeOK
  <2>2. QED
    BY <2>1 DEF Event
<1>4. \A c \in Clients : Own(events, c, n) = EventsOf(c)
  BY <1>2 DEF Own, EventsOf
<1>5. \A c \in Clients : AttacksIn(events, Own(events, c, n)) = AttackRuns(c)
  <2> SUFFICES ASSUME NEW c \in Clients
               PROVE  AttacksIn(events, Own(events, c, n)) = AttackRuns(c)
    OBVIOUS
  <2>1. PICK E : E = EventsOf(c)
    OBVIOUS
  <2>2. E \in SUBSET Nat /\ E \subseteq DOMAIN events
    BY <1>2, <2>1 DEF EventsOf
  <2>3. \A i, j \in E : Uniform(Labels(events), E, i, j) <=> IsRun(c, i, j)
    <3>1. \A k \in E : Labels(events)[k] = events[k].label
      BY <2>2 DEF Labels
    <3>2. QED
      BY <2>1, <2>2, <3>1 DEF Uniform, IsRun
  <2>4. AttackRuns(c) =
          {r \in E \X E :
             /\ r[1] <= r[2]
             /\ events[r[1]].label # Benign
             /\ IsRun(c, r[1], r[2])
             /\ \A k \in E : /\ k < r[1] => ~IsRun(c, k, r[2])
                             /\ k > r[2] => ~IsRun(c, r[1], k)}
    BY <2>1 DEF AttackRuns
  <2>5. \A i, j \in E :
          Maximal(Labels(events), E, i, j) <=>
            /\ i <= j
            /\ IsRun(c, i, j)
            /\ \A k \in E : /\ k < i => ~IsRun(c, k, j)
                            /\ k > j => ~IsRun(c, i, k)
    BY <2>3 DEF Maximal
  <2>6. AttacksIn(events, E) = AttackRuns(c)
    BY <2>4, <2>5 DEF AttacksIn
  <2>7. QED
    BY <1>4, <2>1, <2>6
<1>6. \A c \in Clients : IntervalsOf(c) = Spans(events, AttackRuns(c))
  <2>1. \A c \in Clients :
          Scans(events)[c].done \cup ClosedRun(Scans(events)[c])
            = Spans(events, AttacksIn(events, Own(events, c, n)))
    BY <1>2, <1>3, IntervalsFound
  <2>2. QED
    BY <1>5, <2>1 DEF IntervalsOf
<1>7. RunIntervals = Spans(events, UNION {AttackRuns(c) : c \in Clients})
  BY DEF RunIntervals, Spans, Spanned
<1>8. \A v : v \in LabelIntervals <=>
               \E c \in Clients : v \in Spans(events, AttackRuns(c))
  BY <1>6 DEF LabelIntervals
<1>9. \A v : v \in RunIntervals <=>
               \E c \in Clients : \E r \in AttackRuns(c) :
                 v = Spanned(events, r[1], r[2])
  BY <1>7 DEF Spans
<1>10. \A v : v \in LabelIntervals <=> v \in RunIntervals
  BY <1>8, <1>9 DEF Spans
<1>11. QED
  BY <1>10

(* The samples are rows: finitely many, with levels and scores.             *)
LEMMA SamplesAreRows ==
  TypeOK => /\ IsFiniteSet(DOMAIN Samples)
            /\ \A i \in DOMAIN Samples : /\ Samples[i].trust \in Nat
                                         /\ Samples[i].level \in Nat
<1> SUFFICES ASSUME TypeOK
             PROVE  /\ IsFiniteSet(DOMAIN Samples)
                    /\ \A i \in DOMAIN Samples : /\ Samples[i].trust \in Nat
                                                 /\ Samples[i].level \in Nat
  OBVIOUS
<1>1. rows \in Seq(Row)
  BY DEF TypeOK
<1>2. PICK n \in Nat : DOMAIN rows = 1..n
  BY <1>1
<1>3. DOMAIN Samples \subseteq 1..n
  BY <1>2 DEF Samples
<1>4. IsFiniteSet(DOMAIN Samples)
  <2>1. IsFiniteSet(1..n)
    BY FS_Interval
  <2>2. QED
    BY <1>3, <2>1, FS_Subset
<1>5. ASSUME NEW i \in DOMAIN Samples
      PROVE  Samples[i].trust \in Nat /\ Samples[i].level \in Nat
  <2>1. i \in DOMAIN rows /\ rows[i] \in Row
    BY <1>1, <1>2, <1>3
  <2>2. Samples[i].trust = rows[i].trust /\ Samples[i].level = rows[i].level
    BY <2>1 DEF Samples, Row
  <2>3. QED
    BY <2>1, <2>2 DEF Row
<1>6. QED
  BY <1>4, <1>5
-----------------------------------------------------------------------------
(* What the model promises.                                                 *)

(* Every variable stays in its range.                                       *)
THEOREM TypeCorrect == Spec => []TypeOK
<1>1. IInv => TypeOK
  BY DEF IInv
<1>2. QED
  BY <1>1, Invariant, PTL

(* The harness waits long enough (wait_s in main): whatever the script, the *)
(* speed and the windows, each event that was sent is in the window of a    *)
(* verdict that the report judges.                                          *)
THEOREM TailCollected == Spec => []TailIsCollected
<1>1. ASSUME IInv, phase = "done", NEW i \in DOMAIN events
      PROVE  \E r \in DOMAIN report : \E s \in DOMAIN report[r].samples :
               i \in report[r].samples[s].entries
  <2>1. /\ TypeOK /\ OpenOnTime /\ Placed /\ RowsOnTime /\ Ended
        /\ now >= end_wall + Wait /\ Len(sent) = Len(events)
        /\ now <= end_wall + Wait
    BY <1>1 DEF IInv, Reported, Ended
  <2>2. i \in 1..Len(sent)
    BY <1>1, <2>1 DEF TypeOK
  <2>3. InRow(i)
    <3>1. \A c \in Clients : acc[c] = NoWindow
      BY <1>1, <2>1, NoneOpen
    <3>2. QED
      BY <2>1, <2>2, <3>1 DEF Placed, InOpen
  <2>4. PICK r \in 1..Len(rows) : i \in rows[r].entries
    BY <2>3 DEF InRow
  <2>5. r \in DOMAIN rows /\ rows[r] \in Row /\ rows[r].ts \in Nat
    <3>1. rows \in Seq(Row)
      BY <2>1 DEF TypeOK
    <3>2. r \in DOMAIN rows /\ rows[r] \in Row
      BY <2>4, <3>1
    <3>3. QED
      BY <3>2 DEF Row
  <2>6. StartWall <= rows[r].ts /\ rows[r].ts <= end_wall + Wait
    <3>1. now \in Nat /\ end_wall + Wait \in Nat
      BY <2>1 DEF TypeOK, Wait
    <3>2. QED
      BY <2>1, <2>4, <2>5, <3>1 DEF RowsOnTime
  <2>7. r \in DOMAIN Samples /\ Samples[r].entries = rows[r].entries
    BY <2>5, <2>6 DEF Samples, Row
  <2>8. report = <<Metrics(Samples)>>
    BY <1>1, <2>7 DEF IInv, Reported
  <2>9. Metrics(Samples).samples = Samples
    BY DEF Metrics
  <2>10. 1 \in DOMAIN report /\ report[1].samples = Samples
    BY <2>8, <2>9
  <2>11. QED
    BY <2>4, <2>7, <2>10
<1>2. IInv => TailIsCollected
  BY <1>1 DEF TailIsCollected
<1>3. QED
  BY <1>2, Invariant, PTL

(* What events_to_label_intervals, collect_metrics and _roc_auc compute in  *)
(* passing is what it stands for, whatever the replay: the label intervals  *)
(* are the maximal runs of one label, the four counts cut the samples, no   *)
(* false quarantine is missing from the false positives, and the area under *)
(* the curve is the share of the pairs ranked rightly.                      *)
THEOREM MetricsMatch == Spec => []MetricsMatchDefinitions
<1>1. ASSUME IInv, NEW r \in DOMAIN report, NEW R, R = report[r],
             NEW pos, pos = {i \in DOMAIN R.samples :
                               IsLabeledAttack(R.samples[i])}
      PROVE  /\ R.intervals = RunIntervals
             /\ R.tp + R.fp + R.fn + R.tn = Cardinality(DOMAIN R.samples)
             /\ R.false_quarantine <= R.fp
             /\ pos # {} /\ pos # DOMAIN R.samples =>
                  R.twice_auc = TwicePairs(R.samples, pos)
  <2>1. TypeOK
    BY <1>1 DEF IInv
  <2>2. R = Metrics(Samples)
    <3>1. report # <<>>
      BY <1>1
    <3>2. report = <<Metrics(Samples)>>
      BY <1>1, <3>1 DEF IInv, Reported
    <3>3. QED
      BY <1>1, <3>2
  <2>3. R.samples = Samples /\ R.intervals = LabelIntervals
    BY <2>2 DEF Metrics
  <2>4. R.intervals = RunIntervals
    BY <2>1, <2>3, IntervalsAreRuns
  <2>5. /\ IsFiniteSet(DOMAIN Samples)
        /\ \A i \in DOMAIN Samples : /\ Samples[i].trust \in Nat
                                     /\ Samples[i].level \in Nat
    BY <2>1, SamplesAreRows
  <2>6. /\ R.tp + R.fp + R.fn + R.tn = Cardinality(DOMAIN Samples)
        /\ R.false_quarantine <= R.fp
    BY <2>2, <2>5, CountsAgree
  <2>7. TwiceAuc(Samples, pos) = TwicePairs(Samples, pos)
    <3>1. pos \in SUBSET DOMAIN Samples
      BY <1>1, <2>3
    <3>2. QED
      BY <2>5, <3>1, AucCountsPairs
  <2>8. pos # {} /\ pos # DOMAIN Samples =>
          R.twice_auc = TwiceAuc(Samples, pos)
    <3>1. PICK A : A = {i \in DOMAIN Samples : IsLabeledAttack(Samples[i])}
      OBVIOUS
    <3>2. R.twice_auc = IF A = {} \/ DOMAIN Samples \ A = {} THEN 1
                        ELSE TwiceAuc(Samples, A)
      BY <2>2, <3>1 DEF Metrics
    <3>3. pos = A
      BY <1>1, <2>3, <3>1
    <3>4. pos # DOMAIN Samples => DOMAIN Samples \ A # {}
      BY <3>1, <3>3
    <3>5. QED
      BY <3>2, <3>3, <3>4
  <2>9. QED
    BY <2>3, <2>4, <2>6, <2>7, <2>8
<1>2. IInv => MetricsMatchDefinitions
  BY <1>1 DEF MetricsMatchDefinitions
<1>3. QED
  BY <1>2, Invariant, PTL

=============================================================================
