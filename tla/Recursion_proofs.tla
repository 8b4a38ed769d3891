-------------------------- MODULE Recursion_proofs --------------------------
(***************************************************************************)
(* Induction and recursion over data whose elements have ranks: what the   *)
(* proofs about the emitter's recursive algorithms rest on.                *)
(***************************************************************************)
EXTENDS Integers, WellFoundedInduction, TLAPS

(* Induction over the numbers of a set.                                     *)
LEMMA NatSetInduction ==
  ASSUME NEW S, 0 \in S, \A n \in Nat : n \in S => n + 1 \in S
  PROVE  \A n \in Nat : n \in S
<1> DEFINE T == Nat \ S
           Less == {ss \in Nat \X Nat : ss[1] < ss[2]}
<1>1. IsWellFoundedOn(Less, Nat)
  BY NatLessThanWellFounded DEF OpToRel
<1>2. SUFFICES ASSUME T # {} PROVE FALSE
  OBVIOUS
<1>3. PICK x \in T : \A y \in T : ~ (<<y, x>> \in Less)
  <2> HIDE DEF Less
  <2> QED BY <1>1, <1>2, WFMin
<1>4. x # 0
  OBVIOUS
<1>5. x - 1 \in Nat /\ x - 1 < x /\ x - 1 + 1 = x
  BY <1>4
<1>6. x - 1 \in T
  BY <1>5
<1> QED BY <1>3, <1>5, <1>6

(* Induction over a set whose elements have ranks: what holds of an element *)
(* once it holds of those of lower rank holds of all.                       *)
LEMMA RankInduction ==
  ASSUME NEW D, NEW rank \in [D -> Nat], NEW P,
         \A d \in D : (\A e \in D : rank[e] < rank[d] => e \in P) => d \in P
  PROVE  \A d \in D : d \in P
<1> DEFINE S == {n \in Nat : \A d \in D : rank[d] < n => d \in P}
<1>1. 0 \in S
  OBVIOUS
<1>2. ASSUME NEW n \in Nat, n \in S PROVE n + 1 \in S
  <2> SUFFICES ASSUME NEW d \in D, rank[d] < n + 1 PROVE d \in P
    OBVIOUS
  <2>1. \A e \in D : rank[e] < rank[d] => rank[e] < n
    OBVIOUS
  <2>2. \A e \in D : rank[e] < rank[d] => e \in P
    BY <2>1, <1>2
  <2> QED BY <2>2
<1>3. \A n \in Nat : n \in S
  <2> HIDE DEF S
  <2> QED BY <1>1, <1>2, NatSetInduction
<1> SUFFICES ASSUME NEW d \in D PROVE d \in P
  OBVIOUS
<1>4. rank[d] + 1 \in S /\ rank[d] < rank[d] + 1
  BY <1>3
<1> QED BY <1>4

(* Pairs a, x with x below w, numbered in lexicographic order.              *)
LEMMA LexicographicRank ==
  ASSUME NEW w \in Nat, NEW a \in Nat, NEW b \in Nat, a < b,
         NEW x \in Nat, NEW y \in Nat, x < w
  PROVE  a * w + x < b * w + y /\ a * w + x \in Nat /\ b * w + y \in Nat
<1>1. PICK k \in Nat : b = a + 1 + k
  <2>1. b - a - 1 \in Nat /\ b = a + 1 + (b - a - 1)
    OBVIOUS
  <2> QED BY <2>1
<1>2. b * w = a * w + w + k * w /\ k * w \in Nat /\ a * w \in Nat
  BY <1>1
<1> QED BY <1>2

(* step gives an element of D its value from the values of elements of lower *)
(* rank.                                                                     *)
LooksLower(D, V, rank, step) ==
  /\ V # {}
  /\ rank \in [D -> Nat]
  /\ step \in [D \X [D -> V] -> V]
  /\ \A d \in D : \A g, h \in [D -> V] :
       (\A e \in D : rank[e] < rank[d] => g[e] = h[e]) => step[<<d, g>>] = step[<<d, h>>]

(* A function may be defined by what it is at elements of lower rank.       *)
LEMMA RecursionByRank ==
  ASSUME NEW D, NEW V, NEW rank, NEW step, LooksLower(D, V, rank, step)
  PROVE  \E f \in [D -> V] : \A d \in D : f[d] = step[<<d, f>>]
<1> USE DEF LooksLower
<1> DEFINE Right(g, n) == \A d \in D : rank[d] < n => g[d] = step[<<d, g>>]
           S == {n \in Nat : \E g \in [D -> V] : Right(g, n)}
<1>1. 0 \in S
  <2> PICK v \in V : TRUE
    OBVIOUS
  <2>1. [d \in D |-> v] \in [D -> V] /\ Right([d \in D |-> v], 0)
    OBVIOUS
  <2> QED BY <2>1
<1>2. ASSUME NEW n \in Nat, n \in S PROVE n + 1 \in S
  <2> PICK g \in [D -> V] : Right(g, n)
    BY <1>2
  <2> DEFINE h == [d \in D |-> IF rank[d] = n THEN step[<<d, g>>] ELSE g[d]]
  <2>1. h \in [D -> V]
    OBVIOUS
  <2>2. ASSUME NEW d \in D, rank[d] < n + 1 PROVE h[d] = step[<<d, h>>]
    <3>1. \A e \in D : rank[e] < rank[d] => h[e] = g[e]
      BY <2>2
    <3>2. step[<<d, h>>] = step[<<d, g>>]
      <4> HIDE DEF h
      <4> QED BY <3>1, <2>1
    <3>3. CASE rank[d] = n
      BY <3>2, <3>3
    <3>4. CASE rank[d] # n
      <4> HIDE DEF h
      <4>0. rank[d] \in Nat
        OBVIOUS
      <4>1. rank[d] < n
        BY <2>2, <3>4, <4>0
      <4> USE DEF h
      <4> QED BY <4>1, <3>2, <3>4
    <3> QED BY <3>3, <3>4
  <2>3. Right(h, n + 1)
    BY <2>2
  <2>4. \E k \in [D -> V] : Right(k, n + 1)
    <3> HIDE DEF h, Right
    <3> QED BY <2>1, <2>3
  <2> HIDE DEF Right
  <2> QED BY <2>4
<1>3. \A n \in Nat : \E g \in [D -> V] : Right(g, n)
  <2>1. \A n \in Nat : n \in S
    <3> HIDE DEF S
    <3> QED BY <1>1, <1>2, NatSetInduction
  <2> QED BY <2>1
<1>4. ASSUME NEW n \in Nat, NEW m \in Nat, NEW g \in [D -> V], NEW h \in [D -> V],
             Right(g, n), Right(h, m)
      PROVE  \A d \in D : rank[d] < n /\ rank[d] < m => g[d] = h[d]
  <2> DEFINE P == {d \in D : rank[d] < n /\ rank[d] < m => g[d] = h[d]}
  <2>1. ASSUME NEW d \in D, \A e \in D : rank[e] < rank[d] => e \in P PROVE d \in P
    <3> SUFFICES ASSUME rank[d] < n, rank[d] < m PROVE g[d] = h[d]
      OBVIOUS
    <3>1. \A e \in D : rank[e] < rank[d] => g[e] = h[e]
      BY <2>1
    <3>2. step[<<d, g>>] = step[<<d, h>>]
      BY <3>1
    <3> QED BY <1>4, <3>2
  <2>2. \A d \in D : d \in P
    <3> HIDE DEF P
    <3> QED BY <2>1, RankInduction
  <2> QED BY <2>2
<1> DEFINE Part(n) == CHOOSE g \in [D -> V] : Right(g, n)
           f == [d \in D |-> Part(rank[d] + 1)[d]]
<1>5. \A n \in Nat : Part(n) \in [D -> V] /\ Right(Part(n), n)
  <2> HIDE DEF Right
  <2> QED BY <1>3
<1>6. f \in [D -> V]
  <2> HIDE DEF Right, Part
  <2> QED BY <1>5
<1>7. ASSUME NEW d \in D PROVE f[d] = step[<<d, f>>]
  <2> DEFINE g == Part(rank[d] + 1)
  <2>0. rank[d] + 1 \in Nat
    OBVIOUS
  <2>1. g \in [D -> V] /\ Right(g, rank[d] + 1)
    <3> HIDE DEF Right, Part
    <3> QED BY <1>5, <2>0
  <2>2. ASSUME NEW e \in D, rank[e] < rank[d] PROVE f[e] = g[e]
    <3> DEFINE h == Part(rank[e] + 1)
    <3>0. rank[e] + 1 \in Nat
      OBVIOUS
    <3>1. h \in [D -> V] /\ Right(h, rank[e] + 1)
      <4> HIDE DEF Right, Part
      <4> QED BY <1>5, <3>0
    <3>2. rank[e] < rank[e] + 1 /\ rank[e] < rank[d] + 1
      BY <2>2
    <3>3. f[e] = h[e]
      OBVIOUS
    <3> HIDE DEF h, g, Right, Part
    <3>4. rank[e] + 1 \in Nat /\ rank[d] + 1 \in Nat
      OBVIOUS
    <3>5. h[e] = g[e]
      BY <2>1, <3>1, <3>2, <3>4, <1>4
    <3> QED BY <3>3, <3>5
  <2>3. f[d] = g[d]
    OBVIOUS
  <2> HIDE DEF f, g, Part
  <2>4. step[<<d, f>>] = step[<<d, g>>]
    BY <2>1, <2>2, <1>6
  <2> QED BY <2>1, <2>3, <2>4
<1> HIDE DEF f
<1> QED BY <1>6, <1>7

\* A set of numbers up to a bound has a highest.
LEMMA HighestOf ==
  ASSUME NEW k \in Nat, NEW D \in SUBSET (1 .. k), D # {}
  PROVE  \E d \in D : \A e \in D : e <= d
<1> DEFINE T == {t \in 0 .. k : k - t \in D}
           R == OpToRel(<, Nat)
<1>1. T \subseteq Nat
  OBVIOUS
<1>2. \A d \in D : d \in 1 .. k /\ k - d \in 0 .. k /\ k - (k - d) = d
  OBVIOUS
<1>3. \A d \in D : k - d \in T
  BY <1>2
<1>4. T # {}
  BY <1>3
<1>5. IsWellFoundedOn(R, Nat)
  BY NatLessThanWellFounded
<1>6. \A a, b \in Nat : a < b => <<a, b>> \in R
  BY DEF OpToRel
<1>7. \A t \in T : t \in 0 .. k /\ k - t \in D
  OBVIOUS
<1> HIDE DEF T, R
<1>8. PICK x \in T : \A y \in T : ~(<<y, x>> \in R)
  BY <1>1, <1>4, <1>5, WFMin
<1>9. \A y \in T : ~(y < x)
  BY <1>1, <1>6, <1>8
<1>10. \A e \in D : e <= k - x
  <2>1. \A e \in D : ~(k - e < x)
    BY <1>3, <1>9
  <2>2. \A e \in 1 .. k : ~(k - e < x) => e <= k - x
    BY <1>7
  <2> QED BY <1>2, <2>1, <2>2
<1> QED BY <1>7, <1>10
=============================================================================
