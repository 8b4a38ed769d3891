------------------------- MODULE TextRecursion_proofs ------------------------
(***************************************************************************)
(* Proofs about the emitter's algorithms that recur or loop over their     *)
(* data: the order of the structures, for any structures and any order of  *)
(* visits; the text of a constant, for any types and components; the       *)
(* decimal text of a number, for any digits and any power of ten.          *)
(***************************************************************************)
EXTENDS StructOrder, ConstantText, DecimalText, Recursion_proofs, SequenceTheorems

-----------------------------------------------------------------------------
(* The order of the structures.                                            *)

SmallerMembers ==
  /\ members \in [Struct -> Seq(Struct)]
  /\ \A s \in Struct : Len(members[s]) \in 0 .. MaxStruct
  /\ \A s \in Struct : \A k \in DOMAIN members[s] : members[s][k] \in Struct /\ members[s][k] < s

Steps == Struct \X (0 .. MaxStruct) \X Seq(Struct)

AfterStep(g, d) ==
  IF d[2] \in DOMAIN members[d[1]]
  THEN Found(g, g[<<d[1], d[2] - 1, d[3]>>], members[d[1]][d[2]])
  ELSE d[3]

StepRank == [d \in Steps |-> d[1] * (MaxStruct + 1) + d[2]]

LEMMA StepRankType == StepRank \in [Steps -> Nat]
<1> SUFFICES ASSUME NEW d \in Steps PROVE d[1] * (MaxStruct + 1) + d[2] \in Nat
  BY DEF StepRank
<1>1. d[1] \in Nat /\ d[2] \in Nat /\ MaxStruct + 1 \in Nat
  BY StructAssumption DEF Steps, Struct
<1>2. d[1] * (MaxStruct + 1) \in Nat
  BY <1>1
<1> QED BY <1>1, <1>2

LEMMA RankFewer ==
  ASSUME SmallerMembers, NEW d \in Steps, d[2] \in DOMAIN members[d[1]], NEW o \in Seq(Struct)
  PROVE  /\ <<d[1], d[2] - 1, o>> \in Steps
         /\ StepRank[<<d[1], d[2] - 1, o>>] < StepRank[d]
<1>1. d[1] \in Struct /\ d[2] \in 1 .. MaxStruct
  <2>1. d[1] \in Struct /\ d[2] \in 0 .. MaxStruct
    BY DEF Steps
  <2>2. members[d[1]] \in Seq(Struct)
    BY <2>1 DEF SmallerMembers
  <2>3. d[2] \in 1 .. Len(members[d[1]])
    BY <2>2
  <2> QED BY <2>1, <2>3, StructAssumption
<1>2. <<d[1], d[2] - 1, o>> \in Steps
  BY <1>1, StructAssumption DEF Steps
<1>3. d[1] * (MaxStruct + 1) \in Nat
  BY <1>1, StructAssumption DEF Struct
<1>4. StepRank[<<d[1], d[2] - 1, o>>] = d[1] * (MaxStruct + 1) + (d[2] - 1)
  BY <1>2 DEF StepRank
<1>5. StepRank[d] = d[1] * (MaxStruct + 1) + d[2]
  BY DEF StepRank
<1> QED BY <1>1, <1>2, <1>3, <1>4, <1>5

LEMMA RankMember ==
  ASSUME SmallerMembers, NEW d \in Steps, d[2] \in DOMAIN members[d[1]], NEW o \in Seq(Struct)
  PROVE  LET m == members[d[1]][d[2]] IN
         /\ m \in Struct
         /\ <<m, Len(members[m]), o>> \in Steps
         /\ StepRank[<<m, Len(members[m]), o>>] < StepRank[d]
<1> DEFINE m == members[d[1]][d[2]]
           w == MaxStruct + 1
<1>1. d[1] \in Struct /\ d[2] \in 0 .. MaxStruct
  BY DEF Steps
<1>2. m \in Struct /\ m < d[1]
  BY <1>1 DEF SmallerMembers
<1>3. Len(members[m]) \in 0 .. MaxStruct
  BY <1>2 DEF SmallerMembers
<1>4. <<m, Len(members[m]), o>> \in Steps
  BY <1>2, <1>3 DEF Steps
<1>5. StepRank[<<m, Len(members[m]), o>>] = m * w + Len(members[m])
  BY <1>4 DEF StepRank
<1>6. StepRank[d] = d[1] * w + d[2]
  BY DEF StepRank
<1>7. m \in Nat /\ d[1] \in Nat /\ w \in Nat /\ Len(members[m]) \in Nat /\ d[2] \in Nat
      /\ Len(members[m]) < w
  BY <1>1, <1>2, <1>3, StructAssumption DEF Struct
<1>8. m * w + Len(members[m]) < d[1] * w + d[2]
  <2> HIDE DEF m, w
  <2> QED BY <1>2, <1>7, LexicographicRank
<1> QED BY <1>2, <1>4, <1>5, <1>6, <1>8

(* The recursion of findStruct ends: AfterMembers is what its equation says. *)
LEMMA AfterMembersIs ==
  ASSUME SmallerMembers
  PROVE  \A d \in Steps : AfterMembers[d] = AfterStep(AfterMembers, d)
<1> DEFINE F == [Steps -> Seq(Struct)]
           step == [x \in Steps \X F |-> AfterStep(x[2], x[1])]
<1>1. ASSUME NEW g \in F, NEW d \in Steps PROVE AfterStep(g, d) \in Seq(Struct)
  <2>1. CASE d[2] \in DOMAIN members[d[1]]
    <3> DEFINE m == members[d[1]][d[2]]
               o == g[<<d[1], d[2] - 1, d[3]>>]
    <3>1. d[3] \in Seq(Struct)
      BY DEF Steps
    <3>2. o \in Seq(Struct)
      BY <2>1, <3>1, RankFewer
    <3>3. m \in Struct /\ g[<<m, Len(members[m]), o>>] \in Seq(Struct)
      <4> HIDE DEF o
      <4> QED BY <2>1, <3>2, RankMember
    <3>4. Found(g, o, m) \in Seq(Struct)
      <4> HIDE DEF o, m
      <4> QED BY <3>2, <3>3 DEF Found
    <3> QED BY <2>1, <3>4 DEF AfterStep
  <2>2. CASE d[2] \notin DOMAIN members[d[1]]
    BY <2>2 DEF AfterStep, Steps
  <2> QED BY <2>1, <2>2
<1>2. step \in [Steps \X F -> Seq(Struct)]
  BY <1>1
<1>3. ASSUME NEW d \in Steps, NEW g \in F, NEW h \in F,
             \A e \in Steps : StepRank[e] < StepRank[d] => g[e] = h[e]
      PROVE  AfterStep(g, d) = AfterStep(h, d)
  <2>1. CASE d[2] \in DOMAIN members[d[1]]
    <3> DEFINE m == members[d[1]][d[2]]
               o == g[<<d[1], d[2] - 1, d[3]>>]
    <3>1. d[3] \in Seq(Struct)
      BY DEF Steps
    <3>2. o \in Seq(Struct) /\ h[<<d[1], d[2] - 1, d[3]>>] = o
      BY <1>3, <2>1, <3>1, RankFewer
    <3>3. g[<<m, Len(members[m]), o>>] = h[<<m, Len(members[m]), o>>]
      <4> HIDE DEF o
      <4> QED BY <1>3, <2>1, <3>2, RankMember
    <3>4. Found(g, o, m) = Found(h, o, m)
      <4> HIDE DEF o, m
      <4> QED BY <3>2, <3>3 DEF Found
    <3> QED BY <2>1, <3>2, <3>4 DEF AfterStep
  <2>2. CASE d[2] \notin DOMAIN members[d[1]]
    BY <2>2 DEF AfterStep
  <2> QED BY <2>1, <2>2
<1>4. \A d \in Steps : \A g \in F : step[<<d, g>>] = AfterStep(g, d)
  OBVIOUS
<1>5. \A d \in Steps : \A g, h \in F :
        (\A e \in Steps : StepRank[e] < StepRank[d] => g[e] = h[e]) => step[<<d, g>>] = step[<<d, h>>]
  <2> HIDE DEF step, F
  <2> QED BY <1>3, <1>4
<1>6. \E f \in F : \A d \in Steps : f[d] = step[<<d, f>>]
  <2> HIDE DEF step
  <2>1. Seq(Struct) # {}
    BY EmptySeq
  <2>2. step \in [Steps \X [Steps -> Seq(Struct)] -> Seq(Struct)]
    BY <1>2
  <2>3. \A d \in Steps : \A g, h \in [Steps -> Seq(Struct)] :
        (\A e \in Steps : StepRank[e] < StepRank[d] => g[e] = h[e]) => step[<<d, g>>] = step[<<d, h>>]
    BY <1>5
  <2>4. LooksLower(Steps, Seq(Struct), StepRank, step)
    BY <2>1, <2>2, <2>3, StepRankType DEF LooksLower
  <2> QED BY <2>4, RecursionByRank
<1>7. PICK f \in F : \A d \in Steps : f[d] = AfterStep(f, d)
  <2> HIDE DEF step, F
  <2> QED BY <1>4, <1>6
<1>8. f = [d \in Steps |-> AfterStep(f, d)]
  BY <1>7
<1>9. AfterMembers = CHOOSE g : g = [d \in Steps |-> AfterStep(g, d)]
  BY DEF AfterMembers, Steps, AfterStep
<1>10. AfterMembers = [d \in Steps |-> AfterStep(AfterMembers, d)]
  BY <1>8, <1>9
<1> QED BY <1>10

\* Whatever is found is a sequence of structures.
LEMMA FoundType ==
  ASSUME NEW after, NEW o \in Seq(Struct), NEW s \in Struct,
         after[<<s, Len(members[s]), o>>] \in Seq(Struct)
  PROVE  Found(after, o, s) \in Seq(Struct)
BY DEF Found

LEMMA AfterMembersType ==
  ASSUME SmallerMembers
  PROVE  \A d \in Steps : AfterMembers[d] \in Seq(Struct)
<1> DEFINE P == {d \in Steps : AfterMembers[d] \in Seq(Struct)}
<1>1. ASSUME NEW d \in Steps, \A e \in Steps : StepRank[e] < StepRank[d] => e \in P
      PROVE  d \in P
  <2>1. CASE d[2] \in DOMAIN members[d[1]]
    <3> DEFINE m == members[d[1]][d[2]]
               e == <<d[1], d[2] - 1, d[3]>>
               o == AfterMembers[e]
    <3>1. d[3] \in Seq(Struct)
      BY DEF Steps
    <3>2. e \in Steps /\ StepRank[e] < StepRank[d]
      BY <2>1, <3>1, RankFewer
    <3>3. o \in Seq(Struct)
      BY <1>1, <3>2
    <3> DEFINE e2 == <<m, Len(members[m]), o>>
    <3>4. m \in Struct /\ e2 \in Steps /\ StepRank[e2] < StepRank[d]
      <4> HIDE DEF o
      <4> QED BY <2>1, <3>3, RankMember
    <3>5. AfterMembers[e2] \in Seq(Struct)
      BY <1>1, <3>4
    <3>6. Found(AfterMembers, o, m) \in Seq(Struct)
      <4> HIDE DEF o, m
      <4> QED BY <3>3, <3>4, <3>5, FoundType DEF e2
    <3>7. AfterMembers[d] = Found(AfterMembers, o, m)
      BY <2>1, AfterMembersIs DEF AfterStep
    <3> QED BY <3>6, <3>7
  <2>2. CASE d[2] \notin DOMAIN members[d[1]]
    BY <2>2, AfterMembersIs DEF AfterStep, Steps
  <2> QED BY <2>1, <2>2
<1>2. \A d \in Steps : d \in P
  <2> HIDE DEF P
  <2> QED BY <1>1, StepRankType, RankInduction
<1> QED BY <1>2

LEMMA FindStructType ==
  ASSUME SmallerMembers, NEW o \in Seq(Struct), NEW s \in Struct
  PROVE  FindStruct(o, s) \in Seq(Struct)
<1>1. <<s, Len(members[s]), o>> \in Steps
  BY DEF Steps, SmallerMembers
<1> QED BY <1>1, AfterMembersType, FoundType DEF FindStruct

-----------------------------------------------------------------------------
LEMMA InsideIsClosed ==
  ASSUME SmallerMembers, NEW s \in Struct
  PROVE  s \in Inside(s) /\ Closed(Inside(s)) /\ Inside(s) \subseteq Struct
<1>1. s \in Inside(s) /\ Inside(s) \subseteq Struct
  BY DEF Inside
<1>2. ASSUME NEW x \in Inside(s), NEW m \in Range(members[x]) PROVE m \in Inside(s)
  <2>1. m \in Struct
    <3>1. members[x] \in Seq(Struct)
      BY DEF Inside, SmallerMembers
    <3> QED BY <3>1, <1>2 DEF Range
  <2>2. ASSUME NEW c \in SUBSET Struct, s \in c, Closed(c) PROVE m \in c
    BY <1>2, <2>2 DEF Inside, Closed
  <2> QED BY <2>1, <2>2 DEF Inside
<1> QED BY <1>1, <1>2 DEF Closed

LEMMA InsideIsLeast ==
  ASSUME NEW s \in Struct, NEW c \in SUBSET Struct, s \in c, Closed(c)
  PROVE  Inside(s) \subseteq c
BY DEF Inside

LEMMA InsideIsSmaller ==
  ASSUME SmallerMembers, NEW s \in Struct, NEW x \in Inside(s)
  PROVE  x <= s
<1> DEFINE c == {y \in Struct : y <= s}
<1>1. Closed(c)
  <2> SUFFICES ASSUME NEW y \in c, NEW m \in Range(members[y]) PROVE m \in c
    BY DEF Closed
  <2>1. PICK k \in DOMAIN members[y] : m = members[y][k]
    BY DEF Range
  <2>2. m \in Struct /\ m < y
    BY <2>1 DEF SmallerMembers
  <2> QED BY <2>2, StructAssumption DEF Struct
<1>2. s \in c
  BY StructAssumption DEF Struct
<1> QED BY <1>1, <1>2, InsideIsLeast

InsideMembers(s, k) == UNION {Inside(members[s][j]) : j \in 1 .. k}

LEMMA InsideIsMembers ==
  ASSUME SmallerMembers, NEW s \in Struct
  PROVE  Inside(s) = {s} \cup InsideMembers(s, Len(members[s]))
<1> DEFINE n == Len(members[s])
           c == {s} \cup InsideMembers(s, n)
<1>0. members[s] \in Seq(Struct) /\ n \in Nat /\ DOMAIN members[s] = 1 .. n
  BY DEF SmallerMembers
<1>1. \A j \in 1 .. n : members[s][j] \in Struct
  BY <1>0
<1>2. ASSUME NEW j \in 1 .. n PROVE Inside(members[s][j]) \subseteq Inside(s)
  <2>1. members[s][j] \in Inside(s)
    BY <1>0, InsideIsClosed DEF Closed, Range
  <2> QED BY <1>1, <2>1, InsideIsClosed, InsideIsLeast
<1>3. c \subseteq Inside(s)
  BY <1>2, InsideIsClosed DEF InsideMembers
<1>4. c \subseteq Struct
  BY <1>3, InsideIsClosed
<1>5. Closed(c)
  <2> SUFFICES ASSUME NEW x \in c, NEW m \in Range(members[x]) PROVE m \in c
    BY DEF Closed
  <2>1. CASE x = s
    <3>1. PICK j \in 1 .. n : m = members[s][j]
      BY <1>0, <2>1 DEF Range
    <3>2. m \in Inside(members[s][j])
      BY <1>1, <3>1, InsideIsClosed
    <3> QED BY <3>2 DEF InsideMembers
  <2>2. CASE x # s
    <3>1. PICK j \in 1 .. n : x \in Inside(members[s][j])
      BY <2>2 DEF InsideMembers
    <3>2. m \in Inside(members[s][j])
      BY <1>1, <3>1, InsideIsClosed DEF Closed
    <3> QED BY <3>2 DEF InsideMembers
  <2> QED BY <2>1, <2>2
<1>6. Inside(s) \subseteq c
  <2> HIDE DEF c
  <2> QED BY <1>4, <1>5, InsideIsLeast DEF c
<1> QED BY <1>3, <1>6

-----------------------------------------------------------------------------
(* Every structure of o is there once and after those it contains.          *)
InOrder(o) ==
  /\ o \in Seq(Struct)
  /\ \A i \in DOMAIN o : \A m \in Range(members[o[i]]) : \E j \in DOMAIN o : j < i /\ o[j] = m
  /\ \A i, j \in DOMAIN o : o[i] = o[j] => i = j

LEMMA InOrderIsClosed ==
  ASSUME NEW o, InOrder(o)
  PROVE  Range(o) \in SUBSET Struct /\ Closed(Range(o))
<1>1. o \in Seq(Struct) /\ \A i \in DOMAIN o : o[i] \in Struct
  <2>1. o \in Seq(Struct)
    BY DEF InOrder
  <2> QED BY <2>1, ElementOfSeq
<1>2. Range(o) \in SUBSET Struct
  BY <1>1 DEF Range
<1>3. ASSUME NEW x \in Range(o), NEW m \in Range(members[x]) PROVE m \in Range(o)
  <2>1. PICK i \in DOMAIN o : o[i] = x
    BY DEF Range
  <2>2. PICK j \in DOMAIN o : o[j] = m
    BY <2>1 DEF InOrder
  <2> QED BY <2>2 DEF Range
<1> QED BY <1>2, <1>3 DEF Closed

(* s is added to o, where its members are.                                  *)
LEMMA AppendInOrder ==
  ASSUME NEW o, InOrder(o), NEW s \in Struct, s \notin Range(o),
         Range(members[s]) \subseteq Range(o)
  PROVE  InOrder(Append(o, s)) /\ Range(Append(o, s)) = Range(o) \cup {s}
<1> DEFINE a == Append(o, s)
<1>1. o \in Seq(Struct) /\ DOMAIN o = 1 .. Len(o) /\ Len(o) \in Nat
  BY DEF InOrder
<1>2. /\ a \in Seq(Struct) /\ DOMAIN a = 1 .. Len(o) + 1
      /\ a[Len(o) + 1] = s /\ \A i \in 1 .. Len(o) : a[i] = o[i]
  BY <1>1
<1>3. Range(a) = Range(o) \cup {s}
  <2> HIDE DEF a
  <2>1. 1 .. Len(o) + 1 = (1 .. Len(o)) \cup {Len(o) + 1}
    BY <1>1
  <2> QED BY <1>1, <1>2, <2>1 DEF Range
<1> HIDE DEF a
<1>4. ASSUME NEW i \in DOMAIN a, NEW m \in Range(members[a[i]])
      PROVE  \E j \in DOMAIN a : j < i /\ a[j] = m
  <2>1. CASE i = Len(o) + 1
    <3>1. PICK j \in DOMAIN o : o[j] = m
      BY <1>2, <1>4, <2>1 DEF Range
    <3>2. j \in DOMAIN a /\ j < i /\ a[j] = m
      BY <1>1, <1>2, <2>1, <3>1
    <3> QED BY <3>2
  <2>2. CASE i \in 1 .. Len(o)
    <3>1. PICK j \in DOMAIN o : j < i /\ o[j] = m
      BY <1>1, <1>2, <1>4, <2>2 DEF InOrder
    <3> QED BY <1>1, <1>2, <3>1
  <2> QED BY <1>1, <1>2, <2>1, <2>2
<1>5. ASSUME NEW i \in DOMAIN a, NEW j \in DOMAIN a, a[i] = a[j] PROVE i = j
  <2>1. \A k \in 1 .. Len(o) : a[k] # s
    BY <1>1, <1>2 DEF Range
  <2>2. CASE i \in 1 .. Len(o) /\ j \in 1 .. Len(o)
    BY <1>1, <1>2, <1>5, <2>2 DEF InOrder
  <2>3. CASE i = Len(o) + 1 \/ j = Len(o) + 1
    BY <1>1, <1>2, <1>5, <2>1, <2>3
  <2> QED BY <1>1, <1>2, <2>2, <2>3
<1>6. InOrder(a)
  BY <1>2, <1>4, <1>5 DEF InOrder
<1> QED BY <1>3, <1>6 DEF a

(* r is o and what x holds, in order.                                       *)
Extends(r, o, x) == InOrder(r) /\ Range(r) = Range(o) \cup x

(* Structures that are closed and told apart by their names.                *)
Apart(c) == \A x, y \in c : Same(x, y) => x = y
World(c) == c \in SUBSET Struct /\ Closed(c) /\ Apart(c)

\* Among them, to find the name is to find the structure.
LEMMA PresentIs ==
  ASSUME NEW c, World(c), NEW o, Range(o) \subseteq c, NEW s \in c
  PROVE  Present(o, s) <=> s \in Range(o)
<1>1. Same(s, s)
  BY DEF Same
<1> QED BY <1>1 DEF Present, World, Apart

LEMMA FoundExtends ==
  ASSUME SmallerMembers, NEW c, World(c), NEW after, NEW o, InOrder(o), Range(o) \subseteq c,
         NEW s \in c,
         Extends(after[<<s, Len(members[s]), o>>], o, InsideMembers(s, Len(members[s])))
  PROVE  Extends(Found(after, o, s), o, Inside(s))
<1> DEFINE n == Len(members[s])
           r == after[<<s, n, o>>]
<1>s. s \in Struct
  BY DEF World
<1>p. Present(o, s) <=> s \in Range(o)
  BY PresentIs
<1> USE <1>s, <1>p
<1>0. members[s] \in Seq(Struct) /\ n \in Nat /\ DOMAIN members[s] = 1 .. n
  BY DEF SmallerMembers
<1>1. CASE s \in Range(o)
  <2>1. Inside(s) \subseteq Range(o)
    BY <1>1, InOrderIsClosed, InsideIsLeast
  <2> QED BY <1>1, <2>1 DEF Found, Extends
<1>2. CASE s \notin Range(o)
  <2>1. ASSUME NEW j \in 1 .. n PROVE s \notin Inside(members[s][j])
    <3>1. members[s][j] \in Struct /\ members[s][j] < s
      BY <1>0 DEF SmallerMembers
    <3>2. ~(s <= members[s][j])
      BY <3>1, StructAssumption DEF Struct
    <3> QED BY <3>1, <3>2, InsideIsSmaller
  <2>2. s \notin Range(r)
    BY <1>2, <2>1 DEF Extends, InsideMembers
  <2>3. Range(members[s]) \subseteq Range(r)
    <3> SUFFICES ASSUME NEW j \in 1 .. n PROVE members[s][j] \in Range(r)
      BY <1>0 DEF Range
    <3>1. members[s][j] \in Inside(members[s][j])
      BY <1>0, InsideIsClosed DEF SmallerMembers
    <3> QED BY <3>1 DEF Extends, InsideMembers
  <2>4. InOrder(Append(r, s)) /\ Range(Append(r, s)) = Range(r) \cup {s}
    BY <2>2, <2>3, AppendInOrder DEF Extends
  <2>5. Found(after, o, s) = Append(r, s)
    BY <1>2 DEF Found
  <2>6. Range(r) = Range(o) \cup InsideMembers(s, n)
    BY DEF Extends
  <2> QED BY <2>4, <2>5, <2>6, InsideIsMembers DEF Extends
<1> QED BY <1>1, <1>2

(* What findStruct's loop over the members adds.                            *)
LEMMA MembersExtend ==
  ASSUME SmallerMembers, NEW c, World(c), NEW s \in c, NEW o, InOrder(o), Range(o) \subseteq c
  PROVE  Extends(AfterMembers[<<s, Len(members[s]), o>>], o, InsideMembers(s, Len(members[s])))
<1> DEFINE P == {d \in Steps :
                   d[1] \in c /\ d[2] <= Len(members[d[1]]) /\ InOrder(d[3]) /\ Range(d[3]) \subseteq c =>
                   Extends(AfterMembers[d], d[3], InsideMembers(d[1], d[2]))}
<1>1. ASSUME NEW d \in Steps, \A e \in Steps : StepRank[e] < StepRank[d] => e \in P
      PROVE  d \in P
  <2> SUFFICES ASSUME d[1] \in c, d[2] <= Len(members[d[1]]), InOrder(d[3]), Range(d[3]) \subseteq c
               PROVE  Extends(AfterMembers[d], d[3], InsideMembers(d[1], d[2]))
    OBVIOUS
  <2> DEFINE t == d[1]
             k == d[2]
  <2>0. /\ t \in Struct /\ k \in 0 .. MaxStruct /\ MaxStruct \in Nat
        /\ members[t] \in Seq(Struct) /\ DOMAIN members[t] = 1 .. Len(members[t])
    BY StructAssumption DEF Steps, SmallerMembers
  <2>1. CASE k = 0
    <3>0. k \notin DOMAIN members[t]
      BY <2>0, <2>1
    <3>1. AfterMembers[d] = d[3]
      BY <3>0, AfterMembersIs DEF AfterStep
    <3>2. InsideMembers(t, k) = {}
      BY <2>1 DEF InsideMembers
    <3> QED BY <3>1, <3>2 DEF Extends
  <2>2. CASE k # 0
    <3> DEFINE m == members[t][k]
               e == <<t, k - 1, d[3]>>
               o1 == AfterMembers[e]
    <3>1. k \in DOMAIN members[t] /\ d[3] \in Seq(Struct) /\ k \in Nat
      BY <2>0, <2>2 DEF Steps
    <3>2. e \in Steps /\ StepRank[e] < StepRank[d]
      BY <3>1, RankFewer
    <3>3. Extends(o1, d[3], InsideMembers(t, k - 1))
      <4>1. e[1] = t /\ e[2] = k - 1 /\ e[3] = d[3] /\ k - 1 <= Len(members[t])
        BY <2>0, <3>1
      <4>2. e \in P
        BY <1>1, <3>2
      <4> HIDE DEF e
      <4> QED BY <4>1, <4>2
    <3>4. InOrder(o1) /\ o1 \in Seq(Struct) /\ Range(o1) \subseteq c
      <4>1. ASSUME NEW j \in 1 .. k - 1 PROVE Inside(members[t][j]) \subseteq c
        <5>1. j \in DOMAIN members[t]
          BY <2>0, <3>1, <4>1
        <5>2. members[t][j] \in c
          BY <5>1 DEF World, Closed, Range
        <5> QED BY <5>2, InsideIsLeast DEF World
      <4>2. InsideMembers(t, k - 1) \subseteq c
        BY <4>1 DEF InsideMembers
      <4> HIDE DEF o1
      <4> QED BY <3>3, <4>2 DEF Extends, InOrder
    <3> DEFINE e2 == <<m, Len(members[m]), o1>>
    <3>5. m \in c /\ m \in Struct /\ e2 \in Steps /\ StepRank[e2] < StepRank[d]
      <4>1. m \in c
        BY <3>1 DEF World, Closed, Range
      <4> HIDE DEF o1
      <4> QED BY <3>1, <3>4, <4>1, RankMember
    <3>6. Extends(AfterMembers[e2], o1, InsideMembers(m, Len(members[m])))
      <4>1. e2 \in P
        BY <1>1, <3>5
      <4>2. e2[1] = m /\ e2[2] = Len(members[m]) /\ e2[3] = o1
        OBVIOUS
      <4>3. Len(members[m]) \in Nat
        BY <3>5 DEF SmallerMembers
      <4> HIDE DEF e2, m, o1
      <4> QED BY <4>1, <4>2, <4>3, <3>4, <3>5
    <3>7. Extends(Found(AfterMembers, o1, m), o1, Inside(m))
      <4> HIDE DEF o1, m
      <4> QED BY <3>4, <3>5, <3>6, FoundExtends DEF e2
    <3>8. AfterMembers[d] = Found(AfterMembers, o1, m)
      BY <3>1, AfterMembersIs DEF AfterStep
    <3>9. InsideMembers(t, k) = InsideMembers(t, k - 1) \cup Inside(m)
      <4>1. 1 .. k = (1 .. k - 1) \cup {k}
        BY <2>0, <2>2
      <4> QED BY <4>1 DEF InsideMembers
    <3> HIDE DEF o1, m
    <3> QED BY <3>3, <3>7, <3>8, <3>9 DEF Extends
  <2> QED BY <2>1, <2>2
<1>2. \A d \in Steps : d \in P
  <2> HIDE DEF P
  <2> QED BY <1>1, StepRankType, RankInduction
<1>3. <<s, Len(members[s]), o>> \in Steps /\ Len(members[s]) \in Nat
  BY DEF Steps, SmallerMembers, InOrder, World
<1> DEFINE d == <<s, Len(members[s]), o>>
<1>4. d[1] = s /\ d[2] = Len(members[s]) /\ d[3] = o /\ d \in P
  BY <1>2, <1>3
<1> HIDE DEF d
<1> QED BY <1>3, <1>4 DEF d

LEMMA FindStructExtends ==
  ASSUME SmallerMembers, NEW c, World(c), NEW o, InOrder(o), Range(o) \subseteq c, NEW s \in c
  PROVE  Extends(FindStruct(o, s), o, Inside(s))
BY MembersExtend, FoundExtends DEF FindStruct

-----------------------------------------------------------------------------
(* What order holds: exactly what the visited symbols lead to, as long as   *)
(* that is told apart by its names.                                         *)
BuiltinsApart ==
  /\ \A s \in Builtin : Range(members[s]) \subseteq Builtin
  /\ \A s \in Struct, b \in Builtin : Same(s, b) => s = b

StructInv ==
  /\ SmallerMembers /\ BuiltinsApart
  /\ order \in Seq(Struct) /\ visited \subseteq Struct /\ named \subseteq Struct
  /\ Apart(Reached) => InOrder(order) /\ Range(order) = Reached

LEMMA ReachedIsClosed ==
  ASSUME SmallerMembers, visited \subseteq Struct
  PROVE  Reached \in SUBSET Struct /\ Closed(Reached) /\ visited \subseteq Reached
<1>1. \A s \in visited : s \in Inside(s) /\ Closed(Inside(s)) /\ Inside(s) \subseteq Struct
  BY InsideIsClosed
<1>2. \A x \in Reached : \E s \in visited : x \in Inside(s)
  BY DEF Reached
<1>3. \A s \in visited : Inside(s) \subseteq Reached
  BY DEF Reached
<1> QED BY <1>1, <1>2, <1>3 DEF Closed

LEMMA StructInvInit == StructInit => StructInv
<1> SUFFICES ASSUME StructInit PROVE StructInv
  OBVIOUS
<1>1. ASSUME NEW s \in Struct
      PROVE  /\ members[s] \in Seq(Struct) /\ Len(members[s]) \in 0 .. MaxStruct
             /\ \A k \in DOMAIN members[s] : members[s][k] \in Struct /\ members[s][k] < s
  <2>1. members[s] \in Subsequences(s - 1)
    BY DEF StructInit
  <2>2. PICK k \in 0 .. s - 1 : members[s] \in [1 .. k -> 1 .. s - 1]
    BY <2>1 DEF Subsequences
  <2>3. s - 1 \in Nat /\ s - 1 < MaxStruct /\ k \in Nat /\ MaxStruct \in Nat
    BY <2>2, StructAssumption DEF Struct
  <2>4. 1 .. s - 1 \subseteq Struct
    BY <2>3 DEF Struct
  <2>5. members[s] \in Seq(1 .. s - 1) /\ Len(members[s]) = k
    BY <2>2, <2>3, IsASeq
  <2>6. members[s] \in Seq(Struct)
    BY <2>4, <2>5, SeqMonotonic
  <2>7. Len(members[s]) \in 0 .. MaxStruct
    BY <2>2, <2>3, <2>5
  <2>8. \A i \in DOMAIN members[s] : members[s][i] \in 1 .. s - 1
    BY <2>2
  <2>9. \A x \in 1 .. s - 1 : x \in Struct /\ x < s
    <3>1. s \in Nat
      BY StructAssumption DEF Struct
    <3> QED BY <2>4, <3>1
  <2> QED BY <2>6, <2>7, <2>8, <2>9
<1>2. DOMAIN members = Struct /\ members \in [Struct -> Seq(Struct)]
  <2>1. members = [s \in Struct |-> members[s]]
    BY DEF StructInit
  <2> QED BY <1>1, <2>1
<1>3. SmallerMembers
  BY <1>1, <1>2 DEF SmallerMembers
<1>4. order = <<>> /\ visited = {} /\ named = {}
  BY DEF StructInit
<1>5. InOrder(<<>>) /\ Range(<<>>) = {} /\ <<>> \in Seq(Struct)
  BY EmptySeq DEF InOrder, Range
<1>6. BuiltinsApart
  BY DEF StructInit, BuiltinsApart, Same
<1>7. Reached = {}
  BY <1>4 DEF Reached
<1> QED BY <1>3, <1>4, <1>5, <1>6, <1>7 DEF StructInv

LEMMA StructInvVisit ==
  ASSUME StructInv, NEW s \in Struct, VisitStruct(s)
  PROVE  StructInv'
<1>1. members' = members /\ called' = called /\ named' = named /\ order' = FindStruct(order, s)
      /\ visited' = visited \cup {s}
  BY DEF VisitStruct
<1>2. SmallerMembers' /\ BuiltinsApart'
  BY <1>1 DEF StructInv, SmallerMembers, BuiltinsApart, Same
<1>3. \A x : Inside(x)' = Inside(x)
  BY <1>1 DEF Inside, Closed
<1>4. Reached' = Reached \cup Inside(s)
  BY <1>1, <1>3 DEF Reached
<1>5. order' \in Seq(Struct) /\ visited' \subseteq Struct /\ named' \subseteq Struct
  BY <1>1, FindStructType DEF StructInv
<1>6. ASSUME Apart(Reached)' PROVE InOrder(order)' /\ Range(order)' = Reached'
  <2> DEFINE c == Reached \cup Inside(s)
  <2>1. Apart(c) /\ Apart(Reached)
    BY <1>1, <1>4, <1>6 DEF Apart, Same
  <2>2. World(c) /\ s \in c
    BY <2>1, ReachedIsClosed, InsideIsClosed DEF StructInv, World, Closed
  <2>3. InOrder(order) /\ Range(order) = Reached
    BY <2>1 DEF StructInv
  <2>4. Extends(FindStruct(order, s), order, Inside(s))
    BY <2>2, <2>3, FindStructExtends DEF StructInv
  <2>5. InOrder(order)' <=> InOrder(order')
    BY <1>1 DEF InOrder
  <2>6. Range(order)' = Range(order')
    OBVIOUS
  <2> QED BY <1>1, <1>4, <2>3, <2>4, <2>5, <2>6 DEF Extends
<1> QED BY <1>2, <1>5, <1>6 DEF StructInv

LEMMA StructInvStep ==
  StructInv /\ [StructNext]_<<members, called, order, visited, named>> => StructInv'
<1> SUFFICES ASSUME StructInv, [StructNext]_<<members, called, order, visited, named>>
             PROVE  StructInv'
  OBVIOUS
<1>1. CASE \E s \in Struct : VisitStruct(s)
  BY <1>1, StructInvVisit
<1>2. ASSUME members' = members, called' = called, order' = order, visited' = visited,
             named' \subseteq Struct
      PROVE  StructInv'
  <2>1. \A x : Inside(x)' = Inside(x)
    BY <1>2 DEF Inside, Closed
  <2>2. Reached' = Reached
    BY <1>2, <2>1 DEF Reached
  <2>3. Apart(Reached)' <=> Apart(Reached)
    BY <1>2, <2>2 DEF Apart, Same
  <2>4. SmallerMembers' /\ BuiltinsApart' /\ (InOrder(order)' <=> InOrder(order))
        /\ Range(order)' = Range(order)
    BY <1>2 DEF StructInv, SmallerMembers, InOrder, BuiltinsApart, Same
  <2> QED BY <1>2, <2>2, <2>3, <2>4 DEF StructInv
<1>3. CASE \E s \in Struct : NameStruct(s)
  BY <1>2, <1>3 DEF NameStruct, StructInv
<1>4. CASE UNCHANGED <<members, called, order, visited, named>>
  BY <1>2, <1>4 DEF StructInv
<1> QED BY <1>1, <1>3, <1>4 DEF StructNext

\* What is written at a place has its name.
LEMMA LastIs ==
  ASSUME order \in Seq(Struct), NEW i \in DOMAIN order
  PROVE  LastOf(order[i]) \in DOMAIN order /\ Same(Shown(i), order[i])
<1> DEFINE D == {j \in DOMAIN order : Same(order[j], order[i])}
<1>1. DOMAIN order = 1 .. Len(order) /\ Len(order) \in Nat
  OBVIOUS
<1>2. i \in D
  BY DEF Same
<1>3. \E d \in D : \A e \in D : e <= d
  <2>1. D \in SUBSET (1 .. Len(order)) /\ D # {}
    BY <1>1, <1>2
  <2> HIDE DEF D
  <2> QED BY <1>1, <2>1, HighestOf
<1>4. \E j \in DOMAIN order :
        Same(order[j], order[i]) /\ \A k \in DOMAIN order : Same(order[k], order[i]) => k <= j
  BY <1>3
<1>5. LastOf(order[i]) \in DOMAIN order /\ Same(order[LastOf(order[i])], order[i])
  BY <1>4 DEF LastOf
<1> QED BY <1>5 DEF Shown

\* Names that tell the structures apart put each where it is found.
LEMMA ApartIsDeclared ==
  ASSUME StructInv, Apart(Reached)
  PROVE  DeclaredOnceInOrder /\ NoOthersUndeclared
<1>1. InOrder(order) /\ Range(order) = Reached /\ order \in Seq(Struct)
  BY DEF StructInv
<1>2. ASSUME NEW i \in DOMAIN order PROVE Shown(i) = order[i]
  <2>1. LastOf(order[i]) \in DOMAIN order /\ Same(Shown(i), order[i])
    BY <1>1, LastIs
  <2>2. Shown(i) \in Reached /\ order[i] \in Reached
    BY <1>1, <2>1 DEF Shown, Range
  <2> QED BY <2>1, <2>2 DEF Apart
<1>3. \A i \in Declared : i \in DOMAIN order /\ Shown(i) = order[i] /\ order[i] \notin Builtin
  BY <1>2 DEF Declared
<1>4. ASSUME NEW i \in Declared, NEW m \in Range(members[Shown(i)]) \ Builtin
      PROVE  \E j \in Declared : j < i /\ Shown(j) = m
  <2>1. PICK j \in DOMAIN order : j < i /\ order[j] = m
    BY <1>1, <1>3, <1>4 DEF InOrder
  <2>2. j \in Declared
    BY <1>4, <2>1 DEF Declared
  <2> QED BY <1>3, <2>1, <2>2
<1>5. \A i, j \in Declared : Shown(i) = Shown(j) => i = j
  BY <1>1, <1>3 DEF InOrder
<1>6. {Shown(i) : i \in Declared} \cup Builtin = Reached \cup Builtin
  <2>1. \A x \in Reached \ Builtin : \E i \in Declared : Shown(i) = x
    BY <1>1, <1>2 DEF Declared, Range
  <2>2. \A i \in Declared : Shown(i) \in Reached
    BY <1>1, <1>3 DEF Range
  <2> QED BY <2>1, <2>2
<1>7. visited \subseteq Reached
  BY ReachedIsClosed DEF StructInv
<1>8. NoOthersUndeclared
  BY <1>6, <1>7 DEF NoOthersUndeclared
<1> QED BY <1>4, <1>5, <1>8 DEF DeclaredOnceInOrder

\* What is declared has one structure of a name; so what must be declared has.
LEMMA DeclaredIsApart ==
  ASSUME StructInv, DeclaredOnceInOrder, NoOthersUndeclared
  PROVE  Apart(Reached)
<1> DEFINE declared == {Shown(i) : i \in Declared}
           c == declared \cup Builtin
<1>1. order \in Seq(Struct) /\ SmallerMembers /\ BuiltinsApart /\ visited \subseteq Struct
  BY DEF StructInv
<1>2. \A i \in Declared : /\ i \in DOMAIN order /\ Shown(i) \in Struct
                          /\ Same(Shown(i), order[i])
  <2>1. \A i \in Declared : i \in DOMAIN order
    BY DEF Declared
  <2> QED BY <1>1, <2>1, LastIs DEF Shown
<1>3. c \in SUBSET Struct
  BY <1>2, StructAssumption DEF Struct
<1>4. Closed(c)
  <2>1. ASSUME NEW i \in Declared, NEW m \in Range(members[Shown(i)]) PROVE m \in c
    BY <2>1 DEF DeclaredOnceInOrder
  <2>2. \A x \in Builtin : Range(members[x]) \subseteq c
    BY <1>1 DEF BuiltinsApart
  <2> QED BY <2>1, <2>2 DEF Closed
<1>5. visited \subseteq c
  <2>1. visited \subseteq Reached
    BY <1>1, ReachedIsClosed
  <2>2. (visited \cup named) \ c = named \ (Reached \cup Builtin)
    BY DEF NoOthersUndeclared
  <2> QED BY <2>1, <2>2
<1>6. Reached \subseteq c
  <2>1. \A s \in visited : Inside(s) \subseteq c
    BY <1>1, <1>3, <1>4, <1>5, InsideIsLeast
  <2> QED BY <2>1 DEF Reached
<1>7. ASSUME NEW i \in Declared, NEW j \in Declared, Same(Shown(i), Shown(j))
      PROVE  Shown(i) = Shown(j)
  <2>1. called[order[i]] = called[order[j]]
    BY <1>2, <1>7 DEF Same
  <2>2. LastOf(order[i]) = LastOf(order[j])
    BY <2>1 DEF LastOf, Same
  <2> QED BY <2>2 DEF Shown
<1>8. \A x \in c, b \in Builtin : (Same(x, b) => x = b) /\ (Same(b, x) => b = x)
  BY <1>1, <1>3 DEF BuiltinsApart, Same
<1>9. Apart(c)
  BY <1>7, <1>8 DEF Apart
<1> QED BY <1>6, <1>9 DEF Apart

LEMMA StructInvImplies == StructInv => StructsDeclared
<1>1. StructInv => (Apart(Reached) <=> DeclaredOnceInOrder /\ NoOthersUndeclared)
  BY ApartIsDeclared, DeclaredIsApart
<1> QED BY <1>1 DEF StructsDeclared, Apart

(* For any structures and any visits: each structure that a visited symbol  *)
(* leads to is declared once, after those it contains, and nothing else is, *)
(* exactly unless two of them have one name (findStruct and process).       *)
THEOREM StructsAreDeclared == StructSpec => []StructsDeclared
<1>1. StructSpec => []StructInv
  BY StructInvInit, StructInvStep, PTL DEF StructSpec
<1> QED BY <1>1, StructInvImplies, PTL

-----------------------------------------------------------------------------
(* The text of a constant.                                                 *)

LEMMA TypeFacts ==
  ASSUME NEW n \in DOMAIN Types
  PROVE  /\ n \in Nat /\ n \in 1 .. Len(Types)
         /\ Types[n].members \in Seq(1 .. n - 1) /\ Len(Types[n].members) \in 0 .. MaxArguments
         /\ Types[n].dims \in Seq(0 .. MaxArguments) /\ Len(Types[n].dims) \in 0 .. MaxArguments
         /\ Types[n].cols \in Nat \ {0} /\ Types[n].rows \in Nat \ {0}
         /\ Types[n].kind = "mat" => Types[n].cols > 1
         /\ Types[n].kind # "struct" => Types[n].members = <<>>
<1>1. IsType(Types[n], 1 .. n - 1) /\ n \in 1 .. Len(Types) /\ Len(Types) \in Nat /\ MaxArguments \in Nat
  BY ConstantAssumption
<1>2. /\ Types[n].members \in Seq(1 .. n - 1) /\ Len(Types[n].members) <= MaxArguments
      /\ Types[n].dims \in Seq(0 .. MaxArguments) /\ Len(Types[n].dims) <= MaxArguments
  BY <1>1 DEF IsType
<1>3. Len(Types[n].members) \in Nat /\ Len(Types[n].dims) \in Nat
  BY <1>2, LenProperties
<1> QED BY <1>1, <1>2, <1>3 DEF IsType

LEMMA ConstructorFacts ==
  ASSUME NEW c \in Constructors
  PROVE  /\ c = <<c[1], c[2]>>
         /\ c[1] \in DOMAIN Types /\ c[1] \in Nat
         /\ c[2] \in 0 .. Len(Of(c).dims) /\ c[2] \in 0 .. MaxArguments
         /\ Count(c) \in 0 .. MaxArguments
         /\ Scalars(c) \in Nat \ {0}
         /\ Of(c).kind = "mat" => Scalars(c) > 1
<1>1. PICK n \in DOMAIN Types : c \in {n} \X (0 .. Len(Types[n].dims))
  BY DEF Constructors
<1>2. c = <<c[1], c[2]>> /\ c[1] = n /\ c[2] \in 0 .. Len(Types[n].dims)
  BY <1>1
<1>3. Of(c) = Types[n]
  BY <1>2 DEF Of
<1>4. c[2] \in 0 .. MaxArguments
  <2>1. Len(Types[n].dims) \in 0 .. MaxArguments /\ MaxArguments \in Nat
    BY TypeFacts, ConstantAssumption
  <2> HIDE DEF Of
  <2> QED BY <1>2, <2>1
<1>5. Count(c) \in 0 .. MaxArguments
  <2>1. CASE c[2] > 0
    <3> DEFINE i == Len(Types[n].dims) - c[2] + 1
    <3>1. i \in 1 .. Len(Types[n].dims)
      BY <1>2, <2>1, TypeFacts
    <3>2. Types[n].dims[i] \in 0 .. MaxArguments
      BY <3>1, TypeFacts, ElementOfSeq
    <3> QED BY <1>3, <2>1, <3>2 DEF Count
  <2>2. CASE ~(c[2] > 0)
    BY <1>3, <2>2, TypeFacts DEF Count
  <2> QED BY <2>1, <2>2
<1>6. Scalars(c) \in Nat \ {0} /\ (Of(c).kind = "mat" => Scalars(c) > 1)
  <2> DEFINE a == Types[n].cols
             b == Types[n].rows
  <2>1. a \in Nat \ {0} /\ b \in Nat \ {0} /\ (Types[n].kind = "mat" => a > 1)
    BY TypeFacts
  <2>2. Scalars(c) = a * b
    BY <1>3 DEF Scalars
  <2> HIDE DEF a, b
  <2>3. PICK k \in Nat : b = k + 1
    <3>1. b - 1 \in Nat /\ b = b - 1 + 1
      BY <2>1
    <3> QED BY <3>1
  <2>4. a * b = a * k + a /\ a * k \in Nat
    BY <2>1, <2>3
  <2> QED BY <1>3, <2>1, <2>2, <2>4
<1> QED BY <1>2, <1>3, <1>4, <1>5, <1>6, TypeFacts

LEMMA WholeType ==
  ASSUME NEW n \in DOMAIN Types
  PROVE  Whole(n) \in Constructors /\ Whole(n)[1] = n
<1>1. Len(Types[n].dims) \in 0 .. Len(Types[n].dims)
  BY TypeFacts
<1> QED BY <1>1 DEF Constructors, Whole

LEMMA PartIsLower ==
  ASSUME NEW c \in Constructors, NEW k \in 1 .. Count(c)
  PROVE  /\ Part(c, k) \in Constructors
         /\ \/ Part(c, k)[1] < c[1]
            \/ Part(c, k)[1] = c[1] /\ Part(c, k)[2] < c[2]
<1> DEFINE n == c[1]
<1>1. n \in DOMAIN Types /\ c[2] \in 0 .. Len(Types[n].dims)
  BY ConstructorFacts DEF Of
<1>2. CASE c[2] > 0
  <2>1. Part(c, k) = <<n, c[2] - 1>>
    BY <1>2 DEF Part
  <2>2. c[2] - 1 \in 0 .. Len(Types[n].dims)
    BY <1>1, <1>2, TypeFacts
  <2> QED BY <1>1, <2>1, <2>2 DEF Constructors
<1>3. CASE ~(c[2] > 0)
  <2> DEFINE m == Types[n].members[k]
  <2>1. Part(c, k) = Whole(m)
    BY <1>3 DEF Part, Of
  <2>2. k \in 1 .. Len(Types[n].members)
    BY <1>3 DEF Count, Of
  <2>3. m \in 1 .. n - 1
    BY <1>1, <2>2, TypeFacts, ElementOfSeq
  <2>4. m \in DOMAIN Types /\ m < n
    BY <1>1, <2>3, TypeFacts, ConstantAssumption
  <2>5. Whole(m) \in Constructors /\ Whole(m)[1] = m
    <3> HIDE DEF m
    <3> QED BY <2>4, WholeType
  <2> QED BY <2>1, <2>4, <2>5
<1> QED BY <1>2, <1>3

LoopRank ==
  [l \in Loops |-> (l[1][1] * (MaxArguments + 1) + l[1][2]) * (MaxArguments + 1) + l[2]]

LEMMA LoopRankType == LoopRank \in [Loops -> Nat]
<1> SUFFICES ASSUME NEW l \in Loops
             PROVE  (l[1][1] * (MaxArguments + 1) + l[1][2]) * (MaxArguments + 1) + l[2] \in Nat
  BY DEF LoopRank
<1>1. l[1] \in Constructors /\ l[2] \in Nat /\ MaxArguments \in Nat
  BY ConstantAssumption DEF Loops
<1> DEFINE a == l[1][1]
           b == l[1][2]
           w == MaxArguments + 1
<1>2. a \in Nat /\ b \in Nat /\ w \in Nat
  BY <1>1, ConstructorFacts
<1> HIDE DEF a, b, w
<1>3. a * w + b \in Nat
  BY <1>2
<1>4. (a * w + b) * w \in Nat
  BY <1>2, <1>3
<1>5. (a * w + b) * w + l[2] \in Nat
  BY <1>1, <1>4
<1> QED BY <1>5 DEF a, b, w

LEMMA LoopFewer ==
  ASSUME NEW l \in Loops, l[2] \in 1 .. Count(l[1]), NEW i \in Nat
  PROVE  /\ <<l[1], l[2] - 1, i>> \in Loops
         /\ LoopRank[<<l[1], l[2] - 1, i>>] < LoopRank[l]
<1>1. l[1] \in Constructors /\ l[2] \in 0 .. MaxArguments /\ MaxArguments \in Nat
  BY ConstantAssumption DEF Loops
<1>2. <<l[1], l[2] - 1, i>> \in Loops
  BY <1>1 DEF Loops
<1> DEFINE a == (l[1][1] * (MaxArguments + 1) + l[1][2]) * (MaxArguments + 1)
<1>3. LoopRank[<<l[1], l[2] - 1, i>>] = a + (l[2] - 1) /\ LoopRank[l] = a + l[2]
  BY <1>2 DEF LoopRank
<1>4. a + l[2] \in Nat
  <2>1. LoopRank[l] \in Nat
    BY LoopRankType
  <2> HIDE DEF a
  <2> QED BY <1>3, <2>1
<1>5. a \in Int
  <2> DEFINE b == l[1][1]
             d == l[1][2]
             w == MaxArguments + 1
  <2>1. b \in Nat /\ d \in Nat /\ w \in Nat
    BY <1>1, ConstructorFacts
  <2> HIDE DEF b, d, w
  <2>2. b * w + d \in Nat
    BY <2>1
  <2>3. (b * w + d) * w \in Int
    BY <2>1, <2>2
  <2> QED BY <2>3 DEF b, d, w
<1> HIDE DEF a
<1> QED BY <1>1, <1>2, <1>3, <1>5

LEMMA LoopPart ==
  ASSUME NEW l \in Loops, l[2] \in 1 .. Count(l[1]), NEW i \in Nat
  PROVE  LET c == Part(l[1], l[2]) IN
         /\ c \in Constructors
         /\ <<c, Count(c), i>> \in Loops
         /\ LoopRank[<<c, Count(c), i>>] < LoopRank[l]
<1> DEFINE c == Part(l[1], l[2])
           w == MaxArguments + 1
<1>1. l[1] \in Constructors /\ l[2] \in 0 .. MaxArguments /\ MaxArguments \in Nat
  BY ConstantAssumption DEF Loops
<1>2. c \in Constructors /\ (c[1] < l[1][1] \/ (c[1] = l[1][1] /\ c[2] < l[1][2]))
  BY <1>1, PartIsLower
<1>3. /\ c[1] \in Nat /\ c[2] \in 0 .. MaxArguments /\ Count(c) \in 0 .. MaxArguments
      /\ l[1][1] \in Nat /\ l[1][2] \in 0 .. MaxArguments
  BY <1>1, <1>2, ConstructorFacts
<1>4. <<c, Count(c), i>> \in Loops
  BY <1>2, <1>3 DEF Loops
<1> DEFINE p == c[1] * w + c[2]
           q == l[1][1] * w + l[1][2]
<1>5. LoopRank[<<c, Count(c), i>>] = p * w + Count(c) /\ LoopRank[l] = q * w + l[2]
  BY <1>4 DEF LoopRank
<1> HIDE DEF c
<1>6. p < q /\ p \in Nat /\ q \in Nat
  <2>1. w \in Nat /\ c[2] \in Nat /\ c[2] < w /\ l[1][2] \in Nat
    BY <1>1, <1>3
  <2>2. CASE c[1] < l[1][1]
    <3> HIDE DEF w
    <3> QED BY <1>3, <2>1, <2>2, LexicographicRank
  <2>3. CASE c[1] = l[1][1] /\ c[2] < l[1][2]
    <3>1. c[1] * w \in Nat
      BY <1>3, <2>1
    <3> HIDE DEF w
    <3> QED BY <2>1, <2>3, <3>1
  <2> QED BY <1>2, <2>2, <2>3
<1>7. p * w + Count(c) < q * w + l[2]
  <2>1. w \in Nat /\ Count(c) \in Nat /\ Count(c) < w /\ l[2] \in Nat
    BY <1>1, <1>3
  <2> HIDE DEF p, q, w
  <2> QED BY <1>6, <2>1, LexicographicRank
<1> HIDE DEF p, q, w
<1> QED BY <1>2, <1>4, <1>5, <1>7 DEF c

-----------------------------------------------------------------------------
Places == [index : Nat, matrices : SUBSET (Nat \X Nat)]

LaidStep(g, l) ==
  IF l[2] \in 1 .. Count(l[1])
  THEN LET before == g[<<l[1], l[2] - 1, l[3]>>]
           last   == Lay(g, Part(l[1], l[2]), before.index)
       IN  Spot(last.index, before.matrices \cup last.matrices)
  ELSE Spot(l[3], {})

LEMMA LayType ==
  ASSUME NEW g, NEW c \in Constructors, NEW i \in Nat,
         ~IsLeaf(c) => g[<<c, Count(c), i>>] \in Places
  PROVE  Lay(g, c, i) \in Places
<1>1. CASE IsLeaf(c)
  <2>1. Scalars(c) \in Nat /\ i + Scalars(c) \in Nat
    BY ConstructorFacts
  <2>2. {<<i, Scalars(c)>>} \in SUBSET (Nat \X Nat)
    BY <2>1
  <2> QED BY <1>1, <2>1, <2>2 DEF Lay, Spot, Places
<1>2. CASE ~IsLeaf(c)
  BY <1>2 DEF Lay
<1> QED BY <1>1, <1>2

(* The layout of a type is what its recursive equation says.                *)
LEMMA LaidIs ==
  /\ Laid \in [Loops -> Places]
  /\ \A l \in Loops : Laid[l] = LaidStep(Laid, l)
<1> DEFINE F == [Loops -> Places]
           step == [x \in Loops \X F |-> LaidStep(x[2], x[1])]
<1>1. ASSUME NEW g, NEW l \in Loops, \A e \in Loops : LoopRank[e] < LoopRank[l] => g[e] \in Places
      PROVE  LaidStep(g, l) \in Places
  <2> DEFINE b == g[<<l[1], l[2] - 1, l[3]>>]
             c == Part(l[1], l[2])
  <2>0. l[1] \in Constructors /\ l[3] \in Nat
    BY DEF Loops
  <2>1. CASE l[2] \in 1 .. Count(l[1])
    <3>1. b \in Places
      BY <1>1, <2>0, <2>1, LoopFewer
    <3>2. b.index \in Nat /\ b.matrices \in SUBSET (Nat \X Nat)
      BY <3>1 DEF Places
    <3>3. c \in Constructors /\ g[<<c, Count(c), b.index>>] \in Places
      <4> HIDE DEF b
      <4> QED BY <1>1, <2>1, <3>2, LoopPart
    <3>4. Lay(g, c, b.index) \in Places
      <4> HIDE DEF b, c
      <4> QED BY <3>2, <3>3, LayType
    <3>5. LaidStep(g, l) = Spot(Lay(g, c, b.index).index, b.matrices \cup Lay(g, c, b.index).matrices)
      BY <2>1 DEF LaidStep
    <3> HIDE DEF b, c
    <3> QED BY <3>2, <3>4, <3>5 DEF Spot, Places
  <2>2. CASE l[2] \notin 1 .. Count(l[1])
    BY <2>0, <2>2 DEF LaidStep, Spot, Places
  <2> QED BY <2>1, <2>2
<1>2. step \in [Loops \X F -> Places]
  BY <1>1
<1>3. ASSUME NEW l \in Loops, NEW g \in F, NEW h \in F,
             \A e \in Loops : LoopRank[e] < LoopRank[l] => g[e] = h[e]
      PROVE  LaidStep(g, l) = LaidStep(h, l)
  <2> DEFINE b == g[<<l[1], l[2] - 1, l[3]>>]
             c == Part(l[1], l[2])
  <2>0. l[1] \in Constructors /\ l[3] \in Nat
    BY DEF Loops
  <2>1. CASE l[2] \in 1 .. Count(l[1])
    <3>1. b \in Places /\ h[<<l[1], l[2] - 1, l[3]>>] = b
      BY <1>3, <2>0, <2>1, LoopFewer
    <3>2. b.index \in Nat
      BY <3>1 DEF Places
    <3>3. g[<<c, Count(c), b.index>>] = h[<<c, Count(c), b.index>>]
      <4> HIDE DEF b
      <4> QED BY <1>3, <2>1, <3>2, LoopPart
    <3>4. Lay(g, c, b.index) = Lay(h, c, b.index)
      <4> HIDE DEF b, c
      <4> QED BY <3>3 DEF Lay
    <3> QED BY <2>1, <3>1, <3>4 DEF LaidStep
  <2>2. CASE l[2] \notin 1 .. Count(l[1])
    BY <2>2 DEF LaidStep
  <2> QED BY <2>1, <2>2
<1>4. \A l \in Loops : \A g \in F : step[<<l, g>>] = LaidStep(g, l)
  OBVIOUS
<1>5. LooksLower(Loops, Places, LoopRank, step)
  <2>1. Spot(0, {}) \in Places
    BY DEF Spot, Places
  <2>2. \A l \in Loops : \A g, h \in F :
          (\A e \in Loops : LoopRank[e] < LoopRank[l] => g[e] = h[e]) => step[<<l, g>>] = step[<<l, h>>]
    <3> HIDE DEF step, F
    <3> QED BY <1>3, <1>4
  <2> HIDE DEF step
  <2> QED BY <1>2, <2>1, <2>2, LoopRankType DEF LooksLower
<1>6. PICK f \in F : \A l \in Loops : f[l] = LaidStep(f, l)
  <2> HIDE DEF step
  <2>1. \E f \in F : \A l \in Loops : f[l] = step[<<l, f>>]
    BY <1>5, RecursionByRank
  <2> HIDE DEF F
  <2> QED BY <1>4, <2>1
<1>7. f = [l \in Loops |-> LaidStep(f, l)]
  BY <1>6
<1>8. Laid = CHOOSE g : g = [l \in Loops |-> LaidStep(g, l)]
  BY DEF Laid, LaidStep
<1>9. Laid = [l \in Loops |-> LaidStep(Laid, l)]
  BY <1>7, <1>8
<1>10. \A l \in Loops : Laid[l] \in Places
  <2> DEFINE P == {l \in Loops : Laid[l] \in Places}
  <2>1. ASSUME NEW l \in Loops, \A e \in Loops : LoopRank[e] < LoopRank[l] => e \in P
        PROVE  l \in P
    BY <1>1, <1>9, <2>1
  <2>2. \A l \in Loops : l \in P
    <3> HIDE DEF P
    <3> QED BY <2>1, LoopRankType, RankInduction
  <2> QED BY <2>2
<1> QED BY <1>9, <1>10

-----------------------------------------------------------------------------
(* Whatever data holds, or a diagonal matrix adds.                          *)
Components == {data[x] : x \in Nat} \cup {0}
Texts == [text : Seq(Components), index : Nat]

(* t is what data holds from index i.                                       *)
SameFrom(t, i) == \A k \in 1 .. Len(t) : t[k] = data[i + k - 1]

(* What was written from index i, e, and what glslang laid there, p.        *)
Agrees(e, p, i) ==
  /\ e \in Texts /\ p \in Places /\ e.index = p.index
  /\ Len(e.text) = e.index - i
  /\ SameFrom(e.text, i) <=> ~ \E m \in p.matrices : Uniform(m[1], m[2])

LEMMA MeaningIs ==
  ASSUME NEW c \in Constructors, NEW n \in Nat \ {0}, NEW given \in [1 .. n -> Components]
  PROVE  /\ Meaning(c, given) \in Seq(Components)
         /\ n > 1 => Meaning(c, given) = given
         /\ n = 1 => Len(Meaning(c, given)) = Scalars(c)
<1>1. given \in Seq(Components) /\ Len(given) = n
  BY IsASeq
<1>2. CASE n > 1
  BY <1>1, <1>2 DEF Meaning
<1>3. CASE n = 1
  <2>1. given[1] \in Components /\ 0 \in Components
    BY <1>3 DEF Components
  <2> DEFINE f == [i \in 1 .. Scalars(c) |->
                     IF Of(c).kind = "mat" /\ (i - 1) % Of(c).rows # (i - 1) \div Of(c).rows
                     THEN 0 ELSE given[1]]
  <2>2. f \in [1 .. Scalars(c) -> Components] /\ Scalars(c) \in Nat
    BY <2>1, ConstructorFacts
  <2>3. Meaning(c, given) = f
    BY <1>1, <1>3 DEF Meaning
  <2> HIDE DEF f
  <2>4. f \in Seq(Components) /\ Len(f) = Scalars(c)
    BY <2>2, IsASeq
  <2> QED BY <1>3, <2>3, <2>4
<1> QED BY <1>2, <1>3

(* A vector or scalar is written as it is; a matrix too, unless it is       *)
(* uniform: its diagonal alone is then left of it.                          *)
LEMMA LeafAgrees ==
  ASSUME NEW c \in Constructors, IsLeaf(c), NEW i \in Nat
  PROVE  Agrees(EmitLeaf(c, i), Lay(Laid, c, i), i)
<1> DEFINE n == Scalars(c)
           s == Shortened(i, n)
           given == [k \in 1 .. s[2] |-> data[s[1] + k - 1]]
           e == EmitLeaf(c, i)
           p == Lay(Laid, c, i)
           same == \A k \in 1 .. n - 1 : data[i + k] = data[i]
           isMatrix == Of(c).kind = "mat"
<1>1. n \in Nat \ {0} /\ (isMatrix => n > 1)
  BY ConstructorFacts
<1>2. p = Spot(i + n, IF isMatrix THEN {<<i, n>>} ELSE {})
  BY DEF Lay
<1>3. p \in Places /\ p.index = i + n
      /\ ((\E m \in p.matrices : Uniform(m[1], m[2])) <=> (isMatrix /\ data[i] # 0 /\ same))
  <2>1. p \in Places
    BY LayType
  <2> HIDE DEF n
  <2>2. p.index = i + n /\ p.matrices = IF isMatrix THEN {<<i, n>>} ELSE {}
    BY <1>2 DEF Spot
  <2> HIDE DEF p
  <2>3. Uniform(i, n) <=> data[i] # 0 /\ same
    BY DEF Uniform
  <2> HIDE DEF same, isMatrix
  <2>4. CASE isMatrix
    <3>1. \A m \in p.matrices : m[1] = i /\ m[2] = n
      BY <2>2, <2>4
    <3>2. <<i, n>> \in p.matrices
      BY <2>2, <2>4
    <3> QED BY <2>1, <2>2, <2>3, <2>4, <3>1, <3>2
  <2>5. CASE ~isMatrix
    BY <2>1, <2>2, <2>5
  <2> QED BY <2>4, <2>5
<1>4. e = Wrote(Meaning(c, given), s[1] + s[2])
  BY DEF EmitLeaf
<1> HIDE DEF e, p, n
<1>5. CASE ~same
  <2>1. s = <<i, n>> /\ n > 1
    BY <1>1, <1>5 DEF Shortened
  <2>2. given = [k \in 1 .. n |-> data[i + k - 1]]
    BY <2>1
  <2>3. given \in [1 .. n -> Components]
    <3>1. \A k \in 1 .. n : i + k - 1 \in Nat
      BY <1>1
    <3>2. \A k \in 1 .. n : data[i + k - 1] \in Components
      BY <3>1 DEF Components
    <3> QED BY <2>2, <3>2
  <2> HIDE DEF given, s
  <2>4. Meaning(c, given) = given /\ given \in Seq(Components) /\ Len(given) = n
    BY <1>1, <2>1, <2>3, MeaningIs, IsASeq
  <2>5. e = Wrote(given, i + n)
    BY <1>4, <2>1, <2>4
  <2>6. SameFrom(given, i)
    BY <2>2, <2>4 DEF SameFrom
  <2>7. e \in Texts /\ e.index = i + n /\ Len(e.text) = n /\ SameFrom(e.text, i)
    BY <1>1, <2>4, <2>5, <2>6 DEF Wrote, Texts
  <2> HIDE DEF same, isMatrix
  <2> QED BY <1>1, <1>3, <1>5, <2>7 DEF Agrees, e, p
<1>6. CASE same
  <2>1. s = <<i + n - 1, 1>>
    BY <1>6 DEF Shortened
  <2>2. data[i + n - 1] = data[i]
    <3>1. CASE n = 1
      BY <3>1
    <3>2. CASE n # 1
      <4>1. n - 1 \in 1 .. n - 1 /\ i + (n - 1) = i + n - 1
        BY <1>1, <3>2
      <4> QED BY <1>6, <4>1
    <3> QED BY <3>1, <3>2
  <2>3. given = [k \in 1 .. 1 |-> data[i]]
    <3>1. \A k \in 1 .. 1 : i + n - 1 + k - 1 = i + n - 1
      BY <1>1
    <3> QED BY <2>1, <2>2, <3>1
  <2>4. given \in [1 .. 1 -> Components] /\ given[1] = data[i]
    BY <2>3 DEF Components
  <2> HIDE DEF given, s
  <2> DEFINE t == Meaning(c, given)
  <2>5. t \in Seq(Components) /\ Len(t) = n
    <3>1. 1 \in Nat \ {0}
      OBVIOUS
    <3> QED BY <2>4, <3>1, MeaningIs DEF n
  <2>6. e = Wrote(t, i + n)
    <3>1. i + n - 1 + 1 = i + n
      BY <1>1
    <3> QED BY <1>4, <2>1, <3>1
  <2>7. t = [k \in 1 .. n |-> IF isMatrix /\ (k - 1) % Of(c).rows # (k - 1) \div Of(c).rows
                              THEN 0 ELSE data[i]]
    <3>1. Len(given) = 1
      BY <2>4
    <3> QED BY <2>4, <3>1 DEF Meaning, n
  <2>8. \A k \in 1 .. n : data[i + k - 1] = data[i]
    <3> SUFFICES ASSUME NEW k \in 1 .. n PROVE data[i + k - 1] = data[i]
      OBVIOUS
    <3>1. CASE k = 1
      BY <3>1
    <3>2. CASE k # 1
      <4>1. k - 1 \in 1 .. n - 1 /\ i + (k - 1) = i + k - 1
        BY <1>1, <3>2
      <4> QED BY <1>6, <4>1
    <3> QED BY <3>1, <3>2
  <2>9. SameFrom(t, i) <=> ~(isMatrix /\ data[i] # 0)
    <3>1. CASE ~isMatrix \/ data[i] = 0
      <4>1. \A k \in 1 .. n : t[k] = data[i]
        BY <2>7, <3>1
      <4> HIDE DEF t, isMatrix
      <4> QED BY <2>5, <2>8, <3>1, <4>1 DEF SameFrom
    <3>2. CASE isMatrix /\ data[i] # 0
      <4>1. 2 \in 1 .. n /\ i + 2 - 1 = i + 1
        BY <1>1, <3>2
      <4>2. (2 - 1) % Of(c).rows # (2 - 1) \div Of(c).rows
        <5> DEFINE r == Of(c).rows
        <5>1. r \in Nat \ {0}
          BY ConstructorFacts, TypeFacts DEF Of
        <5>2. CASE r = 1
          BY <5>2
        <5>3. CASE r > 1
          <6>1. 1 \div r = 0 /\ 1 % r = 1
            <7> HIDE DEF r
            <7> QED BY <5>3, <5>1
          <6> QED BY <6>1
        <5> QED BY <5>1, <5>2, <5>3
      <4>3. t[2] = 0
        BY <2>7, <3>2, <4>1, <4>2
      <4>4. t[2] # data[i + 2 - 1]
        BY <2>8, <3>2, <4>1, <4>3
      <4> HIDE DEF t, isMatrix
      <4> QED BY <2>5, <3>2, <4>1, <4>4 DEF SameFrom
    <3> QED BY <3>1, <3>2
  <2> HIDE DEF t
  <2>10. e \in Texts /\ e.index = i + n /\ e.text = t
    BY <1>1, <2>5, <2>6 DEF Wrote, Texts
  <2> HIDE DEF same, isMatrix
  <2> QED BY <1>1, <1>3, <1>6, <2>5, <2>9, <2>10 DEF Agrees, e, p
<1> HIDE DEF same
<1> QED BY <1>5, <1>6 DEF e, p

(* The positions of two texts laid one after the other.                     *)
LEMMA Shifted ==
  ASSUME NEW m \in Nat, NEW n \in Nat
  PROVE  /\ \A k \in 1 .. n : m + k \in 1 .. m + n /\ ~(m + k <= m) /\ m + k - m = k
         /\ \A k \in 1 .. m : k \in 1 .. m + n /\ k <= m
         /\ \A k \in 1 .. m + n : k > m => k - m \in 1 .. n /\ m + (k - m) = k
         /\ \A i, k \in Nat : i + m + (k - m) - 1 = i + k - 1
OBVIOUS

(* One argument after those done.                                           *)
LEMMA ArgumentAgrees ==
  ASSUME NEW e, NEW p, NEW i \in Nat, Agrees(e, p, i),
         NEW a, NEW q, Agrees(a, q, e.index)
  PROVE  Agrees(Wrote(e.text \o a.text, a.index),
                Spot(q.index, p.matrices \cup q.matrices), i)
<1> DEFINE t == e.text
           u == a.text
           tu == t \o u
<1>1. /\ t \in Seq(Components) /\ e.index \in Nat /\ e.index = p.index /\ Len(t) = e.index - i
      /\ u \in Seq(Components) /\ a.index \in Nat /\ a.index = q.index /\ Len(u) = a.index - e.index
      /\ p.matrices \in SUBSET (Nat \X Nat) /\ q.matrices \in SUBSET (Nat \X Nat)
      /\ Len(t) \in Nat /\ Len(u) \in Nat
  BY DEF Agrees, Texts, Places
<1>2. /\ SameFrom(t, i) <=> ~ \E m \in p.matrices : Uniform(m[1], m[2])
      /\ SameFrom(u, e.index) <=> ~ \E m \in q.matrices : Uniform(m[1], m[2])
  BY DEF Agrees
<1> HIDE DEF t, u
<1>3. tu \in Seq(Components) /\ Len(tu) = Len(t) + Len(u)
      /\ (\A k \in 1 .. Len(t) : tu[k] = t[k])
      /\ (\A k \in 1 .. Len(u) : tu[Len(t) + k] = u[k])
  <2>1. /\ tu \in Seq(Components) /\ Len(tu) = Len(t) + Len(u)
        /\ \A k \in 1 .. Len(t) + Len(u) : tu[k] = IF k <= Len(t) THEN t[k] ELSE u[k - Len(t)]
    BY <1>1, ConcatProperties
  <2> HIDE DEF tu
  <2>2. \A k \in 1 .. Len(u) : Len(t) + k \in 1 .. Len(t) + Len(u) /\ ~(Len(t) + k <= Len(t)) /\ Len(t) + k - Len(t) = k
    BY <1>1, Shifted
  <2>3. \A k \in 1 .. Len(t) : k \in 1 .. Len(t) + Len(u) /\ k <= Len(t)
    BY <1>1, Shifted
  <2> QED BY <2>1, <2>2, <2>3
<1> HIDE DEF tu
<1>4. SameFrom(tu, i) <=> SameFrom(t, i) /\ SameFrom(u, e.index)
  <2>1. ASSUME SameFrom(tu, i) PROVE SameFrom(t, i) /\ SameFrom(u, e.index)
    <3>1. \A k \in 1 .. Len(t) : k \in 1 .. Len(tu)
      BY <1>1, <1>3
    <3>2. \A k \in 1 .. Len(u) : Len(t) + k \in 1 .. Len(tu) /\ i + (Len(t) + k) - 1 = e.index + k - 1
      BY <1>1, <1>3
    <3> QED BY <1>3, <2>1, <3>1, <3>2 DEF SameFrom
  <2>2. ASSUME SameFrom(t, i), SameFrom(u, e.index) PROVE SameFrom(tu, i)
    <3> SUFFICES ASSUME NEW k \in 1 .. Len(tu) PROVE tu[k] = data[i + k - 1]
      BY DEF SameFrom
    <3>1. CASE k <= Len(t)
      BY <1>1, <1>3, <2>2, <3>1 DEF SameFrom
    <3>2. CASE k > Len(t)
      <4> DEFINE j == k - Len(t)
      <4>1. j \in 1 .. Len(u) /\ Len(t) + j = k /\ e.index + j - 1 = i + k - 1
        <5>1. k \in 1 .. Len(t) + Len(u) /\ k \in Nat /\ Len(t) \in Nat /\ Len(u) \in Nat
          BY <1>1, <1>3
        <5>2. k - Len(t) \in 1 .. Len(u) /\ Len(t) + (k - Len(t)) = k
          BY <3>2, <5>1, Shifted
        <5>3. e.index = i + Len(t)
          BY <1>1
        <5>4. e.index + (k - Len(t)) - 1 = i + k - 1
          BY <5>1, <5>3, Shifted
        <5> QED BY <5>2, <5>4
      <4> HIDE DEF j
      <4> QED BY <1>3, <2>2, <4>1 DEF SameFrom
    <3> QED BY <1>1, <3>1, <3>2
  <2> QED BY <2>1, <2>2
<1>5. Spot(q.index, p.matrices \cup q.matrices) \in Places
  BY <1>1 DEF Spot, Places
<1>6. Wrote(tu, a.index) \in Texts
  BY <1>1, <1>3 DEF Wrote, Texts
<1>7. SameFrom(tu, i) <=> ~ \E m \in p.matrices \cup q.matrices : Uniform(m[1], m[2])
  BY <1>2, <1>4
<1>8. Len(tu) = a.index - i
  BY <1>1, <1>3
<1>9. /\ Wrote(tu, a.index).text = tu /\ Wrote(tu, a.index).index = a.index
      /\ Spot(q.index, p.matrices \cup q.matrices).index = q.index
      /\ Spot(q.index, p.matrices \cup q.matrices).matrices = p.matrices \cup q.matrices
  BY DEF Wrote, Spot
<1>10. Agrees(Wrote(tu, a.index), Spot(q.index, p.matrices \cup q.matrices), i)
  BY <1>1, <1>5, <1>6, <1>7, <1>8, <1>9 DEF Agrees
<1> QED BY <1>10 DEF tu, t, u

EmittedStep(g, l) ==
  IF l[2] \in 1 .. Count(l[1])
  THEN LET done == g[<<l[1], l[2] - 1, l[3]>>]
           arg  == EmitConst(g, Part(l[1], l[2]), done.index)
       IN  Wrote(done.text \o arg.text, arg.index)
  ELSE Wrote(<<>>, l[3])

LEMMA EmitType ==
  ASSUME NEW g, NEW c \in Constructors, NEW i \in Nat,
         ~IsLeaf(c) => g[<<c, Count(c), i>>] \in Texts
  PROVE  EmitConst(g, c, i) \in Texts
<1>1. CASE IsLeaf(c)
  BY <1>1, LeafAgrees DEF EmitConst, Agrees
<1>2. CASE ~IsLeaf(c)
  BY <1>2 DEF EmitConst
<1> QED BY <1>1, <1>2

(* The recursion of emitConst ends: what it writes is what its equation     *)
(* says.                                                                    *)
LEMMA EmittedIs == \A l \in Loops : Emitted[l] = EmittedStep(Emitted, l)
<1> DEFINE F == [Loops -> Texts]
           step == [x \in Loops \X F |-> EmittedStep(x[2], x[1])]
<1>1. ASSUME NEW g \in F, NEW l \in Loops PROVE EmittedStep(g, l) \in Texts
  <2> DEFINE b == g[<<l[1], l[2] - 1, l[3]>>]
             c == Part(l[1], l[2])
             a == EmitConst(g, c, b.index)
  <2>0. l[1] \in Constructors /\ l[3] \in Nat
    BY DEF Loops
  <2>1. CASE l[2] \in 1 .. Count(l[1])
    <3>1. b \in Texts
      BY <2>0, <2>1, LoopFewer
    <3>2. b.index \in Nat /\ b.text \in Seq(Components)
      BY <3>1 DEF Texts
    <3>3. c \in Constructors /\ g[<<c, Count(c), b.index>>] \in Texts
      <4> HIDE DEF b
      <4> QED BY <2>1, <3>2, LoopPart
    <3>4. a \in Texts
      <4> HIDE DEF b, c
      <4> QED BY <3>2, <3>3, EmitType
    <3>5. EmittedStep(g, l) = Wrote(b.text \o a.text, a.index)
      BY <2>1 DEF EmittedStep
    <3> HIDE DEF a, b
    <3> QED BY <3>2, <3>4, <3>5 DEF Wrote, Texts
  <2>2. CASE l[2] \notin 1 .. Count(l[1])
    BY <2>0, <2>2, EmptySeq DEF EmittedStep, Wrote, Texts
  <2> QED BY <2>1, <2>2
<1>2. step \in [Loops \X F -> Texts]
  BY <1>1
<1>3. ASSUME NEW l \in Loops, NEW g \in F, NEW h \in F,
             \A e \in Loops : LoopRank[e] < LoopRank[l] => g[e] = h[e]
      PROVE  EmittedStep(g, l) = EmittedStep(h, l)
  <2> DEFINE b == g[<<l[1], l[2] - 1, l[3]>>]
             c == Part(l[1], l[2])
  <2>0. l[1] \in Constructors /\ l[3] \in Nat
    BY DEF Loops
  <2>1. CASE l[2] \in 1 .. Count(l[1])
    <3>1. b \in Texts /\ h[<<l[1], l[2] - 1, l[3]>>] = b
      BY <1>3, <2>0, <2>1, LoopFewer
    <3>2. b.index \in Nat
      BY <3>1 DEF Texts
    <3>3. g[<<c, Count(c), b.index>>] = h[<<c, Count(c), b.index>>]
      <4> HIDE DEF b
      <4> QED BY <1>3, <2>1, <3>2, LoopPart
    <3>4. EmitConst(g, c, b.index) = EmitConst(h, c, b.index)
      <4> HIDE DEF b, c
      <4> QED BY <3>3 DEF EmitConst
    <3> QED BY <2>1, <3>1, <3>4 DEF EmittedStep
  <2>2. CASE l[2] \notin 1 .. Count(l[1])
    BY <2>2 DEF EmittedStep
  <2> QED BY <2>1, <2>2
<1>4. \A l \in Loops : \A g \in F : step[<<l, g>>] = EmittedStep(g, l)
  OBVIOUS
<1>5. LooksLower(Loops, Texts, LoopRank, step)
  <2>1. Wrote(<<>>, 0) \in Texts
    BY EmptySeq DEF Wrote, Texts
  <2>2. \A l \in Loops : \A g, h \in F :
          (\A e \in Loops : LoopRank[e] < LoopRank[l] => g[e] = h[e]) => step[<<l, g>>] = step[<<l, h>>]
    <3> HIDE DEF step, F
    <3> QED BY <1>3, <1>4
  <2> HIDE DEF step
  <2> QED BY <1>2, <2>1, <2>2, LoopRankType DEF LooksLower
<1>6. PICK f \in F : \A l \in Loops : f[l] = EmittedStep(f, l)
  <2> HIDE DEF step
  <2>1. \E f \in F : \A l \in Loops : f[l] = step[<<l, f>>]
    BY <1>5, RecursionByRank
  <2> HIDE DEF F
  <2> QED BY <1>4, <2>1
<1>7. f = [l \in Loops |-> EmittedStep(f, l)]
  BY <1>6
<1>8. Emitted = CHOOSE g : g = [l \in Loops |-> EmittedStep(g, l)]
  BY DEF Emitted, EmittedStep
<1>9. Emitted = [l \in Loops |-> EmittedStep(Emitted, l)]
  BY <1>7, <1>8
<1> QED BY <1>9

LEMMA ConstructorAgrees ==
  ASSUME NEW c \in Constructors, NEW i \in Nat,
         ~IsLeaf(c) => Agrees(Emitted[<<c, Count(c), i>>], Laid[<<c, Count(c), i>>], i)
  PROVE  Agrees(EmitConst(Emitted, c, i), Lay(Laid, c, i), i)
<1>1. CASE IsLeaf(c)
  BY <1>1, LeafAgrees DEF EmitConst
<1>2. CASE ~IsLeaf(c)
  BY <1>2 DEF EmitConst, Lay
<1> QED BY <1>1, <1>2

LEMMA LoopAgrees == \A l \in Loops : Agrees(Emitted[l], Laid[l], l[3])
<1> DEFINE P == {l \in Loops : Agrees(Emitted[l], Laid[l], l[3])}
<1>1. ASSUME NEW l \in Loops, \A e \in Loops : LoopRank[e] < LoopRank[l] => e \in P
      PROVE  l \in P
  <2> DEFINE f == <<l[1], l[2] - 1, l[3]>>
             c == Part(l[1], l[2])
             e == Emitted[f]
             p == Laid[f]
  <2>0. l[1] \in Constructors /\ l[3] \in Nat
    BY DEF Loops
  <2>1. CASE l[2] \in 1 .. Count(l[1])
    <3>1. Agrees(e, p, l[3])
      <4>1. f \in P /\ f[3] = l[3]
        BY <1>1, <2>0, <2>1, LoopFewer
      <4> HIDE DEF f
      <4> QED BY <4>1
    <3>2. e.index \in Nat /\ e.index = p.index
      BY <3>1 DEF Agrees, Texts
    <3> DEFINE i == e.index
               a == EmitConst(Emitted, c, i)
               q == Lay(Laid, c, i)
    <3>3. Agrees(a, q, i)
      <4> HIDE DEF e, p, f
      <4>1. c \in Constructors /\ <<c, Count(c), i>> \in P
        BY <1>1, <2>1, <3>2, LoopPart
      <4>2. Agrees(Emitted[<<c, Count(c), i>>], Laid[<<c, Count(c), i>>], i)
        BY <4>1
      <4> HIDE DEF i, c
      <4> QED BY <3>2, <4>1, <4>2, ConstructorAgrees DEF i
    <3>4. Emitted[l] = Wrote(e.text \o a.text, a.index)
      BY <2>1, EmittedIs DEF EmittedStep
    <3>5. Laid[l] = Spot(q.index, p.matrices \cup q.matrices)
      BY <2>1, <3>2, LaidIs DEF LaidStep
    <3> HIDE DEF e, p, f, a, q
    <3>6. Agrees(Emitted[l], Laid[l], l[3])
      BY <2>0, <3>1, <3>3, <3>4, <3>5, ArgumentAgrees
    <3> QED BY <3>6
  <2>2. CASE l[2] \notin 1 .. Count(l[1])
    <3>1. Emitted[l] = Wrote(<<>>, l[3]) /\ Laid[l] = Spot(l[3], {})
      BY <2>2, EmittedIs, LaidIs DEF EmittedStep, LaidStep
    <3>2. Wrote(<<>>, l[3]) \in Texts /\ Spot(l[3], {}) \in Places
      BY <2>0, EmptySeq DEF Wrote, Spot, Texts, Places
    <3>3. Agrees(Wrote(<<>>, l[3]), Spot(l[3], {}), l[3])
      BY <2>0, <3>2 DEF Agrees, SameFrom, Wrote, Spot
    <3> QED BY <3>1, <3>3
  <2> QED BY <2>1, <2>2
<1>2. \A l \in Loops : l \in P
  <2> HIDE DEF P
  <2> QED BY <1>1, LoopRankType, RankInduction
<1> QED BY <1>2

-----------------------------------------------------------------------------
ConstTypeOK == type \in DOMAIN Types /\ data \in Seq(Values)

LEMMA ConstTypeHolds == ConstSpec => []ConstTypeOK
<1>1. ConstInit => ConstTypeOK
  BY EmptySeq DEF ConstInit, ConstTypeOK
<1>2. ConstTypeOK /\ [Component]_<<type, data>> => ConstTypeOK'
  <2>1. ASSUME ConstTypeOK, Component PROVE ConstTypeOK'
    BY <2>1, AppendProperties DEF ConstTypeOK, Component
  <2>2. ASSUME ConstTypeOK, UNCHANGED <<type, data>> PROVE ConstTypeOK'
    BY <2>2 DEF ConstTypeOK
  <2> QED BY <2>1, <2>2
<1> QED BY <1>1, <1>2, PTL DEF ConstSpec

LEMMA ConstantIsRight == ConstTypeOK => ConstantReadsBack
<1> SUFFICES ASSUME ConstTypeOK, Len(data) = Size(type)
             PROVE  LET r == EmitConst(Emitted, Whole(type), 1) IN
                    r.text = data /\ r.index = Len(data) + 1
                      <=> ~ \E m \in Layout(type).matrices : Uniform(m[1], m[2])
  BY DEF ConstantReadsBack
<1> DEFINE c == Whole(type)
           r == EmitConst(Emitted, c, 1)
           p == Lay(Laid, c, 1)
<1>1. c \in Constructors
  BY WholeType DEF ConstTypeOK
<1>2. <<c, Count(c), 1>> \in Loops
  BY <1>1, ConstructorFacts DEF Loops
<1>3. Agrees(r, p, 1)
  <2> HIDE DEF c
  <2>1. Agrees(Emitted[<<c, Count(c), 1>>], Laid[<<c, Count(c), 1>>], 1)
    BY <1>2, LoopAgrees
  <2> QED BY <1>1, <2>1, ConstructorAgrees
<1>4. p = Layout(type) /\ Size(type) = p.index - 1
  BY DEF Layout, Size
<1> HIDE DEF r, p
<1>5. /\ r.text \in Seq(Components) /\ r.index \in Nat /\ p.index = r.index
      /\ Len(r.text) = r.index - 1 /\ data \in Seq(Values)
  BY <1>3 DEF Agrees, Texts, ConstTypeOK
<1>6. r.index = Len(data) + 1 /\ Len(r.text) = Len(data)
  BY <1>4, <1>5
<1>7. SameFrom(r.text, 1) <=> r.text = data
  <2>1. SameFrom(r.text, 1) <=> \A k \in 1 .. Len(data) : r.text[k] = data[k]
    <3>1. \A k \in 1 .. Len(data) : 1 + k - 1 = k
      OBVIOUS
    <3> QED BY <1>6, <3>1 DEF SameFrom
  <2> QED BY <1>5, <1>6, <2>1, SeqEqual
<1> QED BY <1>3, <1>4, <1>6, <1>7 DEF r, Agrees

(* The text of a constant means its components, unless it has a uniform     *)
(* matrix: emitConst and emitNonArrayConst, for constants of every type.    *)
THEOREM ConstantsMean == ConstSpec => []ConstantReadsBack
BY ConstTypeHolds, ConstantIsRight, PTL

-----------------------------------------------------------------------------
(* The decimal text of a number.                                           *)

Chars == {"digit", "0", ".", "n", "-", "e"} \X Nat

LEMMA MadeSeq ==
  ASSUME NEW S, NEW n \in Nat, NEW f \in [1 .. n -> S]
  PROVE  f \in Seq(S) /\ Len(f) = n
OBVIOUS

LEMMA DigitsAre ==
  ASSUME NEW from \in Nat \ {0}, NEW to \in Nat, from <= to + 1
  PROVE  /\ Digits(from, to) \in Seq(Chars) /\ Len(Digits(from, to)) = to - from + 1
         /\ \A i \in 1 .. to - from + 1 : Digits(from, to)[i] = <<"digit", from + i - 1>>
<1>1. to - from + 1 \in Nat
  OBVIOUS
<1>2. Digits(from, to) \in [1 .. to - from + 1 -> Chars]
  <2>1. \A i \in 1 .. to - from + 1 : <<"digit", from + i - 1>> \in Chars
    BY DEF Chars
  <2> QED BY <2>1 DEF Digits
<1> QED BY <1>1, <1>2, MadeSeq DEF Digits

LEMMA ZerosAre ==
  ASSUME NEW n \in Nat
  PROVE  /\ Zeros(n) \in Seq(Chars) /\ Len(Zeros(n)) = n
         /\ \A i \in 1 .. n : Zeros(n)[i] = <<"0", 0>>
<1>1. Zeros(n) \in [1 .. n -> Chars]
  BY DEF Zeros, Chars
<1> QED BY <1>1, MadeSeq DEF Zeros

LEMMA PointIs == Point \in Seq(Chars) /\ Len(Point) = 1 /\ Point[1] = <<".", 0>>
BY DEF Point, Chars

(* What is at each place of two texts laid one after the other.             *)
LEMMA Joined ==
  ASSUME NEW s \in Seq(Chars), NEW t \in Seq(Chars)
  PROVE  /\ s \o t \in Seq(Chars) /\ Len(s \o t) = Len(s) + Len(t)
         /\ Len(s) \in Nat /\ Len(t) \in Nat
         /\ \A i \in 1 .. Len(s) + Len(t) :
              (s \o t)[i] = IF i <= Len(s) THEN s[i] ELSE t[i - Len(s)]
BY ConcatProperties, LenProperties

LEMMA PutFirst ==
  ASSUME NEW s \in Seq(Chars), NEW t \in Seq(Chars), Len(s) = 1
  PROVE  /\ s \o t \in Seq(Chars) /\ Len(s \o t) = 1 + Len(t) /\ Len(t) \in Nat
         /\ (s \o t)[1] = s[1]
         /\ \A i \in 1 .. Len(t) : (s \o t)[i + 1] = t[i]
<1> DEFINE u == s \o t
<1>1. /\ u \in Seq(Chars) /\ Len(u) = Len(s) + Len(t) /\ Len(s) = 1 /\ Len(t) \in Nat
      /\ \A i \in 1 .. Len(s) + Len(t) : u[i] = IF i <= Len(s) THEN s[i] ELSE t[i - Len(s)]
  BY Joined
<1> HIDE DEF u
<1>2. \A i \in 1 .. 1 + Len(t) : u[i] = IF i <= 1 THEN s[i] ELSE t[i - 1]
  BY <1>1
<1>3. \A i \in 1 .. Len(t) : i + 1 \in 1 .. 1 + Len(t) /\ ~(i + 1 <= 1) /\ i + 1 - 1 = i
  BY <1>1
<1>4. 1 \in 1 .. 1 + Len(t)
  BY <1>1
<1>5. u[1] = s[1] /\ \A i \in 1 .. Len(t) : u[i + 1] = t[i]
  BY <1>2, <1>3, <1>4
<1> QED BY <1>1, <1>5 DEF u

LEMMA PutLast ==
  ASSUME NEW s \in Seq(Chars), NEW t \in Seq(Chars), Len(t) = 1
  PROVE  /\ s \o t \in Seq(Chars) /\ Len(s \o t) = Len(s) + 1 /\ Len(s) \in Nat
         /\ (s \o t)[Len(s) + 1] = t[1]
         /\ \A i \in 1 .. Len(s) : (s \o t)[i] = s[i]
<1> DEFINE u == s \o t
<1>1. /\ u \in Seq(Chars) /\ Len(u) = Len(s) + Len(t) /\ Len(t) = 1 /\ Len(s) \in Nat
      /\ \A i \in 1 .. Len(s) + Len(t) : u[i] = IF i <= Len(s) THEN s[i] ELSE t[i - Len(s)]
  BY Joined
<1> HIDE DEF u
<1>2. \A i \in 1 .. Len(s) + 1 : u[i] = IF i <= Len(s) THEN s[i] ELSE t[i - Len(s)]
  BY <1>1
<1>3. \A i \in 1 .. Len(s) : i \in 1 .. Len(s) + 1 /\ i <= Len(s)
  BY <1>1
<1>4. Len(s) + 1 \in 1 .. Len(s) + 1 /\ ~(Len(s) + 1 <= Len(s)) /\ Len(s) + 1 - Len(s) = 1
  BY <1>1
<1>5. u[Len(s) + 1] = t[1] /\ \A i \in 1 .. Len(s) : u[i] = s[i]
  BY <1>2, <1>3, <1>4
<1> QED BY <1>1, <1>5 DEF u

-----------------------------------------------------------------------------
(* What a reader finds in a text.                                           *)

LEMMA MagnitudeSums ==
  ASSUME NEW text \in Seq(Chars)
  PROVE  \E f \in [0 .. Len(text) -> Nat] :
           /\ Magnitude(text) = f[Len(text)] /\ f[0] = 0
           /\ \A i \in 1 .. Len(text) :
                f[i] = IF text[i][1] = "n" THEN 10 * f[i - 1] + text[i][2] ELSE f[i - 1]
<1> DEFINE D == 0 .. Len(text)
           F == [D -> Nat]
           Step(g, i) == IF i = 0 THEN 0
                         ELSE IF text[i][1] = "n" THEN 10 * g[i - 1] + text[i][2] ELSE g[i - 1]
           rank == [d \in D |-> d]
           step == [x \in D \X F |-> Step(x[2], x[1])]
<1>0. Len(text) \in Nat /\ \A i \in 1 .. Len(text) : text[i] \in Chars /\ text[i][2] \in Nat
  BY LenProperties, ElementOfSeq DEF Chars
<1>1. \A i \in D : i # 0 => i \in 1 .. Len(text) /\ i - 1 \in D /\ i - 1 < i
  BY <1>0
<1>2. ASSUME NEW g \in F, NEW i \in D PROVE Step(g, i) \in Nat
  <2>1. CASE i = 0
    BY <2>1
  <2>2. CASE i # 0
    <3>1. g[i - 1] \in Nat /\ text[i][2] \in Nat
      BY <1>0, <1>1, <2>2
    <3>2. 10 * g[i - 1] + text[i][2] \in Nat
      BY <3>1
    <3> QED BY <2>2, <3>1, <3>2
  <2> QED BY <2>1, <2>2
<1>3. step \in [D \X F -> Nat]
  <2>1. \A x \in D \X F : Step(x[2], x[1]) \in Nat
    <3> HIDE DEF Step, D
    <3> QED BY <1>2
  <2> HIDE DEF Step, D, F
  <2> QED BY <2>1
<1>4. ASSUME NEW i \in D, NEW g \in F, NEW h \in F, \A e \in D : rank[e] < rank[i] => g[e] = h[e]
      PROVE  Step(g, i) = Step(h, i)
  <2>1. CASE i = 0
    BY <2>1
  <2>2. CASE i # 0
    <3>1. g[i - 1] = h[i - 1]
      BY <1>1, <1>4, <2>2
    <3> QED BY <2>2, <3>1
  <2> QED BY <2>1, <2>2
<1>5. rank \in [D -> Nat] /\ Nat # {}
  BY <1>0
<1>6. \A i \in D : \A g \in F : step[<<i, g>>] = Step(g, i)
  OBVIOUS
<1>7. LooksLower(D, Nat, rank, step)
  <2>1. \A i \in D : \A g, h \in F :
          (\A e \in D : rank[e] < rank[i] => g[e] = h[e]) => step[<<i, g>>] = step[<<i, h>>]
    <3> HIDE DEF step, F, Step, D, rank
    <3> QED BY <1>4, <1>6
  <2> HIDE DEF step, D, rank
  <2> QED BY <1>3, <1>5, <2>1 DEF LooksLower
<1>8. PICK f \in F : \A i \in D : f[i] = Step(f, i)
  <2> HIDE DEF step, D, rank, Step
  <2>1. \E f \in F : \A i \in D : f[i] = step[<<i, f>>]
    BY <1>7, RecursionByRank
  <2> HIDE DEF F
  <2> QED BY <1>6, <2>1
<1>9. f = [i \in D |-> Step(f, i)]
  <2> HIDE DEF Step
  <2> QED BY <1>8
<1> DEFINE U == CHOOSE g : g = [i \in D |-> Step(g, i)]
<1>10. U = [i \in D |-> Step(U, i)]
  BY <1>9
<1>11. Magnitude(text) = U[Len(text)]
  BY DEF Magnitude
<1> HIDE DEF U
<1>12. \A i \in D : U[i] = Step(U, i)
  <2> HIDE DEF Step
  <2> QED BY <1>10
<1>13. \A i \in D : U[i] \in Nat
  <2> DEFINE S == {n \in Nat : n \in D => U[n] \in Nat}
  <2>1. 0 \in S
    BY <1>0, <1>12
  <2>2. ASSUME NEW n \in Nat, n \in S PROVE n + 1 \in S
    <3>1. CASE n + 1 \in D
      <4>1. n \in D /\ n + 1 # 0 /\ n + 1 - 1 = n /\ U[n] \in Nat
        BY <2>2, <3>1, <1>0
      <4>2. U[n + 1] = IF text[n + 1][1] = "n" THEN 10 * U[n] + text[n + 1][2] ELSE U[n]
        BY <3>1, <4>1, <1>12
      <4>3. text[n + 1][2] \in Nat
        BY <1>0, <1>1, <3>1, <4>1
      <4>4. U[n + 1] \in Nat
        BY <4>1, <4>2, <4>3
      <4> QED BY <4>4
    <3> QED BY <3>1
  <2>3. \A n \in Nat : n \in S
    <3> HIDE DEF S
    <3> QED BY <2>1, <2>2, NatSetInduction
  <2> QED BY <1>0, <2>3
<1>14. U \in F
  <2> HIDE DEF Step
  <2> QED BY <1>10, <1>13
<1>15. 0 \in D /\ \A i \in 1 .. Len(text) : i \in D /\ i # 0
  BY <1>0
<1> QED BY <1>11, <1>12, <1>14, <1>15

(* Before the first digit of an exponent nothing is read of it.             *)
LEMMA NothingBefore ==
  ASSUME NEW n \in Nat, NEW f \in [0 .. n -> Nat], f[0] = 0, NEW m \in 0 .. n,
         \A i \in 1 .. m : f[i] = f[i - 1]
  PROVE  f[m] = 0
<1> DEFINE S == {i \in Nat : i <= m => f[i] = 0}
<1>1. 0 \in S
  OBVIOUS
<1>2. ASSUME NEW i \in Nat, i \in S PROVE i + 1 \in S
  <2>1. CASE i + 1 <= m
    <3>1. i + 1 \in 1 .. m /\ i + 1 - 1 = i /\ f[i] = 0
      BY <1>2, <2>1
    <3>2. f[i + 1] = 0
      BY <3>1
    <3> QED BY <3>2
  <2> QED BY <2>1
<1>3. \A i \in Nat : i \in S
  <2> HIDE DEF S
  <2> QED BY <1>1, <1>2, NatSetInduction
<1> QED BY <1>3

LEMMA NoExponent ==
  ASSUME NEW text \in Seq(Chars), \A i \in 1 .. Len(text) : text[i][1] \notin {"n", "-"}
  PROVE  Exponent(text) = 0
<1>1. PICK f \in [0 .. Len(text) -> Nat] :
           /\ Magnitude(text) = f[Len(text)] /\ f[0] = 0
           /\ \A i \in 1 .. Len(text) :
                f[i] = IF text[i][1] = "n" THEN 10 * f[i - 1] + text[i][2] ELSE f[i - 1]
  BY MagnitudeSums
<1>2. Len(text) \in Nat /\ Len(text) \in 0 .. Len(text)
  BY LenProperties
<1>3. Magnitude(text) = 0
  BY <1>1, <1>2, NothingBefore
<1>4. Positions(text, "-") = {}
  BY LenProperties DEF Positions
<1> QED BY <1>3, <1>4 DEF Exponent

LEMMA PointIsAt ==
  ASSUME NEW text \in Seq(Chars), NEW p \in 1 .. Len(text), text[p][1] \in {".", "e"},
         \A i \in 1 .. Len(text) : i < p => text[i][1] \notin {".", "e"}
  PROVE  PointAt(text) = p /\ Positions(text, ".") \cup Positions(text, "e") # {}
<1> DEFINE stops == Positions(text, ".") \cup Positions(text, "e") \cup {Len(text) + 1}
<1>1. Len(text) \in Nat /\ DOMAIN text = 1 .. Len(text)
  BY LenProperties
<1>2. p \in stops /\ p \in Positions(text, ".") \cup Positions(text, "e")
  BY <1>1 DEF Positions
<1>3. \A q \in stops : q \in Nat /\ p <= q
  <2>1. \A q \in Positions(text, ".") \cup Positions(text, "e") : q \in 1 .. Len(text) /\ ~(q < p)
    BY <1>1 DEF Positions
  <2> QED BY <1>1, <2>1
<1>4. PointAt(text) = CHOOSE q \in stops : \A r \in stops : q <= r
  BY DEF PointAt
<1> HIDE DEF stops
<1>5. \A q \in stops : (\A r \in stops : q <= r) => q = p
  BY <1>2, <1>3
<1> QED BY <1>2, <1>3, <1>4, <1>5

-----------------------------------------------------------------------------
(* How Prettify places what it writes, case by case.                        *)

(* 1234e7 -> 12340000000.0                                                  *)
WholeText(text, len, kk) ==
  /\ text \in Seq(Chars) /\ Len(text) = kk + 2
  /\ \A i \in 1 .. len : text[i] = <<"digit", i>>
  /\ \A i \in len + 1 .. kk : text[i] = <<"0", 0>>
  /\ text[kk + 1] = <<".", 0>> /\ text[kk + 2] = <<"0", 0>>

LEMMA WholeIs ==
  ASSUME NEW len \in Nat \ {0}, NEW kk \in Nat, len <= kk
  PROVE  WholeText(Digits(1, len) \o Zeros(kk - len) \o Point \o Zeros(1), len, kk)
<1> DEFINE d == Digits(1, len)
           z == Zeros(kk - len)
           o == Zeros(1)
           s == d \o z
           u == s \o Point
           text == u \o o
<1>1. d \in Seq(Chars) /\ Len(d) = len /\ \A i \in 1 .. len : d[i] = <<"digit", i>>
  <2>1. 1 \in Nat \ {0} /\ len \in Nat /\ 1 <= len + 1 /\ len - 1 + 1 = len
    OBVIOUS
  <2>2. \A i \in 1 .. len : 1 + i - 1 = i
    OBVIOUS
  <2> HIDE DEF d
  <2>3. /\ d \in Seq(Chars) /\ Len(d) = len - 1 + 1
        /\ \A i \in 1 .. len - 1 + 1 : d[i] = <<"digit", 1 + i - 1>>
    BY <2>1, DigitsAre DEF d
  <2> QED BY <2>1, <2>2, <2>3
<1>2. z \in Seq(Chars) /\ Len(z) = kk - len /\ \A i \in 1 .. kk - len : z[i] = <<"0", 0>>
  <2>1. kk - len \in Nat
    OBVIOUS
  <2> QED BY <2>1, ZerosAre
<1>3. o \in Seq(Chars) /\ Len(o) = 1 /\ o[1] = <<"0", 0>>
  <2>1. 1 \in Nat /\ 1 \in 1 .. 1
    OBVIOUS
  <2> QED BY <2>1, ZerosAre
<1> HIDE DEF d, z, o
<1>4. /\ s \in Seq(Chars) /\ Len(s) = kk
      /\ \A i \in 1 .. len : s[i] = <<"digit", i>>
      /\ \A i \in len + 1 .. kk : s[i] = <<"0", 0>>
  <2>1. /\ s \in Seq(Chars) /\ Len(s) = Len(d) + Len(z)
        /\ \A i \in 1 .. Len(d) + Len(z) : s[i] = IF i <= Len(d) THEN d[i] ELSE z[i - Len(d)]
    BY <1>1, <1>2, Joined
  <2> HIDE DEF s
  <2>2. Len(d) + Len(z) = kk
    BY <1>1, <1>2
  <2>3. \A i \in len + 1 .. kk : i \in 1 .. kk /\ ~(i <= len) /\ i - len \in 1 .. kk - len
    OBVIOUS
  <2>4. \A i \in 1 .. len : i \in 1 .. kk /\ i <= len
    OBVIOUS
  <2> QED BY <1>1, <1>2, <2>1, <2>2, <2>3, <2>4
<1> HIDE DEF s
<1>5. /\ u \in Seq(Chars) /\ Len(u) = kk + 1 /\ u[kk + 1] = <<".", 0>>
      /\ \A i \in 1 .. kk : u[i] = s[i]
  <2>1. /\ u \in Seq(Chars) /\ Len(u) = kk + 1
        /\ \A i \in 1 .. kk + 1 : u[i] = IF i <= kk THEN s[i] ELSE Point[i - kk]
    BY <1>4, PointIs, Joined
  <2> HIDE DEF u
  <2> QED BY <2>1, PointIs
<1> HIDE DEF u
<1>6. /\ text \in Seq(Chars) /\ Len(text) = kk + 2 /\ text[kk + 2] = <<"0", 0>>
      /\ \A i \in 1 .. kk + 1 : text[i] = u[i]
  <2>1. /\ text \in Seq(Chars) /\ Len(text) = kk + 1 + 1
        /\ \A i \in 1 .. kk + 1 + 1 : text[i] = IF i <= kk + 1 THEN u[i] ELSE o[i - (kk + 1)]
    BY <1>3, <1>5, Joined
  <2> HIDE DEF text
  <2> QED BY <1>3, <2>1
<1> HIDE DEF text
<1>7. WholeText(text, len, kk)
  BY <1>4, <1>5, <1>6 DEF WholeText
<1> QED BY <1>7 DEF text, u, s, d, z, o

(* 1234e-2 -> 12.34                                                         *)
PointedText(text, len, kk) ==
  /\ text \in Seq(Chars) /\ Len(text) = len + 1
  /\ \A i \in 1 .. kk : text[i] = <<"digit", i>>
  /\ text[kk + 1] = <<".", 0>>
  /\ \A i \in kk + 1 .. len : text[i + 1] = <<"digit", i>>

LEMMA PointedIs ==
  ASSUME NEW len \in Nat, NEW kk \in Nat \ {0}, len > kk
  PROVE  PointedText(Digits(1, kk) \o Point \o Digits(kk + 1, len), len, kk)
<1> DEFINE d == Digits(1, kk)
           r == Digits(kk + 1, len)
           s == d \o Point
           text == s \o r
<1>1. d \in Seq(Chars) /\ Len(d) = kk /\ \A i \in 1 .. kk : d[i] = <<"digit", i>>
  <2>1. 1 \in Nat \ {0} /\ kk \in Nat /\ 1 <= kk + 1 /\ kk - 1 + 1 = kk
    OBVIOUS
  <2>2. \A i \in 1 .. kk : 1 + i - 1 = i
    OBVIOUS
  <2> HIDE DEF d
  <2>3. /\ d \in Seq(Chars) /\ Len(d) = kk - 1 + 1
        /\ \A i \in 1 .. kk - 1 + 1 : d[i] = <<"digit", 1 + i - 1>>
    BY <2>1, DigitsAre DEF d
  <2> QED BY <2>1, <2>2, <2>3
<1>2. r \in Seq(Chars) /\ Len(r) = len - kk /\ \A i \in 1 .. len - kk : r[i] = <<"digit", kk + i>>
  <2>1. kk + 1 \in Nat \ {0} /\ kk + 1 <= len + 1 /\ len - (kk + 1) + 1 = len - kk
    OBVIOUS
  <2>2. \A i \in 1 .. len - kk : kk + 1 + i - 1 = kk + i
    OBVIOUS
  <2> HIDE DEF r
  <2>3. /\ r \in Seq(Chars) /\ Len(r) = len - (kk + 1) + 1
        /\ \A i \in 1 .. len - (kk + 1) + 1 : r[i] = <<"digit", kk + 1 + i - 1>>
    BY <2>1, DigitsAre DEF r
  <2> QED BY <2>1, <2>2, <2>3
<1> HIDE DEF d, r
<1>3. /\ s \in Seq(Chars) /\ Len(s) = kk + 1 /\ s[kk + 1] = <<".", 0>>
      /\ \A i \in 1 .. kk : s[i] = <<"digit", i>>
  <2>1. /\ s \in Seq(Chars) /\ Len(s) = kk + 1
        /\ \A i \in 1 .. kk + 1 : s[i] = IF i <= kk THEN d[i] ELSE Point[i - kk]
    BY <1>1, PointIs, Joined
  <2> HIDE DEF s
  <2> QED BY <1>1, <2>1, PointIs
<1> HIDE DEF s
<1>4. /\ text \in Seq(Chars) /\ Len(text) = len + 1
      /\ \A i \in 1 .. kk + 1 : text[i] = s[i]
      /\ \A i \in kk + 1 .. len : text[i + 1] = <<"digit", i>>
  <2>0. /\ text \in Seq(Chars) /\ Len(text) = Len(s) + Len(r)
        /\ \A i \in 1 .. Len(s) + Len(r) : text[i] = IF i <= Len(s) THEN s[i] ELSE r[i - Len(s)]
    BY <1>2, <1>3, Joined
  <2> HIDE DEF text
  <2>2. Len(s) = kk + 1 /\ Len(s) + Len(r) = len + 1
    BY <1>2, <1>3
  <2>1. /\ text \in Seq(Chars) /\ Len(text) = len + 1
        /\ \A i \in 1 .. len + 1 : text[i] = IF i <= kk + 1 THEN s[i] ELSE r[i - (kk + 1)]
    BY <2>0, <2>2
  <2>3. \A i \in kk + 1 .. len : /\ i + 1 \in 1 .. len + 1 /\ ~(i + 1 <= kk + 1)
                                 /\ i + 1 - (kk + 1) \in 1 .. len - kk /\ kk + (i + 1 - (kk + 1)) = i
    OBVIOUS
  <2>4. \A i \in 1 .. kk + 1 : i \in 1 .. len + 1 /\ i <= kk + 1
    OBVIOUS
  <2>5. \A i \in kk + 1 .. len : text[i + 1] = <<"digit", i>>
    <3> SUFFICES ASSUME NEW i \in kk + 1 .. len PROVE text[i + 1] = <<"digit", i>>
      OBVIOUS
    <3>1. text[i + 1] = r[i + 1 - (kk + 1)]
      BY <2>1, <2>3
    <3>2. r[i + 1 - (kk + 1)] = <<"digit", kk + (i + 1 - (kk + 1))>>
      BY <1>2, <2>3
    <3> QED BY <2>3, <3>1, <3>2
  <2> QED BY <2>1, <2>4, <2>5
<1> HIDE DEF text
<1>5. PointedText(text, len, kk)
  <2>1. kk + 1 \in 1 .. kk + 1 /\ \A i \in 1 .. kk : i \in 1 .. kk + 1
    OBVIOUS
  <2>2. text[kk + 1] = <<".", 0>> /\ \A i \in 1 .. kk : text[i] = <<"digit", i>>
    BY <1>3, <1>4, <2>1
  <2> QED BY <1>4, <2>2 DEF PointedText
<1> QED BY <1>5 DEF text, s, d, r

(* 1234e-6 -> 0.001234                                                      *)
FractionText(text, len, kk) ==
  /\ text \in Seq(Chars) /\ Len(text) = len + 2 - kk
  /\ text[1] = <<"0", 0>> /\ text[2] = <<".", 0>>
  /\ \A i \in 3 .. 2 - kk : text[i] = <<"0", 0>>
  /\ \A i \in 1 .. len : text[2 - kk + i] = <<"digit", i>>

LEMMA FractionIs ==
  ASSUME NEW len \in Nat \ {0}, NEW kk \in Int, kk <= 0
  PROVE  FractionText(Fraction(kk) \o Digits(1, len), len, kk)
<1> DEFINE d == Digits(1, len)
           o == Zeros(1)
           z == Zeros(-kk)
           s == o \o Point
           u == s \o z
           text == u \o d
<1>1. d \in Seq(Chars) /\ Len(d) = len /\ \A i \in 1 .. len : d[i] = <<"digit", i>>
  <2>1. 1 \in Nat \ {0} /\ len \in Nat /\ 1 <= len + 1 /\ len - 1 + 1 = len
    OBVIOUS
  <2>2. \A i \in 1 .. len : 1 + i - 1 = i
    OBVIOUS
  <2> HIDE DEF d
  <2>3. /\ d \in Seq(Chars) /\ Len(d) = len - 1 + 1
        /\ \A i \in 1 .. len - 1 + 1 : d[i] = <<"digit", 1 + i - 1>>
    BY <2>1, DigitsAre DEF d
  <2> QED BY <2>1, <2>2, <2>3
<1>2. -kk \in Nat /\ z \in Seq(Chars) /\ Len(z) = -kk /\ \A i \in 1 .. -kk : z[i] = <<"0", 0>>
  <2>1. -kk \in Nat
    OBVIOUS
  <2> QED BY <2>1, ZerosAre
<1>3. o \in Seq(Chars) /\ Len(o) = 1 /\ o[1] = <<"0", 0>>
  <2>1. 1 \in Nat /\ 1 \in 1 .. 1
    OBVIOUS
  <2> QED BY <2>1, ZerosAre
<1> HIDE DEF d, z, o
<1>4. s \in Seq(Chars) /\ Len(s) = 2 /\ s[1] = <<"0", 0>> /\ s[2] = <<".", 0>>
  <2>1. /\ s \in Seq(Chars) /\ Len(s) = 1 + 1
        /\ \A i \in 1 .. 1 + 1 : s[i] = IF i <= 1 THEN o[i] ELSE Point[i - 1]
    BY <1>3, PointIs, Joined
  <2> HIDE DEF s
  <2> QED BY <1>3, <2>1, PointIs
<1> HIDE DEF s
<1>5. /\ u \in Seq(Chars) /\ Len(u) = 2 - kk /\ u[1] = <<"0", 0>> /\ u[2] = <<".", 0>>
      /\ \A i \in 3 .. 2 - kk : u[i] = <<"0", 0>>
  <2>0. /\ u \in Seq(Chars) /\ Len(u) = Len(s) + Len(z)
        /\ \A i \in 1 .. Len(s) + Len(z) : u[i] = IF i <= Len(s) THEN s[i] ELSE z[i - Len(s)]
    BY <1>2, <1>4, Joined
  <2> HIDE DEF u
  <2>1. /\ u \in Seq(Chars) /\ Len(u) = 2 - kk
        /\ \A i \in 1 .. 2 - kk : u[i] = IF i <= 2 THEN s[i] ELSE z[i - 2]
    <3>1. Len(s) = 2 /\ Len(s) + Len(z) = 2 - kk
      BY <1>2, <1>4
    <3> QED BY <2>0, <3>1
  <2>2. 1 \in 1 .. 2 - kk /\ 2 \in 1 .. 2 - kk
    OBVIOUS
  <2>3. \A i \in 3 .. 2 - kk : i \in 1 .. 2 - kk /\ ~(i <= 2) /\ i - 2 \in 1 .. -kk
    OBVIOUS
  <2> QED BY <1>2, <1>4, <2>1, <2>2, <2>3
<1> HIDE DEF u
<1>6. /\ text \in Seq(Chars) /\ Len(text) = len + 2 - kk
      /\ \A i \in 1 .. 2 - kk : text[i] = u[i]
      /\ \A i \in 1 .. len : text[2 - kk + i] = <<"digit", i>>
  <2>0. /\ text \in Seq(Chars) /\ Len(text) = Len(u) + Len(d)
        /\ \A i \in 1 .. Len(u) + Len(d) : text[i] = IF i <= Len(u) THEN u[i] ELSE d[i - Len(u)]
    BY <1>1, <1>5, Joined
  <2> HIDE DEF text
  <2>1. /\ text \in Seq(Chars) /\ Len(text) = 2 - kk + len
        /\ \A i \in 1 .. 2 - kk + len : text[i] = IF i <= 2 - kk THEN u[i] ELSE d[i - (2 - kk)]
    <3>1. Len(u) = 2 - kk /\ Len(u) + Len(d) = 2 - kk + len
      BY <1>1, <1>5
    <3> QED BY <2>0, <3>1
  <2>2. \A i \in 1 .. len : /\ 2 - kk + i \in 1 .. 2 - kk + len /\ ~(2 - kk + i <= 2 - kk)
                            /\ 2 - kk + i - (2 - kk) = i
    OBVIOUS
  <2>3. \A i \in 1 .. 2 - kk : i \in 1 .. 2 - kk + len /\ i <= 2 - kk
    OBVIOUS
  <2>4. 2 - kk + len = len + 2 - kk
    OBVIOUS
  <2> QED BY <1>1, <2>1, <2>2, <2>3, <2>4
<1> HIDE DEF text
<1>7. FractionText(text, len, kk)
  <2>1. 1 \in 1 .. 2 - kk /\ 2 \in 1 .. 2 - kk /\ \A i \in 3 .. 2 - kk : i \in 1 .. 2 - kk
    OBVIOUS
  <2> QED BY <1>5, <1>6, <2>1 DEF FractionText
<1> QED BY <1>7 DEF text, u, s, d, z, o, Fraction

-----------------------------------------------------------------------------
(* WriteExponent: a sign and one to three decimal digits.                   *)

Sign(K) == IF K < 0 THEN <<<<"-", 0>>>> ELSE <<>>

Numerals(a) ==
  CASE a >= 100 -> <<Decimal(a \div 100), Decimal((a % 100) \div 10), Decimal(a % 10)>>
    [] a >= 10 /\ a < 100 -> <<Decimal(a \div 10), Decimal(a % 10)>>
    [] a < 10 -> <<Decimal(a)>>

(* f reads a text whose last characters are numerals.                       *)
LEMMA NumeralsRead ==
  ASSUME NEW a \in 0 .. 999
  PROVE  /\ Numerals(a) \in Seq(Chars) /\ Len(Numerals(a)) \in 1 .. 3
         /\ \A i \in 1 .. Len(Numerals(a)) : Numerals(a)[i][1] = "n"
         /\ \A m \in Nat : \A f : 
              f[m] = 0 /\ (\A i \in 1 .. Len(Numerals(a)) : f[m + i] = 10 * f[m + i - 1] + Numerals(a)[i][2])
                => f[m + Len(Numerals(a))] = a
<1> DEFINE q == Numerals(a)
<1>1. CASE a >= 100
  <2> DEFINE x == a \div 100
             y == (a % 100) \div 10
             z == a % 10
  <2>1. x \in Nat /\ y \in Nat /\ z \in Nat /\ 10 * (10 * x + y) + z = a
    BY <1>1
  <2>2. q = <<Decimal(x), Decimal(y), Decimal(z)>>
    BY <1>1 DEF Numerals
  <2> HIDE DEF x, y, z, q
  <2>3. q \in Seq(Chars) /\ Len(q) = 3 /\ q[1] = <<"n", x>> /\ q[2] = <<"n", y>> /\ q[3] = <<"n", z>>
    BY <2>1, <2>2 DEF Decimal, Chars
  <2>4. ASSUME NEW m \in Nat, NEW f, f[m] = 0,
               \A i \in 1 .. 3 : f[m + i] = 10 * f[m + i - 1] + q[i][2]
        PROVE  f[m + 3] = a
    <3>1. f[m + 1] = 10 * f[m + 1 - 1] + x /\ f[m + 2] = 10 * f[m + 2 - 1] + y
          /\ f[m + 3] = 10 * f[m + 3 - 1] + z
      BY <2>3, <2>4
    <3>2. m + 1 - 1 = m /\ m + 2 - 1 = m + 1 /\ m + 3 - 1 = m + 2
      OBVIOUS
    <3>3. f[m + 1] = x
      BY <2>1, <2>4, <3>1, <3>2
    <3>4. f[m + 2] = 10 * x + y
      BY <3>1, <3>2, <3>3
    <3> QED BY <2>1, <3>1, <3>2, <3>4
  <2>5. \A i \in 1 .. 3 : q[i][1] = "n"
    BY <2>3
  <2> QED BY <2>3, <2>4, <2>5 DEF q
<1>2. CASE a >= 10 /\ a < 100
  <2> DEFINE x == a \div 10
             z == a % 10
  <2>1. x \in Nat /\ z \in Nat /\ 10 * x + z = a
    BY <1>2
  <2>2. q = <<Decimal(x), Decimal(z)>>
    BY <1>2 DEF Numerals
  <2> HIDE DEF x, z, q
  <2>3. q \in Seq(Chars) /\ Len(q) = 2 /\ q[1] = <<"n", x>> /\ q[2] = <<"n", z>>
    BY <2>1, <2>2 DEF Decimal, Chars
  <2>4. ASSUME NEW m \in Nat, NEW f, f[m] = 0,
               \A i \in 1 .. 2 : f[m + i] = 10 * f[m + i - 1] + q[i][2]
        PROVE  f[m + 2] = a
    <3>1. f[m + 1] = 10 * f[m + 1 - 1] + x /\ f[m + 2] = 10 * f[m + 2 - 1] + z
      BY <2>3, <2>4
    <3>2. m + 1 - 1 = m /\ m + 2 - 1 = m + 1
      OBVIOUS
    <3>3. f[m + 1] = x
      BY <2>1, <2>4, <3>1, <3>2
    <3> QED BY <2>1, <3>1, <3>2, <3>3
  <2>5. \A i \in 1 .. 2 : q[i][1] = "n"
    BY <2>3
  <2> QED BY <2>3, <2>4, <2>5 DEF q
<1>3. CASE a < 10
  <2>2. q = <<Decimal(a)>>
    BY <1>3 DEF Numerals
  <2> HIDE DEF q
  <2>3. q \in Seq(Chars) /\ Len(q) = 1 /\ q[1] = <<"n", a>>
    BY <2>2 DEF Decimal, Chars
  <2>4. ASSUME NEW m \in Nat, NEW f, f[m] = 0,
               \A i \in 1 .. 1 : f[m + i] = 10 * f[m + i - 1] + q[i][2]
        PROVE  f[m + 1] = a
    <3>1. f[m + 1] = 10 * f[m + 1 - 1] + a /\ m + 1 - 1 = m
      BY <2>3, <2>4
    <3> QED BY <2>4, <3>1
  <2>5. \A i \in 1 .. 1 : q[i][1] = "n"
    BY <2>3
  <2> QED BY <2>3, <2>4, <2>5 DEF q
<1> QED BY <1>1, <1>2, <1>3

LEMMA SignIs ==
  ASSUME NEW K \in Int
  PROVE  /\ Sign(K) \in Seq(Chars) /\ Len(Sign(K)) \in 0 .. 1
         /\ \A i \in 1 .. Len(Sign(K)) : Sign(K)[i] = <<"-", 0>>
         /\ K < 0 <=> Len(Sign(K)) = 1
<1>1. CASE K < 0
  <2>1. Sign(K) = <<<<"-", 0>>>>
    BY <1>1 DEF Sign
  <2> QED BY <1>1, <2>1 DEF Chars
<1>2. CASE ~(K < 0)
  <2>1. Sign(K) = <<>>
    BY <1>2 DEF Sign
  <2> QED BY <1>2, <2>1
<1> QED BY <1>1, <1>2

(* An exponent after a text without one is the number a reader finds.       *)
LEMMA ExponentRead ==
  ASSUME NEW K \in -999 .. 999, NEW h \in Seq(Chars),
         \A i \in 1 .. Len(h) : h[i][1] \notin {"n", "-"}
  PROVE  LET text == h \o WriteExponent(K) IN
         /\ text \in Seq(Chars) /\ Len(text) \in Len(h) + 1 .. Len(h) + 4
         /\ \A i \in 1 .. Len(h) : text[i] = h[i]
         /\ Exponent(text) = K
<1> DEFINE a == IF K < 0 THEN -K ELSE K
           q == Numerals(a)
           s == Sign(K)
           w == s \o q
           text == h \o w
           m == Len(h) + Len(s)
<1>1. w = WriteExponent(K) /\ a \in 0 .. 999
  BY DEF WriteExponent, Sign, Numerals
<1>2. /\ q \in Seq(Chars) /\ Len(q) \in 1 .. 3
      /\ \A i \in 1 .. Len(q) : q[i][1] = "n"
      /\ \A n \in Nat : \A f : 
           f[n] = 0 /\ (\A i \in 1 .. Len(q) : f[n + i] = 10 * f[n + i - 1] + q[i][2])
             => f[n + Len(q)] = a
  <2> HIDE DEF a
  <2> QED BY <1>1, NumeralsRead
<1>3. /\ s \in Seq(Chars) /\ Len(s) \in 0 .. 1
      /\ \A i \in 1 .. Len(s) : s[i] = <<"-", 0>>
      /\ K < 0 <=> Len(s) = 1
  BY SignIs
<1>4. Exponent(text) = IF Positions(text, "-") = {} THEN Magnitude(text) ELSE -Magnitude(text)
  BY DEF Exponent
<1> HIDE DEF q, s
<1>5. /\ w \in Seq(Chars) /\ Len(w) = Len(s) + Len(q)
      /\ \A i \in 1 .. Len(s) + Len(q) : w[i] = IF i <= Len(s) THEN s[i] ELSE q[i - Len(s)]
  BY <1>2, <1>3, Joined
<1> HIDE DEF w
<1>6. /\ text \in Seq(Chars) /\ Len(text) = Len(h) + Len(w)
      /\ \A i \in 1 .. Len(h) + Len(w) : text[i] = IF i <= Len(h) THEN h[i] ELSE w[i - Len(h)]
      /\ Len(h) \in Nat
  BY <1>5, Joined
<1> HIDE DEF text
<1>7. \A i \in 1 .. Len(h) : text[i] = h[i]
  BY <1>2, <1>3, <1>5, <1>6
<1>8. ASSUME NEW i \in 1 .. Len(s) PROVE text[Len(h) + i] = <<"-", 0>>
  <2>1. Len(h) + i \in 1 .. Len(h) + Len(w) /\ ~(Len(h) + i <= Len(h)) /\ Len(h) + i - Len(h) = i
        /\ i \in 1 .. Len(s) + Len(q) /\ i <= Len(s)
    BY <1>2, <1>3, <1>5, <1>6
  <2>2. text[Len(h) + i] = w[i]
    BY <1>6, <2>1
  <2> QED BY <1>3, <1>5, <2>1, <2>2
<1>9. ASSUME NEW i \in 1 .. Len(q) PROVE text[m + i] = q[i] /\ m + i \in 1 .. Len(text)
  <2> DEFINE j == Len(s) + i
  <2>1. m + i \in 1 .. Len(h) + Len(w) /\ ~(m + i <= Len(h)) /\ m + i - Len(h) = j
        /\ j \in 1 .. Len(s) + Len(q) /\ ~(j <= Len(s)) /\ j - Len(s) = i
    BY <1>2, <1>3, <1>5, <1>6
  <2> HIDE DEF j
  <2>2. text[m + i] = w[j]
    <3> DEFINE p == m + i
    <3>1. p \in 1 .. Len(h) + Len(w) /\ ~(p <= Len(h)) /\ p - Len(h) = j
      BY <2>1
    <3> HIDE DEF p
    <3>2. text[p] = w[j]
      BY <1>6, <3>1
    <3> QED BY <3>2 DEF p
  <2> QED BY <1>5, <1>6, <2>1, <2>2
<1>10. m \in Nat /\ Len(text) = m + Len(q) /\ Len(text) \in Len(h) + 1 .. Len(h) + 4
       /\ m \in 0 .. Len(text)
  <2>1. Len(h) \in Nat /\ Len(s) \in 0 .. 1 /\ Len(q) \in 1 .. 3 /\ Len(text) = Len(h) + (Len(s) + Len(q))
    BY <1>2, <1>3, <1>5, <1>6
  <2> DEFINE x == Len(h)
             y == Len(s)
             z == Len(q)
  <2>2. x \in Nat /\ y \in 0 .. 1 /\ z \in 1 .. 3 /\ Len(text) = x + (y + z)
    BY <2>1
  <2> HIDE DEF x, y, z
  <2>3. x + y \in Nat /\ Len(text) = x + y + z /\ Len(text) \in x + 1 .. x + 4 /\ x + y \in 0 .. Len(text)
    BY <2>2
  <2> QED BY <2>3 DEF x, y, z
<1>11. \A i \in 1 .. m : text[i][1] # "n"
  <2> SUFFICES ASSUME NEW i \in 1 .. m PROVE text[i][1] # "n"
    OBVIOUS
  <2>1. CASE i <= Len(h)
    <3>1. i \in 1 .. Len(h)
      BY <1>6, <1>10, <2>1
    <3> QED BY <1>7, <3>1
  <2>2. CASE i > Len(h)
    <3> DEFINE k == i - Len(h)
    <3>1. k \in 1 .. Len(s) /\ Len(h) + k = i
      BY <1>3, <1>6, <2>2
    <3> HIDE DEF k
    <3> QED BY <1>8, <3>1
  <2> QED BY <1>6, <1>10, <2>1, <2>2
<1>12. Magnitude(text) = a
  <2>1. PICK f \in [0 .. Len(text) -> Nat] :
           /\ Magnitude(text) = f[Len(text)] /\ f[0] = 0
           /\ \A i \in 1 .. Len(text) :
                f[i] = IF text[i][1] = "n" THEN 10 * f[i - 1] + text[i][2] ELSE f[i - 1]
    BY <1>6, MagnitudeSums
  <2>2. f[m] = 0
    <3>1. \A i \in 1 .. m : i \in 1 .. Len(text)
      BY <1>2, <1>10
    <3>2. \A i \in 1 .. m : f[i] = f[i - 1]
      BY <1>11, <2>1, <3>1
    <3> HIDE DEF m
    <3>3. Len(text) \in Nat
      BY <1>6, LenProperties
    <3> QED BY <1>10, <2>1, <3>2, <3>3, NothingBefore
  <2>3. ASSUME NEW i \in 1 .. Len(q) PROVE f[m + i] = 10 * f[m + i - 1] + q[i][2]
    <3> DEFINE j == m + i
    <3>1. j \in 1 .. Len(text) /\ text[j] = q[i] /\ q[i][1] = "n"
      BY <1>2, <1>9
    <3> HIDE DEF j
    <3>2. f[j] = 10 * f[j - 1] + text[j][2]
      BY <2>1, <3>1
    <3> QED BY <3>1, <3>2 DEF j
  <2>4. f[m + Len(q)] = a
    <3> HIDE DEF m, a
    <3> QED BY <1>2, <1>10, <2>2, <2>3
  <2> QED BY <1>10, <2>1, <2>4
<1>13. Positions(text, "-") = {} <=> ~(K < 0)
  <2>1. DOMAIN text = 1 .. Len(text)
    BY <1>6, LenProperties
  <2>2. CASE K < 0
    <3>1. 1 \in 1 .. Len(s)
      BY <1>3, <2>2
    <3>2. text[Len(h) + 1] = <<"-", 0>> /\ Len(h) + 1 \in 1 .. Len(text)
      BY <1>6, <1>8, <1>10, <3>1
    <3> QED BY <2>1, <2>2, <3>2 DEF Positions
  <2>3. CASE ~(K < 0)
    <3>1. Len(s) = 0
      BY <1>3, <2>3
    <3>2. \A i \in 1 .. Len(text) : text[i][1] # "-"
      <4> SUFFICES ASSUME NEW i \in 1 .. Len(text) PROVE text[i][1] # "-"
        OBVIOUS
      <4>1. CASE i <= Len(h)
        <5>1. i \in 1 .. Len(h)
          BY <1>6, <1>10, <4>1
        <5> QED BY <1>7, <5>1
      <4>2. CASE i > Len(h)
        <5> DEFINE j == i - m
        <5>1. j \in 1 .. Len(q) /\ m + j = i
          BY <1>6, <1>10, <3>1, <4>2
        <5> HIDE DEF j, m
        <5> QED BY <1>2, <1>9, <5>1
      <4> QED BY <1>6, <1>10, <4>1, <4>2
    <3> QED BY <2>1, <2>3, <3>2 DEF Positions
  <2> QED BY <2>2, <2>3
<1>14. Exponent(text) = K
  <2>1. CASE K < 0
    BY <1>4, <1>12, <1>13, <2>1
  <2>2. CASE ~(K < 0)
    BY <1>4, <1>12, <1>13, <2>2
  <2> QED BY <2>1, <2>2
<1> QED BY <1>1, <1>6, <1>7, <1>10, <1>14 DEF text

(* 1234e30 -> 1.234e33 and 1e30: what stands before the exponent.           *)
BeforeExponent(len) == Digits(1, 1) \o (IF len = 1 THEN <<>> ELSE Point \o Digits(2, len)) \o <<<<"e", 0>>>>

HeadText(h, len) ==
  /\ h \in Seq(Chars) /\ Len(h) \in 2 .. len + 2
  /\ h[1] = <<"digit", 1>> /\ h[2][1] \in {".", "e"}
  /\ \A i \in 2 .. len : i + 1 \in 1 .. Len(h) /\ h[i + 1] = <<"digit", i>>
  /\ \A i \in 1 .. Len(h) : h[i][1] \notin {"n", "-"}

LEMMA HeadIs ==
  ASSUME NEW len \in Nat \ {0}
  PROVE  HeadText(BeforeExponent(len), len)
<1> DEFINE d == Digits(1, 1)
           r == Digits(2, len)
           e == <<<<"e", 0>>>>
           p == Point \o r
           mid == IF len = 1 THEN <<>> ELSE p
           s == d \o mid
           h == s \o e
<1>1. d \in Seq(Chars) /\ Len(d) = 1 /\ d[1] = <<"digit", 1>>
  <2>1. 1 \in Nat \ {0} /\ 1 <= 1 + 1 /\ 1 - 1 + 1 = 1 /\ 1 + 1 - 1 = 1 /\ 1 \in 1 .. 1
    OBVIOUS
  <2>2. /\ d \in Seq(Chars) /\ Len(d) = 1 - 1 + 1
        /\ \A i \in 1 .. 1 - 1 + 1 : d[i] = <<"digit", 1 + i - 1>>
    BY <2>1, DigitsAre
  <2> HIDE DEF d
  <2> QED BY <2>1, <2>2
<1>2. r \in Seq(Chars) /\ Len(r) = len - 1 /\ \A i \in 1 .. len - 1 : r[i] = <<"digit", i + 1>>
  <2>1. 2 \in Nat \ {0} /\ 2 <= len + 1 /\ len - 2 + 1 = len - 1 /\ \A i \in 1 .. len - 1 : 2 + i - 1 = i + 1
    OBVIOUS
  <2>2. /\ r \in Seq(Chars) /\ Len(r) = len - 2 + 1
        /\ \A i \in 1 .. len - 2 + 1 : r[i] = <<"digit", 2 + i - 1>>
    BY <2>1, DigitsAre
  <2> HIDE DEF r
  <2> QED BY <2>1, <2>2
<1>3. e \in Seq(Chars) /\ Len(e) = 1 /\ e[1] = <<"e", 0>>
  BY DEF Chars
<1> HIDE DEF d, r, e
<1>4. /\ p \in Seq(Chars) /\ Len(p) = len /\ p[1] = <<".", 0>>
      /\ \A i \in 2 .. len : p[i] = <<"digit", i>>
  <2>1. /\ p \in Seq(Chars) /\ Len(p) = 1 + Len(r) /\ p[1] = Point[1]
        /\ \A i \in 1 .. Len(r) : p[i + 1] = r[i]
    BY <1>2, PointIs, PutFirst
  <2> HIDE DEF p
  <2>2. Len(p) = len
    BY <1>2, <2>1
  <2>3. ASSUME NEW i \in 2 .. len PROVE p[i] = <<"digit", i>>
    <3> DEFINE j == i - 1
    <3>1. j \in 1 .. len - 1 /\ j + 1 = i
      OBVIOUS
    <3> HIDE DEF j
    <3>2. p[j + 1] = r[j] /\ r[j] = <<"digit", j + 1>>
      BY <1>2, <2>1, <3>1
    <3> QED BY <3>1, <3>2
  <2> QED BY <2>1, <2>2, <2>3, PointIs
<1>5. /\ mid \in Seq(Chars) /\ Len(mid) = IF len = 1 THEN 0 ELSE len
      /\ len # 1 => mid = p
  <2> HIDE DEF p
  <2>1. CASE len = 1
    BY <2>1
  <2>2. CASE len # 1
    BY <1>4, <2>2
  <2> QED BY <2>1, <2>2
<1> HIDE DEF mid, p
<1>6. /\ s \in Seq(Chars) /\ Len(s) = 1 + Len(mid) /\ s[1] = <<"digit", 1>>
      /\ \A i \in 1 .. Len(mid) : s[i + 1] = mid[i]
      /\ Len(mid) \in Nat
  BY <1>1, <1>5, PutFirst
<1> HIDE DEF s
<1>7. /\ h \in Seq(Chars) /\ Len(h) = Len(s) + 1 /\ h[Len(s) + 1] = <<"e", 0>>
      /\ \A i \in 1 .. Len(s) : h[i] = s[i]
  BY <1>3, <1>6, PutLast
<1> HIDE DEF h
<1>8. ASSUME len = 1 PROVE HeadText(h, len)
  <2>1. Len(mid) = 0
    BY <1>5, <1>8
  <2>2. Len(s) = 1 /\ Len(h) = 2
    BY <1>6, <1>7, <2>1
  <2>3. h[1] = <<"digit", 1>> /\ h[2] = <<"e", 0>>
    BY <1>6, <1>7, <2>2
  <2>4. \A i \in 1 .. 2 : h[i][1] \notin {"n", "-"}
    BY <2>3
  <2> QED BY <1>7, <1>8, <2>2, <2>3, <2>4 DEF HeadText
<1>9. ASSUME len # 1 PROVE HeadText(h, len)
  <2>1. Len(mid) = len /\ mid = p
    BY <1>5, <1>9
  <2>2. Len(s) = len + 1 /\ Len(h) = len + 2
    BY <1>6, <1>7, <2>1
  <2>3. h[1] = <<"digit", 1>> /\ h[len + 2] = <<"e", 0>>
    <3>1. 1 \in 1 .. len + 1 /\ len + 1 + 1 = len + 2
      OBVIOUS
    <3> QED BY <1>6, <1>7, <2>2, <3>1
  <2>4. ASSUME NEW i \in 1 .. len PROVE h[i + 1] = p[i]
    <3>1. i + 1 \in 1 .. len + 1
      OBVIOUS
    <3> QED BY <1>6, <1>7, <2>1, <2>2, <3>1
  <2>5. h[2] = <<".", 0>>
    <3>1. 1 \in 1 .. len /\ 1 + 1 = 2
      OBVIOUS
    <3> QED BY <1>4, <2>4, <3>1
  <2>6. \A i \in 2 .. len : h[i + 1] = <<"digit", i>>
    <3>1. \A i \in 2 .. len : i \in 1 .. len
      OBVIOUS
    <3> QED BY <1>4, <2>4, <3>1
  <2>7. ASSUME NEW i \in 1 .. len + 2 PROVE h[i][1] \notin {"n", "-"}
    <3>1. CASE i = 1
      BY <2>3, <3>1
    <3>2. CASE i = 2
      BY <2>5, <3>2
    <3>3. CASE i = len + 2
      BY <2>3, <3>3
    <3>4. CASE i \notin {1, 2, len + 2}
      <4> DEFINE j == i - 1
      <4>1. j \in 2 .. len /\ j + 1 = i
        BY <3>4
      <4> HIDE DEF j
      <4>2. h[i] = <<"digit", j>>
        BY <2>6, <4>1
      <4> QED BY <4>2
    <3> QED BY <3>1, <3>2, <3>3, <3>4
  <2>8. Len(h) \in 2 .. len + 2 /\ \A i \in 2 .. len : i + 1 \in 1 .. Len(h)
    BY <2>2
  <2>9. \A i \in 1 .. Len(h) : h[i][1] \notin {"n", "-"}
    BY <2>2, <2>7
  <2>10. h[2][1] \in {".", "e"}
    BY <2>5
  <2> QED BY <1>7, <2>3, <2>6, <2>8, <2>9, <2>10 DEF HeadText
<1>10. HeadText(h, len)
  BY <1>8, <1>9
<1> QED BY <1>10 DEF h, s, mid, p, d, r, e, BeforeExponent

-----------------------------------------------------------------------------
(* Each way Prettify writes a number keeps its digits at their weights.     *)

ReadsBack(text, len, k) ==
  /\ \A d \in 1 .. len :
       \E i \in Positions(text, "digit") :
         text[i][2] = d /\ Weight(text, i) = k + len - d
  /\ Positions(text, ".") \cup Positions(text, "e") # {}
  /\ Len(text) + 2 <= 128

LEMMA DigitAt ==
  ASSUME NEW text \in Seq(Chars), NEW i \in 1 .. Len(text), NEW d, text[i] = <<"digit", d>>
  PROVE  i \in Positions(text, "digit") /\ text[i][2] = d
BY LenProperties DEF Positions

LEMMA WholeReads ==
  ASSUME NEW text, NEW len \in Nat \ {0}, NEW kk \in Nat, len <= kk, kk <= 21, WholeText(text, len, kk)
  PROVE  ReadsBack(text, len, kk - len)
<1>0. text \in Seq(Chars) /\ Len(text) = kk + 2
  BY DEF WholeText
<1>1. ASSUME NEW i \in 1 .. Len(text)
      PROVE  /\ text[i][1] \notin {"n", "-"}
             /\ i < kk + 1 => text[i][1] \notin {".", "e"}
  <2>1. CASE i <= len
    <3>1. text[i] = <<"digit", i>>
      BY <2>1 DEF WholeText
    <3> QED BY <3>1
  <2>2. CASE i > len /\ i <= kk
    <3>1. text[i] = <<"0", 0>>
      BY <2>2 DEF WholeText
    <3> QED BY <3>1
  <2>3. CASE i = kk + 1
    <3>1. text[i] = <<".", 0>>
      BY <2>3 DEF WholeText
    <3> QED BY <2>3, <3>1
  <2>4. CASE i = kk + 2
    <3>1. text[i] = <<"0", 0>>
      BY <2>4 DEF WholeText
    <3> QED BY <2>4, <3>1
  <2> QED BY <1>0, <2>1, <2>2, <2>3, <2>4
<1>2. Exponent(text) = 0
  BY <1>0, <1>1, NoExponent
<1>3. PointAt(text) = kk + 1 /\ Positions(text, ".") \cup Positions(text, "e") # {}
  <2> DEFINE p == kk + 1
  <2>1. p \in 1 .. Len(text) /\ text[p][1] = "." /\ \A i \in 1 .. Len(text) : i < p => text[i][1] \notin {".", "e"}
    BY <1>0, <1>1 DEF WholeText
  <2> HIDE DEF p
  <2>2. PointAt(text) = p /\ Positions(text, ".") \cup Positions(text, "e") # {}
    BY <1>0, <2>1, PointIsAt
  <2> QED BY <2>2 DEF p
<1>4. ASSUME NEW d \in 1 .. len
      PROVE  \E i \in Positions(text, "digit") :
               text[i][2] = d /\ Weight(text, i) = kk - len + len - d
  <2>1. d \in 1 .. Len(text) /\ text[d] = <<"digit", d>> /\ d < kk + 1
    BY <1>0 DEF WholeText
  <2>2. d \in Positions(text, "digit") /\ text[d][2] = d
    BY <1>0, <2>1, DigitAt
  <2>3. Weight(text, d) = kk + 1 - 1 - d + 0
    BY <1>2, <1>3, <2>1 DEF Weight
  <2>4. kk + 1 - 1 - d + 0 = kk - len + len - d
    OBVIOUS
  <2> QED BY <2>2, <2>3, <2>4
<1> QED BY <1>0, <1>3, <1>4 DEF ReadsBack

LEMMA PointedReads ==
  ASSUME NEW text, NEW len \in Nat \ {0}, NEW kk \in Nat \ {0}, len > kk, len <= 119, PointedText(text, len, kk)
  PROVE  ReadsBack(text, len, kk - len)
<1>0. text \in Seq(Chars) /\ Len(text) = len + 1
  BY DEF PointedText
<1>1. ASSUME NEW i \in 1 .. Len(text)
      PROVE  /\ text[i][1] \notin {"n", "-"}
             /\ i < kk + 1 => text[i][1] \notin {".", "e"}
  <2>1. CASE i <= kk
    <3>1. text[i] = <<"digit", i>>
      BY <2>1 DEF PointedText
    <3> QED BY <3>1
  <2>2. CASE i > kk + 1
    <3> DEFINE j == i - 1
    <3>1. j \in kk + 1 .. len /\ j + 1 = i
      BY <1>0, <2>2
    <3> HIDE DEF j
    <3>2. text[i] = <<"digit", j>>
      BY <3>1 DEF PointedText
    <3> QED BY <3>2
  <2>3. CASE i = kk + 1
    <3>1. text[i] = <<".", 0>>
      BY <2>3 DEF PointedText
    <3> QED BY <2>3, <3>1
  <2> QED BY <1>0, <2>1, <2>2, <2>3
<1>2. Exponent(text) = 0
  BY <1>0, <1>1, NoExponent
<1>3. PointAt(text) = kk + 1 /\ Positions(text, ".") \cup Positions(text, "e") # {}
  <2> DEFINE p == kk + 1
  <2>1. p \in 1 .. Len(text) /\ text[p][1] = "." /\ \A i \in 1 .. Len(text) : i < p => text[i][1] \notin {".", "e"}
    BY <1>0, <1>1 DEF PointedText
  <2> HIDE DEF p
  <2>2. PointAt(text) = p /\ Positions(text, ".") \cup Positions(text, "e") # {}
    BY <1>0, <2>1, PointIsAt
  <2> QED BY <2>2 DEF p
<1>4. ASSUME NEW d \in 1 .. len
      PROVE  \E i \in Positions(text, "digit") :
               text[i][2] = d /\ Weight(text, i) = kk - len + len - d
  <2>1. CASE d <= kk
    <3>0. d \in 1 .. kk /\ d \in 1 .. len + 1 /\ d < kk + 1
      BY <2>1
    <3>1. d \in 1 .. Len(text) /\ text[d] = <<"digit", d>> /\ d < kk + 1
      BY <1>0, <3>0 DEF PointedText
    <3>2. d \in Positions(text, "digit") /\ text[d][2] = d
      BY <1>0, <3>1, DigitAt
    <3>3. Weight(text, d) = kk + 1 - 1 - d + 0
      BY <1>2, <1>3, <3>1 DEF Weight
    <3>4. kk + 1 - 1 - d + 0 = kk - len + len - d
      OBVIOUS
    <3> QED BY <3>2, <3>3, <3>4
  <2>2. CASE d > kk
    <3> DEFINE i == d + 1
    <3>1. i \in 1 .. Len(text) /\ text[i] = <<"digit", d>> /\ ~(i < kk + 1)
      BY <1>0, <2>2 DEF PointedText
    <3>2. kk + 1 - i + 0 = kk - len + len - d
      OBVIOUS
    <3> HIDE DEF i
    <3>3. i \in Positions(text, "digit") /\ text[i][2] = d
      BY <1>0, <3>1, DigitAt
    <3>4. Weight(text, i) = kk + 1 - i + 0
      BY <1>2, <1>3, <3>1 DEF Weight
    <3> QED BY <3>2, <3>3, <3>4
  <2> QED BY <2>1, <2>2
<1>5. Len(text) + 2 <= 128
  BY <1>0
<1> QED BY <1>3, <1>4, <1>5 DEF ReadsBack

LEMMA FractionReads ==
  ASSUME NEW text, NEW len \in Nat \ {0}, NEW kk \in Int, kk <= 0, -6 < kk, len <= 119,
         FractionText(text, len, kk)
  PROVE  ReadsBack(text, len, kk - len)
<1>0. text \in Seq(Chars) /\ Len(text) = len + 2 - kk
  BY DEF FractionText
<1>1. ASSUME NEW i \in 1 .. Len(text)
      PROVE  /\ text[i][1] \notin {"n", "-"}
             /\ i < 2 => text[i][1] \notin {".", "e"}
  <2>1. CASE i = 1
    <3>1. text[i] = <<"0", 0>>
      BY <2>1 DEF FractionText
    <3> QED BY <3>1
  <2>2. CASE i = 2
    <3>1. text[i] = <<".", 0>>
      BY <2>2 DEF FractionText
    <3> QED BY <2>2, <3>1
  <2>3. CASE i > 2 /\ i <= 2 - kk
    <3>1. text[i] = <<"0", 0>>
      BY <2>3 DEF FractionText
    <3> QED BY <3>1
  <2>4. CASE i > 2 - kk
    <3> DEFINE j == i - (2 - kk)
    <3>1. j \in 1 .. len /\ 2 - kk + j = i
      BY <1>0, <2>4
    <3> HIDE DEF j
    <3>2. text[i] = <<"digit", j>>
      BY <3>1 DEF FractionText
    <3> QED BY <2>4, <3>2
  <2> QED BY <1>0, <2>1, <2>2, <2>3, <2>4
<1>2. Exponent(text) = 0
  BY <1>0, <1>1, NoExponent
<1>3. PointAt(text) = 2 /\ Positions(text, ".") \cup Positions(text, "e") # {}
  <2>1. 2 \in 1 .. Len(text) /\ text[2][1] = "." /\ \A i \in 1 .. Len(text) : i < 2 => text[i][1] \notin {".", "e"}
    BY <1>0, <1>1 DEF FractionText
  <2> QED BY <1>0, <2>1, PointIsAt
<1>4. ASSUME NEW d \in 1 .. len
      PROVE  \E i \in Positions(text, "digit") :
               text[i][2] = d /\ Weight(text, i) = kk - len + len - d
  <2> DEFINE i == 2 - kk + d
  <2>0. i \in 1 .. len + 2 - kk /\ ~(i < 2)
    OBVIOUS
  <2>1. i \in 1 .. Len(text) /\ text[i] = <<"digit", d>> /\ ~(i < 2)
    <3>1. text[i] = <<"digit", d>>
      BY DEF FractionText
    <3> HIDE DEF i
    <3> QED BY <1>0, <2>0, <3>1
  <2>2. 2 - i + 0 = kk - len + len - d
    OBVIOUS
  <2> HIDE DEF i
  <2>3. i \in Positions(text, "digit") /\ text[i][2] = d
    BY <1>0, <2>1, DigitAt
  <2>4. Weight(text, i) = 2 - i + 0
    BY <1>2, <1>3, <2>1 DEF Weight
  <2> QED BY <2>2, <2>3, <2>4
<1>5. Len(text) + 2 <= 128
  BY <1>0
<1> QED BY <1>3, <1>4, <1>5 DEF ReadsBack

LEMMA ScientificReads ==
  ASSUME NEW len \in Nat \ {0}, NEW kk \in Int, kk - 1 \in -999 .. 999, len <= 119
  PROVE  ReadsBack(BeforeExponent(len) \o WriteExponent(kk - 1), len, kk - len)
<1> DEFINE h == BeforeExponent(len)
           K == kk - 1
           text == h \o WriteExponent(K)
<1>1. HeadText(h, len)
  BY HeadIs
<1> HIDE DEF h
<1>2. /\ h \in Seq(Chars) /\ Len(h) \in 2 .. len + 2
      /\ \A i \in 1 .. Len(h) : h[i][1] \notin {"n", "-"}
      /\ h[1] = <<"digit", 1>> /\ h[2][1] \in {".", "e"}
      /\ \A i \in 2 .. len : i + 1 \in 1 .. Len(h) /\ h[i + 1] = <<"digit", i>>
  BY <1>1 DEF HeadText
<1>3. /\ text \in Seq(Chars) /\ Len(text) \in Len(h) + 1 .. Len(h) + 4
      /\ \A i \in 1 .. Len(h) : text[i] = h[i]
      /\ Exponent(text) = K
  <2> HIDE DEF K
  <2>1. K \in -999 .. 999
    BY DEF K
  <2> QED BY <1>2, <2>1, ExponentRead
<1> HIDE DEF text
<1>4. 1 \in 1 .. Len(h) /\ 2 \in 1 .. Len(h) /\ \A i \in 1 .. Len(h) : i \in 1 .. Len(text)
  BY <1>2, <1>3
<1>5. PointAt(text) = 2 /\ Positions(text, ".") \cup Positions(text, "e") # {}
  <2>1. text[1] = <<"digit", 1>> /\ text[2][1] \in {".", "e"}
    BY <1>2, <1>3, <1>4
  <2>2. \A i \in 1 .. Len(text) : i < 2 => text[i][1] \notin {".", "e"}
    BY <1>3, <2>1
  <2> QED BY <1>3, <1>4, <2>1, <2>2, PointIsAt
<1>6. ASSUME NEW d \in 1 .. len
      PROVE  \E i \in Positions(text, "digit") :
               text[i][2] = d /\ Weight(text, i) = kk - len + len - d
  <2>1. CASE d = 1
    <3>1. 1 \in 1 .. Len(text) /\ text[1] = <<"digit", 1>>
      BY <1>2, <1>3, <1>4
    <3>2. 1 \in Positions(text, "digit") /\ text[1][2] = d
      BY <1>3, <2>1, <3>1, DigitAt
    <3>3. Weight(text, 1) = 2 - 1 - 1 + K
      BY <1>3, <1>5 DEF Weight
    <3>4. 2 - 1 - 1 + K = kk - len + len - d
      BY <2>1
    <3> QED BY <3>2, <3>3, <3>4
  <2>2. CASE d # 1
    <3> DEFINE i == d + 1
    <3>0. d \in 2 .. len
      BY <2>2
    <3>1. i \in 1 .. Len(h) /\ i \in 1 .. Len(text) /\ text[i] = <<"digit", d>> /\ ~(i < 2)
      <4>1. i \in 1 .. Len(h) /\ h[i] = <<"digit", d>>
        BY <1>2, <3>0
      <4>2. ~(i < 2)
        BY <3>0
      <4> HIDE DEF i
      <4> QED BY <1>3, <1>4, <4>1, <4>2
    <3>2. 2 - i + K = kk - len + len - d
      OBVIOUS
    <3> HIDE DEF i, K
    <3>3. i \in Positions(text, "digit") /\ text[i][2] = d
      BY <1>3, <3>1, DigitAt
    <3>4. Weight(text, i) = 2 - i + K
      BY <1>3, <1>5, <3>1 DEF Weight
    <3> QED BY <3>2, <3>3, <3>4
  <2> QED BY <2>1, <2>2
<1>7. Len(text) + 2 <= 128
  BY <1>2, <1>3
<1>8. ReadsBack(text, len, kk - len)
  BY <1>5, <1>6, <1>7 DEF ReadsBack
<1> QED BY <1>8 DEF text, h, K

LEMMA PrettifyReads ==
  ASSUME NEW len \in 1 .. 119, NEW k \in Int, len + k - 1 \in -999 .. 999
  PROVE  ReadsBack(Prettify(len, k), len, k)
<1> DEFINE kk == len + k
           text == Prettify(len, k)
<1>0. len \in Nat \ {0} /\ kk \in Int /\ kk - len = k /\ kk - 1 \in -999 .. 999 /\ len <= 119
  OBVIOUS
<1>1. CASE len <= kk /\ kk <= 21
  <2>1. text = Digits(1, len) \o Zeros(kk - len) \o Point \o Zeros(1)
    <3>1. (len <= len + k /\ len + k <= 21)
      BY <1>1
    <3>2. ~(len > len + k /\ 0 < len + k /\ len + k <= 21)
      BY <1>1
    <3>3. ~(-6 < len + k /\ len + k <= 0)
      BY <1>1
    <3>4. ~(len + k > 21 \/ len + k <= -6)
      BY <1>1
    <3> QED BY ONLY <3>1, <3>2, <3>3, <3>4, Zenon DEF Prettify, kk, text
  <2>2. kk \in Nat
    BY <1>1
  <2> HIDE DEF kk, text
  <2>3. WholeText(text, len, kk)
    BY <1>0, <1>1, <2>1, <2>2, WholeIs
  <2>4. ReadsBack(text, len, kk - len)
    BY <1>0, <1>1, <2>2, <2>3, WholeReads
  <2> QED BY <1>0, <2>4 DEF text
<1>2. CASE len > kk /\ 0 < kk /\ kk <= 21
  <2>1. text = Digits(1, kk) \o Point \o Digits(kk + 1, len)
    <3>1. ~(len <= len + k /\ len + k <= 21)
      BY <1>2
    <3>2. (len > len + k /\ 0 < len + k /\ len + k <= 21)
      BY <1>2
    <3>3. ~(-6 < len + k /\ len + k <= 0)
      BY <1>2
    <3>4. ~(len + k > 21 \/ len + k <= -6)
      BY <1>2
    <3> QED BY ONLY <3>1, <3>2, <3>3, <3>4, Zenon DEF Prettify, kk, text
  <2>2. kk \in Nat \ {0}
    BY <1>2
  <2> HIDE DEF kk, text
  <2>3. PointedText(text, len, kk)
    BY <1>0, <1>2, <2>1, <2>2, PointedIs
  <2>4. ReadsBack(text, len, kk - len)
    BY <1>0, <1>2, <2>2, <2>3, PointedReads
  <2> QED BY <1>0, <2>4 DEF text
<1>3. CASE -6 < kk /\ kk <= 0
  <2>1. text = Fraction(kk) \o Digits(1, len)
    <3>1. ~(len <= len + k /\ len + k <= 21)
      BY <1>3
    <3>2. ~(len > len + k /\ 0 < len + k /\ len + k <= 21)
      BY <1>3
    <3>3. (-6 < len + k /\ len + k <= 0)
      BY <1>3
    <3>4. ~(len + k > 21 \/ len + k <= -6)
      BY <1>3
    <3> QED BY ONLY <3>1, <3>2, <3>3, <3>4, Zenon DEF Prettify, kk, text
  <2> HIDE DEF kk, text
  <2>3. FractionText(text, len, kk)
    BY <1>0, <1>3, <2>1, FractionIs
  <2>4. ReadsBack(text, len, kk - len)
    BY <1>0, <1>3, <2>3, FractionReads
  <2> QED BY <1>0, <2>4 DEF text
<1>4. CASE kk > 21 \/ kk <= -6
  <2>1. text = BeforeExponent(len) \o WriteExponent(kk - 1)
    <3>1. ~(len <= len + k /\ len + k <= 21)
      BY <1>4
    <3>2. ~(len > len + k /\ 0 < len + k /\ len + k <= 21)
      BY <1>4
    <3>3. ~(-6 < len + k /\ len + k <= 0)
      BY <1>4
    <3>4. (len + k > 21 \/ len + k <= -6)
      BY <1>4
    <3> QED BY ONLY <3>1, <3>2, <3>3, <3>4, Zenon DEF Prettify, kk, text, BeforeExponent
  <2> HIDE DEF kk, text
  <2>2. ReadsBack(text, len, kk - len)
    BY <1>0, <2>1, ScientificReads
  <2> QED BY <1>0, <2>2 DEF text
<1> QED BY <1>0, <1>1, <1>2, <1>3, <1>4

-----------------------------------------------------------------------------
(* The numbers the specification goes through.                              *)
DecimalTypeOK ==
  /\ length \in 1 .. MaxDigits /\ power \in Int
  /\ length + power - 1 \in MinPower .. MaxPower

LEMMA DecimalTypeHolds == DecimalSpec => []DecimalTypeOK
<1> USE DecimalAssumption
<1>1. DecimalInit => DecimalTypeOK
  BY DEF DecimalInit, DecimalTypeOK
<1>2. DecimalTypeOK /\ [DecimalNext]_<<length, power>> => DecimalTypeOK'
  <2> SUFFICES ASSUME DecimalTypeOK, [DecimalNext]_<<length, power>> PROVE DecimalTypeOK'
    OBVIOUS
  <2>1. CASE LongerNumber
    BY <2>1 DEF LongerNumber, DecimalTypeOK
  <2>2. CASE LargerNumber
    BY <2>2 DEF LargerNumber, DecimalTypeOK
  <2>3. CASE SmallerNumber
    BY <2>3 DEF SmallerNumber, DecimalTypeOK
  <2>4. CASE UNCHANGED <<length, power>>
    BY <2>4 DEF DecimalTypeOK
  <2> QED BY <2>1, <2>2, <2>3, <2>4 DEF DecimalNext
<1> QED BY <1>1, <1>2, PTL DEF DecimalSpec

(* Prettify and WriteExponent write every number so that each digit has its *)
(* weight, as a floating-point number, within emitConst's buffer.           *)
THEOREM DecimalsMean == DecimalSpec => []DecimalReadsBack
<1>1. DecimalTypeOK => DecimalReadsBack
  <2> SUFFICES ASSUME DecimalTypeOK PROVE DecimalReadsBack
    OBVIOUS
  <2>1. length \in 1 .. 119 /\ power \in Int /\ length + power - 1 \in -999 .. 999
    BY DecimalAssumption DEF DecimalTypeOK
  <2>2. ReadsBack(Prettify(length, power), length, power)
    BY <2>1, PrettifyReads
  <2> QED BY <2>2 DEF ReadsBack, DecimalReadsBack
<1> QED BY <1>1, DecimalTypeHolds, PTL
=============================================================================
