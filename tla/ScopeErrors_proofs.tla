------------------------- MODULE ScopeErrors_proofs -------------------------
(***************************************************************************)
(* Proofs that every error of the emitter's scopes has its explanation in  *)
(* the source (ErrorsExplained), for any names, bounds and depth limit.    *)
(*                                                                         *)
(* EmitterScopes_proofs shows what holds of a source without any feature;  *)
(* here each kind of error needs an invariant of its own, which rests only *)
(* on the absence of the features that explain that kind.  The braces of   *)
(* the text are counted, since beyond the depth limit the emitter's lists  *)
(* no longer count them.                                                   *)
(***************************************************************************)
EXTENDS EmitterScopes_proofs, FiniteSetTheorems, WellFoundedInduction

-----------------------------------------------------------------------------
(* Look-up.                                                                *)

LEMMA Highest ==
  ASSUME NEW k \in Nat, NEW D \in SUBSET (1 .. k), D # {}
  PROVE  \E d \in D : \A e \in D : e <= d
<1> DEFINE T == {t \in 0 .. k : k - t \in D}
           R == OpToRel(<, Nat)
<1>1. T \subseteq Nat
  OBVIOUS
<1>2. \A d \in D : d \in 1 .. k /\ k - d \in 0 .. k /\ k - (k - d) = d
  OBVIOUS
<1>3. \A d \in D : k - d \in T
  BY <1>2
<1>4. T # {}
  BY <1>3
<1>5. IsWellFoundedOn(R, Nat)
  BY NatLessThanWellFounded
<1>6. \A a, b \in Nat : a < b => <<a, b>> \in R
  BY DEF OpToRel
<1>7. \A t \in T : t \in 0 .. k /\ k - t \in D
  OBVIOUS
<1> HIDE DEF T, R
<1>8. PICK x \in T : \A y \in T : ~(<<y, x>> \in R)
  BY <1>1, <1>4, <1>5, WFMin
<1>9. \A y \in T : ~(y < x)
  BY <1>1, <1>6, <1>8
<1>10. \A e \in D : e <= k - x
  <2>1. \A e \in D : ~(k - e < x)
    BY <1>3, <1>9
  <2>2. \A e \in 1 .. k : ~(k - e < x) => e <= k - x
    BY <1>7
  <2> QED BY <1>2, <2>1, <2>2
<1> QED BY <1>7, <1>10

\* A look-up finds what some scope binds, whenever one does.
LEMMA LookUpBinds ==
  ASSUME NEW stack, Len(stack) \in Nat, DOMAIN stack = 1 .. Len(stack), NEW n
  PROVE  /\ LookUp(stack, n) = Nowhere => \A i \in 1 .. Len(stack) : stack[i].vars[n] = Nowhere
         /\ LookUp(stack, n) # Nowhere => \E i \in 1 .. Len(stack) : stack[i].vars[n] = LookUp(stack, n)
<1> DEFINE D == {d \in DOMAIN stack : stack[d].vars[n] # Nowhere}
<1>1. BindingDepth(stack, n) = IF D = {} THEN 0 ELSE CHOOSE d \in D : \A e \in D : e <= d
  BY DEF BindingDepth
<1>2. CASE D = {}
  <2>1. LookUp(stack, n) = Nowhere
    BY <1>1, <1>2 DEF LookUp
  <2> QED BY <1>2, <2>1
<1>3. CASE D # {}
  <2>1. D \in SUBSET (1 .. Len(stack))
    OBVIOUS
  <2>2. \A d \in D : stack[d].vars[n] # Nowhere
    OBVIOUS
  <2> HIDE DEF D
  <2>3. \E d \in D : \A e \in D : e <= d
    BY <1>3, <2>1, Highest
  <2>4. BindingDepth(stack, n) \in D
    BY <1>1, <1>3, <2>3
  <2> DEFINE b == BindingDepth(stack, n)
  <2>5. b # 0 /\ b \in 1 .. Len(stack)
    <3>1. b \in 1 .. Len(stack)
      BY <2>1, <2>4
    <3> HIDE DEF b
    <3> QED BY <3>1
  <2>6. LookUp(stack, n) = stack[b].vars[n]
    BY <2>5 DEF LookUp
  <2> QED BY <2>2, <2>4, <2>5, <2>6
<1> QED BY <1>2, <1>3

-----------------------------------------------------------------------------
(* Counting braces.                                                        *)

\* The scope of the source that scope i of the text belongs to: the braces open
\* before it and one; a loop header's is that of the loop's body.
Braces(o, i) == {j \in 1 .. i - 1 : o[j].kind = "brace"}
Depth(o, i)  == 1 + Cardinality(Braces(o, i))

LEMMA BracesFinite ==
  ASSUME NEW o, NEW i \in Nat
  PROVE  IsFiniteSet(Braces(o, i)) /\ Cardinality(Braces(o, i)) \in Nat
<1>1. IsFiniteSet(1 .. i - 1)
  BY FS_Interval
<1>2. Braces(o, i) \subseteq 1 .. i - 1
  BY DEF Braces
<1>3. IsFiniteSet(Braces(o, i))
  BY <1>1, <1>2, FS_Subset
<1> QED BY <1>3, FS_CardinalityType

LEMMA DepthFirst == ASSUME NEW o PROVE Depth(o, 1) = 1
<1>1. Braces(o, 1) = {}
  BY DEF Braces
<1> QED BY <1>1, FS_EmptySet DEF Depth

LEMMA DepthType == ASSUME NEW o, NEW i \in Nat PROVE Depth(o, i) \in Nat \ {0}
BY BracesFinite DEF Depth

LEMMA DepthNext ==
  ASSUME NEW o, NEW i \in Nat \ {0}
  PROVE  Depth(o, i + 1) = IF o[i].kind = "brace" THEN Depth(o, i) + 1 ELSE Depth(o, i)
<1>1. i \notin Braces(o, i) /\ i \in Nat
  BY DEF Braces
<1>2. \A j : j \in 1 .. i + 1 - 1 <=> j \in 1 .. i - 1 \/ j = i
  OBVIOUS
<1>3. CASE o[i].kind = "brace"
  <2>1. Braces(o, i + 1) = Braces(o, i) \cup {i}
    BY <1>2, <1>3 DEF Braces
  <2>2. Cardinality(Braces(o, i) \cup {i}) = Cardinality(Braces(o, i)) + 1
    BY <1>1, BracesFinite, FS_AddElement
  <2> QED BY <1>1, <1>3, <2>1, <2>2, BracesFinite DEF Depth
<1>4. CASE o[i].kind # "brace"
  <2>1. Braces(o, i + 1) = Braces(o, i)
    BY <1>2, <1>4 DEF Braces
  <2> QED BY <1>4, <2>1 DEF Depth
<1> QED BY <1>3, <1>4

LEMMA DepthGrows ==
  ASSUME NEW o, NEW i \in Nat, NEW j \in Nat, i <= j
  PROVE  Depth(o, i) <= Depth(o, j)
<1>1. Braces(o, i) \subseteq Braces(o, j)
  BY DEF Braces
<1>2. Cardinality(Braces(o, i)) <= Cardinality(Braces(o, j))
  BY <1>1, BracesFinite, FS_Subset
<1> QED BY <1>2, BracesFinite DEF Depth

\* Only what is below a scope counts.
LEMMA DepthSame ==
  ASSUME NEW o, NEW b, NEW i \in Nat, \A j \in 1 .. i - 1 : b[j].kind = o[j].kind
  PROVE  Depth(b, i) = Depth(o, i)
<1>1. Braces(b, i) = Braces(o, i)
  BY DEF Braces
<1> QED BY <1>1 DEF Depth

-----------------------------------------------------------------------------
(* Braces of the text and scopes of the source, whatever the depth.        *)

\* A loop header follows a brace and is never the head of a do.
Loops(o, s) ==
  \A i \in 1 .. Len(o) : o[i].kind = "for" =>
    i > 1 /\ o[i - 1].kind = "brace" /\ ~s[Depth(o, i)].do

Nest(o, s) ==
  /\ o # <<>> /\ o[Len(o)].kind = "brace" /\ Depth(o, Len(o)) = Len(s)
  /\ Loops(o, s)

Shape(b, o) == Len(b) = Len(o) /\ \A i \in 1 .. Len(o) : b[i].kind = o[i].kind

LEMMA ShapeDepth ==
  ASSUME NEW o, Len(o) \in Nat, NEW b, Shape(b, o), NEW i \in 1 .. Len(o)
  PROVE  Depth(b, i) = Depth(o, i)
<1>1. i \in Nat /\ \A j \in 1 .. i - 1 : j \in 1 .. Len(o)
  OBVIOUS
<1>2. \A j \in 1 .. i - 1 : b[j].kind = o[j].kind
  BY <1>1 DEF Shape
<1> QED BY <1>1, <1>2, DepthSame

LEMMA NestFacts ==
  ASSUME NEW o \in Seq(OutType), NEW s, Nest(o, s)
  PROVE  /\ Len(o) \in Nat \ {0} /\ Len(s) \in Nat \ {0}
         /\ \A i \in 1 .. Len(o) : o[i] \in OutType /\ Depth(o, i) \in 1 .. Len(s)
<1>1. Len(o) \in Nat \ {0}
  BY EmptySeq DEF Nest
<1>2. Depth(o, Len(o)) = Len(s) /\ Len(s) \in Nat \ {0}
  BY <1>1, DepthType DEF Nest
<1>3. ASSUME NEW i \in 1 .. Len(o) PROVE o[i] \in OutType /\ Depth(o, i) \in 1 .. Len(s)
  <2>1. i \in Nat /\ i <= Len(o)
    BY <1>1
  <2>2. Depth(o, i) \in Nat \ {0} /\ Depth(o, i) <= Len(s)
    BY <1>1, <1>2, <2>1, DepthType, DepthGrows
  <2>3. o[i] \in OutType
    BY ElementOfSeq
  <2> QED BY <1>2, <2>2, <2>3
<1> QED BY <1>1, <1>2, <1>3

LEMMA ShapeVisit ==
  ASSUME NEW txt \in TextType, NEW v \in Var, NEW n \in Name, NEW r \in TextType,
         Leaves(txt, r) \/ Declares(txt, r, v, n)
  PROVE  Shape(r.out, txt.out)
<1>1. txt.out \in Seq(OutType)
  BY DEF TextType
<1>2. CASE Leaves(txt, r)
  BY <1>2 DEF Leaves, Shape
<1>3. CASE Declares(txt, r, v, n)
  <2>1. r.out = BindTop(txt.out, n, v)
    BY <1>3 DEF Declares
  <2> QED BY <1>1, <2>1, BindOut DEF Shape
<1> QED BY <1>2, <1>3

LEMMA LoopsSame ==
  ASSUME NEW o \in Seq(OutType), NEW b, Shape(b, o), NEW s, Loops(o, s), NEW t,
         \A i \in 1 .. Len(o) : t[Depth(o, i)].do = s[Depth(o, i)].do
  PROVE  Loops(b, t)
<1>1. Len(o) \in Nat /\ Len(b) = Len(o)
  BY LenProperties DEF Shape
<1> SUFFICES ASSUME NEW i \in 1 .. Len(o), b[i].kind = "for"
             PROVE  i > 1 /\ b[i - 1].kind = "brace" /\ ~t[Depth(b, i)].do
  BY <1>1 DEF Loops
<1>2. o[i].kind = "for" /\ Depth(b, i) = Depth(o, i)
  BY <1>1, ShapeDepth DEF Shape
<1>3. i > 1 /\ o[i - 1].kind = "brace" /\ ~s[Depth(o, i)].do
  BY <1>2 DEF Loops
<1>4. i - 1 \in 1 .. Len(o)
  BY <1>1, <1>3
<1> QED BY <1>2, <1>3, <1>4 DEF Shape

LEMMA NestSame ==
  ASSUME NEW o \in Seq(OutType), NEW b, Shape(b, o), NEW s, Nest(o, s),
         NEW t, Len(t) = Len(s), \A k \in 1 .. Len(s) : t[k].do = s[k].do
  PROVE  Nest(b, t)
<1>1. Len(o) \in Nat \ {0} /\ Len(o) \in 1 .. Len(o) /\ \A i \in 1 .. Len(o) : Depth(o, i) \in 1 .. Len(s)
  BY NestFacts
<1>2. Len(b) = Len(o) /\ b[Len(o)].kind = "brace" /\ b # <<>>
  <2>1. Len(b) = Len(o) /\ b[Len(o)].kind = "brace"
    BY <1>1 DEF Nest, Shape
  <2> QED BY <1>1, <2>1, EmptySeq
<1>3. Depth(b, Len(b)) = Len(t)
  BY <1>1, <1>2, ShapeDepth DEF Nest
<1>4. Loops(b, t)
  <2>1. \A i \in 1 .. Len(o) : t[Depth(o, i)].do = s[Depth(o, i)].do
    BY <1>1
  <2> QED BY <2>1, LoopsSame DEF Nest
<1> QED BY <1>2, <1>3, <1>4 DEF Nest

\* The depths of a text with one more scope.
LEMMA DepthAppends ==
  ASSUME NEW o \in Seq(OutType), o # <<>>, NEW e \in OutType
  PROVE  LET a == Append(o, e) IN
         /\ a \in Seq(OutType) /\ a # <<>> /\ Len(a) = Len(o) + 1 /\ a[Len(o) + 1] = e
         /\ \A i \in 1 .. Len(o) : a[i] = o[i] /\ Depth(a, i) = Depth(o, i)
         /\ Depth(a, Len(o) + 1) =
              IF o[Len(o)].kind = "brace" THEN Depth(o, Len(o)) + 1 ELSE Depth(o, Len(o))
<1> DEFINE a == Append(o, e)
<1>1. Len(o) \in Nat \ {0} /\ Len(o) \in 1 .. Len(o)
  BY EmptySeq
<1>2. a \in Seq(OutType) /\ a # <<>> /\ Len(a) = Len(o) + 1 /\ a[Len(o) + 1] = e
      /\ \A i \in 1 .. Len(o) : a[i] = o[i]
  BY AppendProperties
<1> HIDE DEF a
<1>3. ASSUME NEW i \in 1 .. Len(o) PROVE Depth(a, i) = Depth(o, i)
  <2>1. i \in Nat /\ \A j \in 1 .. i - 1 : j \in 1 .. Len(o)
    OBVIOUS
  <2> QED BY <1>2, <2>1, DepthSame
<1>4. Depth(a, Len(o) + 1) = IF a[Len(o)].kind = "brace" THEN Depth(a, Len(o)) + 1 ELSE Depth(a, Len(o))
  BY <1>1, DepthNext
<1>5. a[Len(o)] = o[Len(o)] /\ Depth(a, Len(o)) = Depth(o, Len(o))
  BY <1>1, <1>2, <1>3
<1>6. Depth(a, Len(o) + 1) = IF o[Len(o)].kind = "brace" THEN Depth(o, Len(o)) + 1 ELSE Depth(o, Len(o))
  BY <1>4, <1>5
<1> QED BY <1>2, <1>3, <1>6 DEF a

LEMMA LoopsAppends ==
  ASSUME NEW o \in Seq(OutType), o # <<>>, NEW s, Loops(o, s), NEW e \in OutType, NEW t,
         \A i \in 1 .. Len(o) : t[Depth(o, i)].do = s[Depth(o, i)].do,
         e.kind = "for" => o[Len(o)].kind = "brace" /\ ~t[Depth(o, Len(o)) + 1].do
  PROVE  Loops(Append(o, e), t)
<1> DEFINE a == Append(o, e)
<1>1. Len(o) \in Nat \ {0} /\ Len(o) \in 1 .. Len(o)
  BY EmptySeq
<1>2. /\ Len(a) = Len(o) + 1 /\ a[Len(o) + 1] = e
      /\ \A i \in 1 .. Len(o) : a[i] = o[i] /\ Depth(a, i) = Depth(o, i)
      /\ Depth(a, Len(o) + 1) =
           IF o[Len(o)].kind = "brace" THEN Depth(o, Len(o)) + 1 ELSE Depth(o, Len(o))
  BY DepthAppends
<1> HIDE DEF a
<1>3. ASSUME NEW i \in 1 .. Len(a), a[i].kind = "for"
      PROVE  i > 1 /\ a[i - 1].kind = "brace" /\ ~t[Depth(a, i)].do
  <2>1. CASE i \in 1 .. Len(o)
    <3>1. i > 1 /\ o[i - 1].kind = "brace" /\ ~s[Depth(o, i)].do
      BY <1>2, <1>3, <2>1 DEF Loops
    <3>2. i - 1 \in 1 .. Len(o)
      BY <1>1, <2>1, <3>1
    <3> QED BY <1>2, <2>1, <3>1, <3>2
  <2>2. CASE i = Len(o) + 1
    <3>1. e.kind = "for" /\ o[Len(o)].kind = "brace" /\ ~t[Depth(o, Len(o)) + 1].do
      BY <1>2, <1>3, <2>2
    <3>2. i > 1 /\ i - 1 = Len(o)
      BY <1>1, <2>2
    <3> QED BY <1>1, <1>2, <2>2, <3>1, <3>2
  <2>3. i \in 1 .. Len(o) \/ i = Len(o) + 1
    BY <1>1, <1>2
  <2> QED BY <2>1, <2>2, <2>3
<1> QED BY <1>3 DEF Loops, a

\* A brace opens, after another or after the header of its loop.
LEMMA NestOpens ==
  ASSUME NEW o \in Seq(OutType), NEW s, Nest(o, s), NEW b \in Seq(OutType),
         NEW e \in OutType, e.kind = "brace",
         NEW t, Len(t) = Len(s) + 1, \A k \in 1 .. Len(s) : t[k].do = s[k].do,
         \/ Shape(b, o)
         \/ \E h \in OutType : h.kind = "for" /\ Shape(b, Append(o, h)) /\ ~t[Len(s) + 1].do
  PROVE  Nest(Append(b, e), t)
<1> DEFINE l == Len(o)
<1>1. l \in Nat \ {0} /\ l \in 1 .. l /\ Len(s) \in Nat \ {0} /\ o # <<>> /\ o[l].kind = "brace"
      /\ Depth(o, l) = Len(s) /\ Loops(o, s) /\ \A i \in 1 .. l : Depth(o, i) \in 1 .. Len(s)
  BY NestFacts DEF Nest
<1>2. \A i \in 1 .. l : t[Depth(o, i)].do = s[Depth(o, i)].do
  BY <1>1
<1>3. ASSUME b # <<>>, Loops(b, t),
             (IF b[Len(b)].kind = "brace" THEN Depth(b, Len(b)) + 1 ELSE Depth(b, Len(b))) = Len(s) + 1
      PROVE  Nest(Append(b, e), t)
  <2> DEFINE a == Append(b, e)
  <2>1. /\ a # <<>> /\ Len(a) = Len(b) + 1 /\ a[Len(b) + 1] = e
        /\ Depth(a, Len(b) + 1) = Len(s) + 1
    BY <1>3, DepthAppends
  <2>2. Loops(a, t)
    BY <1>3, LoopsAppends
  <2> HIDE DEF a
  <2>3. Nest(a, t)
    BY <2>1, <2>2 DEF Nest
  <2> QED BY <2>3 DEF a
<1>4. CASE Shape(b, o)
  <2>1. Loops(b, t)
    BY <1>1, <1>2, <1>4, LoopsSame
  <2>2. Len(b) = l /\ b[l].kind = "brace" /\ Depth(b, l) = Len(s)
    BY <1>1, <1>4, ShapeDepth DEF Shape
  <2>3. b # <<>>
    BY <1>1, <2>2, EmptySeq
  <2> QED BY <1>3, <2>1, <2>2, <2>3
<1>5. CASE \E h \in OutType : h.kind = "for" /\ Shape(b, Append(o, h)) /\ ~t[Len(s) + 1].do
  <2>1. PICK h \in OutType : h.kind = "for" /\ Shape(b, Append(o, h)) /\ ~t[Len(s) + 1].do
    BY <1>5
  <2> DEFINE a == Append(o, h)
  <2>2. /\ a \in Seq(OutType) /\ a # <<>> /\ Len(a) = l + 1 /\ a[l + 1] = h
        /\ Depth(a, l + 1) = IF o[l].kind = "brace" THEN Depth(o, l) + 1 ELSE Depth(o, l)
    BY <1>1, DepthAppends
  <2>3. Loops(a, t)
    BY <1>1, <1>2, <2>1, LoopsAppends
  <2> HIDE DEF a
  <2>9. Depth(a, l + 1) = Len(s) + 1
    BY <1>1, <2>2
  <2>4. Shape(b, a)
    BY <2>1 DEF a
  <2>5. Loops(b, t)
    BY <2>2, <2>3, <2>4, LoopsSame
  <2>6. l + 1 \in 1 .. Len(a) /\ Len(a) \in Nat
    BY <1>1, <2>2
  <2>7. Len(b) = l + 1 /\ b[l + 1].kind = "for" /\ Depth(b, l + 1) = Len(s) + 1
    BY <2>1, <2>2, <2>4, <2>6, <2>9, ShapeDepth DEF Shape
  <2>8. b # <<>> /\ "for" # "brace"
    BY <1>1, <2>7, EmptySeq
  <2> QED BY <1>3, <2>5, <2>7, <2>8
<1> QED BY <1>4, <1>5

\* What closing the innermost scope t of the source leaves of the text.
Drops(o, b, s, t) ==
  /\ b \in Seq(OutType) /\ Nest(b, t)
  /\ Len(b) \in 1 .. Len(o) - 1 /\ Len(s) = Len(t) + 1
  /\ \A i \in 1 .. Len(b) : b[i] = o[i] /\ Depth(b, i) = Depth(o, i)
  /\ \A i \in 1 .. Len(o) : i > Len(b) => Depth(o, i) = Len(s)
  /\ \A k \in 1 .. Len(t) : t[k] = s[k]

LEMMA NestCloses ==
  ASSUME NEW o \in Seq(OutType), NEW s \in Seq(SrcType), Nest(o, s), Len(s) > 1
  PROVE  /\ Drops(o, AfterBrace(o), s, Front(s))
         /\ s[Len(s)].do => Drops(o, Front(o), s, Front(s))
<1> DEFINE l == Len(o) - 1
           t == Front(s)
           r == Front(o)
<1>1. Len(o) \in Nat \ {0} /\ Len(s) \in Nat \ {0}
      /\ \A i \in 1 .. Len(o) : o[i] \in OutType /\ Depth(o, i) \in 1 .. Len(s)
  BY NestFacts
<1>2. o # <<>> /\ Depth(o, Len(o)) = Len(s) /\ Loops(o, s)
  BY DEF Nest
<1>3. Len(o) # 1
  BY <1>1, <1>2, DepthFirst
<1>4. l \in Nat \ {0} /\ Len(o) = l + 1 /\ l \in 1 .. l /\ l \in 1 .. Len(o)
      /\ \A i \in 1 .. l : i \in 1 .. Len(o)
  <2>1. \A k \in Nat \ {0} : k # 1 => k - 1 \in Nat \ {0} /\ k = k - 1 + 1 /\ k - 1 \in 1 .. k - 1
          /\ k - 1 \in 1 .. k /\ \A i \in 1 .. k - 1 : i \in 1 .. k
    OBVIOUS
  <2> QED BY <1>1, <1>3, <2>1
<1>5. s # <<>>
  BY <1>1, EmptySeq
<1>6. Len(t) = Len(s) - 1 /\ \A k \in 1 .. Len(t) : t[k] = s[k]
  BY <1>5, FrontOf
<1>7. Len(t) \in Nat \ {0} /\ Len(s) = Len(t) + 1 /\ \A k \in 1 .. Len(t) : k \in 1 .. Len(s)
  BY <1>1, <1>6
<1>8. r \in Seq(OutType) /\ Len(r) = l /\ \A i \in 1 .. l : r[i] = o[i]
  BY <1>2, FrontOf
<1>9. Depth(o, Len(o)) = IF o[l].kind = "brace" THEN Depth(o, l) + 1 ELSE Depth(o, l)
  BY <1>4, DepthNext
<1>10. Depth(o, l) \in Nat
  BY <1>1, <1>4
<1> HIDE DEF l, r, t
\* what is left when b has the first j scopes
<1>11. ASSUME NEW j \in 1 .. l, NEW b \in Seq(OutType), Len(b) = j, \A i \in 1 .. j : b[i] = o[i],
              o[j].kind = "brace", Depth(o, j) = Len(t),
              \A i \in 1 .. Len(o) : i > j => Depth(o, i) = Len(s)
       PROVE  Drops(o, b, s, t)
  <2>1. j \in Nat \ {0} /\ j \in 1 .. j /\ j \in 1 .. Len(o) - 1 /\ \A i \in 1 .. j : i \in 1 .. Len(o)
    BY <1>4
  <2>2. ASSUME NEW i \in 1 .. j PROVE Depth(b, i) = Depth(o, i)
    <3>1. i \in Nat /\ \A h \in 1 .. i - 1 : h \in 1 .. j
      OBVIOUS
    <3> QED BY <1>11, <3>1, DepthSame
  <2>3. b # <<>>
    BY <1>11, <2>1, EmptySeq
  <2>4. ASSUME NEW i \in 1 .. j, b[i].kind = "for"
        PROVE  i > 1 /\ b[i - 1].kind = "brace" /\ ~t[Depth(b, i)].do
    <3>1. i > 1 /\ o[i - 1].kind = "brace" /\ ~s[Depth(o, i)].do
      BY <1>2, <1>11, <2>1, <2>4 DEF Loops
    <3>2. i - 1 \in 1 .. j
      BY <3>1
    <3>3. Depth(o, i) <= Depth(o, j)
      BY <2>1, DepthGrows
    <3>4. Depth(o, i) \in 1 .. Len(t)
      BY <1>1, <1>7, <1>11, <2>1, <3>3
    <3> QED BY <1>6, <1>11, <2>2, <3>1, <3>2, <3>4
  <2>5. Nest(b, t)
    BY <1>11, <2>1, <2>2, <2>3, <2>4 DEF Nest, Loops
  <2> QED BY <1>6, <1>7, <1>11, <2>1, <2>2, <2>5 DEF Drops
<1>12. CASE o[l].kind = "brace"
  <2>1. Depth(o, l) = Len(t)
    BY <1>2, <1>7, <1>9, <1>10, <1>12
  <2>2. \A i \in 1 .. Len(o) : i > l => Depth(o, i) = Len(s)
    BY <1>2, <1>4
  <2>3. Drops(o, r, s, t)
    BY <1>4, <1>8, <1>11, <1>12, <2>1, <2>2
  <2>4. AfterBrace(o) = r
    BY <1>4, <1>8, <1>12 DEF AfterBrace, Last, r
  <2> QED BY <2>3, <2>4 DEF r, t
<1>13. CASE o[l].kind = "for"
  <2>1. l > 1 /\ o[l - 1].kind = "brace" /\ Depth(o, l) = Len(s) /\ ~s[Len(s)].do
    <3>1. Depth(o, l) = Len(s)
      BY <1>2, <1>9, <1>13
    <3> QED BY <1>2, <1>4, <1>13, <3>1 DEF Loops
  <2>2. l - 1 \in Nat \ {0} /\ l - 1 + 1 = l /\ l - 1 \in 1 .. l /\ l - 1 \in 1 .. Len(o)
        /\ \A i \in 1 .. l - 1 : i \in 1 .. l
    BY <1>4, <2>1
  <2>3. Depth(o, l - 1) = Len(t)
    <3>1. Depth(o, l) = Depth(o, l - 1) + 1
      BY <2>1, <2>2, DepthNext
    <3>2. Depth(o, l - 1) \in Nat
      BY <1>1, <2>2
    <3> QED BY <1>7, <2>1, <3>1, <3>2
  <2>4. \A i \in 1 .. Len(o) : i > l - 1 => Depth(o, i) = Len(s)
    <3>1. \A i \in 1 .. Len(o) : i > l - 1 => i = l \/ i = Len(o)
      BY <1>4
    <3> QED BY <1>2, <2>1, <3>1
  <2>5. r # <<>>
    BY <1>4, <1>8, EmptySeq
  <2>6. Front(r) \in Seq(OutType) /\ Len(Front(r)) = l - 1 /\ \A i \in 1 .. l - 1 : Front(r)[i] = r[i]
    BY <1>8, <2>5, FrontOf
  <2>7. \A i \in 1 .. l - 1 : Front(r)[i] = o[i]
    BY <1>8, <2>2, <2>6
  <2>8. Drops(o, Front(r), s, t)
    BY <1>11, <2>1, <2>2, <2>3, <2>4, <2>6, <2>7
  <2>9. AfterBrace(o) = Front(r)
    BY <1>4, <1>8, <1>13, <2>5 DEF AfterBrace, Last, r
  <2> QED BY <2>1, <2>8, <2>9 DEF t
<1>14. o[l].kind \in {"brace", "for"}
  BY <1>1, <1>4 DEF OutType
<1> QED BY <1>12, <1>13, <1>14

-----------------------------------------------------------------------------
(* What a step meets, when no error comes of it.                           *)

LEMMA VisitClean ==
  ASSUME NEW txt \in TextType, NEW v \in Var, NEW n \in Name, NEW place,
         VisitTemporary(txt, v, n, place).errors = {}
  PROVE  LET r == VisitTemporary(txt, v, n, place) IN
         /\ r \in TextType
         /\ \/ Leaves(txt, r) /\ LookUp(txt.out, n) = v
            \/ Declares(txt, r, v, n) /\ v \notin txt.seen /\ place # "inside"
<1> DEFINE r == VisitTemporary(txt, v, n, place)
<1>1. r \in TextType /\ (Leaves(txt, r) \/ Declares(txt, r, v, n))
  BY VisitSteps
<1>2. txt.errors \in SUBSET Error
  BY DEF TextType
<1>3. CASE txt.declared = <<>> /\ ~IsVarDeclared(txt.declared, n)
  <2>1. r.errors = txt.errors \cup {"overflow"}
    BY <1>3 DEF VisitTemporary, VisitSymbol, TextType
  <2> QED BY <2>1
<1>4. CASE IsVarDeclared(txt.declared, n)
  <2> DEFINE b == LookUp(txt.out, n)
             e == IF b = Nowhere THEN {"undeclared"} ELSE IF b # v THEN {"captured"} ELSE {}
  <2>1. r = [txt EXCEPT !.errors = @ \cup e]
    BY <1>4 DEF VisitTemporary, VisitSymbol
  <2>2. r.errors = txt.errors \cup e
    BY <2>1 DEF TextType
  <2>3. b = v
    BY <2>2
  <2>4. ~Declares(txt, r, v, n)
    BY <1>4 DEF Declares
  <2> QED BY <1>1, <2>3, <2>4
<1>5. CASE txt.declared # <<>> /\ ~IsVarDeclared(txt.declared, n)
  <2>1. r.errors = txt.errors \cup (IF v \in txt.seen THEN {"split"} ELSE {})
                              \cup (IF place = "inside" THEN {"misplaced"} ELSE {})
    BY <1>5 DEF VisitTemporary, VisitSymbol
  <2>2. v \notin txt.seen /\ place # "inside"
    BY <2>1
  <2>3. r.seen = txt.seen \cup {v}
    BY <1>5 DEF VisitTemporary, VisitSymbol
  <2>4. ~Leaves(txt, r)
    BY <2>2, <2>3 DEF Leaves
  <2> QED BY <1>1, <2>2, <2>4
<1> QED BY <1>3, <1>4, <1>5

\* What a visit may find wrong, and why.
LEMMA VisitFaults ==
  ASSUME NEW txt \in TextType, NEW v \in Var, NEW n \in Name, NEW place,
         NEW e \in VisitTemporary(txt, v, n, place).errors
  PROVE  \/ e \in txt.errors
         \/ e = "overflow" /\ txt.declared = <<>>
         \/ e = "undeclared" /\ IsVarDeclared(txt.declared, n) /\ LookUp(txt.out, n) = Nowhere
         \/ e = "captured" /\ LookUp(txt.out, n) # Nowhere /\ LookUp(txt.out, n) # v
         \/ e = "split" /\ ~IsVarDeclared(txt.declared, n) /\ v \in txt.seen
         \/ e = "misplaced" /\ ~IsVarDeclared(txt.declared, n) /\ place = "inside"
<1> DEFINE r == VisitTemporary(txt, v, n, place)
<1>1. CASE txt.declared = <<>> /\ ~IsVarDeclared(txt.declared, n)
  <2>1. r.errors = txt.errors \cup {"overflow"}
    BY <1>1 DEF VisitTemporary, VisitSymbol, TextType
  <2> QED BY <1>1, <2>1
<1>2. CASE IsVarDeclared(txt.declared, n)
  <2> DEFINE b == LookUp(txt.out, n)
             f == IF b = Nowhere THEN {"undeclared"} ELSE IF b # v THEN {"captured"} ELSE {}
  <2>1. r = [txt EXCEPT !.errors = @ \cup f]
    BY <1>2 DEF VisitTemporary, VisitSymbol
  <2>2. r.errors = txt.errors \cup f
    BY <2>1 DEF TextType
  <2> QED BY <1>2, <2>2
<1>3. CASE txt.declared # <<>> /\ ~IsVarDeclared(txt.declared, n)
  <2>1. r.errors = txt.errors \cup (IF v \in txt.seen THEN {"split"} ELSE {})
                              \cup (IF place = "inside" THEN {"misplaced"} ELSE {})
    BY <1>3 DEF VisitTemporary, VisitSymbol
  <2> QED BY <1>3, <2>1
<1> QED BY <1>1, <1>2, <1>3

-----------------------------------------------------------------------------
(* The invariants, each from the features that its errors are due to.      *)

\* The variables of the open scopes s are distinct and, with the typed ones x, among
\* the first c.
Known(s, c, x) ==
  /\ x \subseteq 1 .. c
  /\ \A k \in 1 .. Len(s), n \in Name : s[k].vars[n] # Nowhere => s[k].vars[n] \in 1 .. c
  /\ \A k, h \in 1 .. Len(s), m, n \in Name :
       s[k].vars[m] # Nowhere /\ s[k].vars[m] = s[h].vars[n] => k = h /\ m = n

\* A typed variable of scope k is in a list that lasts as long.
Kept(d, s, x) ==
  \A k \in 1 .. Len(s), n \in Name : s[k].vars[n] \in x =>
    \E j \in 1 .. k : j <= Len(d) /\ n \in d[j]

\* What a scope of the text declares, an open scope of the source that lasts as long
\* declares.
Own(o, s) ==
  \A i \in 1 .. Len(o), n \in Name : o[i].vars[n] # Nowhere =>
    \E k \in 1 .. Len(s) : k <= Depth(o, i) /\ s[k].vars[n] = o[i].vars[n]

\* A name in a list is there for a scope of the text that the list does not outlast, or
\* for a for-loop of a scope that it does not outlast.  While the name of such a loop
\* is bound in the source, its loop is open and the text binds it in its header.
Lasting(o, d, s, j, n) ==
  \/ \E i \in 1 .. Len(o) : o[i].vars[n] # Nowhere /\ Len(d) - j <= Len(s) - Depth(o, i)
  \/ \E k \in 1 .. Len(s) : n \in s[k].fors /\ Len(d) - j <= Len(s) - k

Heading(o, s) ==
  \A k, h \in 1 .. Len(s), n \in Name : n \in s[k].fors /\ s[h].vars[n] # Nowhere =>
    h = k + 1 /\ \E i \in 1 .. Len(o) : o[i].vars[n] # Nowhere /\ Depth(o, i) = h

Live(o, d, s) ==
  /\ \A j \in 1 .. Len(d), n \in Name : n \in d[j] => Lasting(o, d, s, j, n)
  /\ Heading(o, s)

Settled(o, d, s, x, f) ==
  /\ f \cap {"late", "multi", "deep"} = {} => Kept(d, s, x)
  /\ "shadow" \notin f => Single(s) /\ Own(o, s)
  /\ f \cap {"forReuse", "late", "shadow"} = {} => Live(o, d, s)

Sound(o, d, s, c, x, f) == Nest(o, s) /\ Known(s, c, x) /\ Settled(o, d, s, x, f)

SoundInv == errors = {} => Sound(out, declared, src, Len(name), seen, features)

-----------------------------------------------------------------------------
(* How the parts change with the source and the text.                      *)

\* What s binds, t binds.
Holds(s, t) ==
  \A k \in 1 .. Len(s), n \in Name : s[k].vars[n] # Nowhere =>
    k \in 1 .. Len(t) /\ t[k].vars[n] = s[k].vars[n]

LEMMA KnownLess ==
  ASSUME NEW s, NEW t, NEW c, NEW x, Known(s, c, x), Holds(t, s)
  PROVE  Known(t, c, x)
<1>1. x \subseteq 1 .. c
  BY DEF Known
<1>2. \A k \in 1 .. Len(t), n \in Name : t[k].vars[n] # Nowhere => t[k].vars[n] \in 1 .. c
  BY DEF Known, Holds
<1>3. ASSUME NEW k \in 1 .. Len(t), NEW h \in 1 .. Len(t), NEW m \in Name, NEW n \in Name,
             t[k].vars[m] # Nowhere, t[k].vars[m] = t[h].vars[n]
      PROVE  k = h /\ m = n
  <2>1. k \in 1 .. Len(s) /\ s[k].vars[m] = t[k].vars[m]
    BY <1>3 DEF Holds
  <2>2. h \in 1 .. Len(s) /\ s[h].vars[n] = t[h].vars[n]
    BY <1>3 DEF Holds
  <2> QED BY <1>3, <2>1, <2>2 DEF Known
<1> QED BY <1>1, <1>2, <1>3 DEF Known

LEMMA KnownMore ==
  ASSUME NEW s, NEW t, NEW c \in Nat, NEW x, Known(s, c, x), NEW m \in Name, NEW h,
         BindsMore(s, t, h, m, c + 1)
  PROVE  Known(t, c + 1, x) /\ Known(t, c + 1, x \cup {c + 1})
<1>1. x \subseteq 1 .. c + 1 /\ c + 1 \in 1 .. c + 1 /\ c + 1 \notin 1 .. c
      /\ \A w \in 1 .. c : w \in 1 .. c + 1
  BY DEF Known
<1>2. ASSUME NEW k \in 1 .. Len(t), NEW n \in Name, t[k].vars[n] # Nowhere
      PROVE  \/ k \in 1 .. Len(s) /\ s[k].vars[n] = t[k].vars[n] /\ t[k].vars[n] \in 1 .. c
             \/ k = h /\ n = m /\ t[k].vars[n] = c + 1
  BY <1>2 DEF BindsMore, Known
<1>3. ASSUME NEW k \in 1 .. Len(t), NEW n \in Name, t[k].vars[n] # Nowhere
      PROVE  t[k].vars[n] \in 1 .. c + 1
  BY <1>1, <1>2, <1>3
<1>4. ASSUME NEW k \in 1 .. Len(t), NEW i \in 1 .. Len(t), NEW u \in Name, NEW n \in Name,
             t[k].vars[u] # Nowhere, t[k].vars[u] = t[i].vars[n]
      PROVE  k = i /\ u = n
  <2>1. CASE k = h /\ u = m /\ t[k].vars[u] = c + 1
    <3>1. i = h /\ n = m
      BY <1>1, <1>2, <1>4, <2>1
    <3> QED BY <2>1, <3>1
  <2>2. CASE k \in 1 .. Len(s) /\ s[k].vars[u] = t[k].vars[u] /\ t[k].vars[u] \in 1 .. c
    <3>1. i \in 1 .. Len(s) /\ s[i].vars[n] = t[i].vars[n]
      BY <1>1, <1>2, <1>4, <2>2
    <3> QED BY <1>4, <2>2, <3>1 DEF Known
  <2> QED BY <1>2, <1>4, <2>1, <2>2
<1>5. x \cup {c + 1} \subseteq 1 .. c + 1
  BY <1>1
<1> QED BY <1>1, <1>3, <1>4, <1>5 DEF Known

LEMMA SingleLess ==
  ASSUME NEW s, NEW t, Single(s), Holds(t, s) PROVE Single(t)
BY DEF Single, Holds

LEMMA SingleMore ==
  ASSUME NEW s, NEW t, Single(s), NEW m \in Name, \A k \in 1 .. Len(s) : s[k].vars[m] = Nowhere,
         NEW h, NEW v, BindsMore(s, t, h, m, v)
  PROVE  Single(t)
<1> SUFFICES ASSUME NEW i \in 1 .. Len(t), NEW j \in 1 .. Len(t), NEW n \in Name,
                    t[i].vars[n] # Nowhere, t[j].vars[n] # Nowhere
             PROVE  i = j
  BY DEF Single
<1>1. CASE n = m
  BY <1>1 DEF BindsMore
<1>2. CASE n # m
  BY <1>2 DEF Single, BindsMore
<1> QED BY <1>1, <1>2

\* The lists c keep, up to the l-th, what the lists d have.
Keeps(d, c, l) == \A j \in 1 .. l : j <= Len(d) => j <= Len(c) /\ d[j] \subseteq c[j]

LEMMA KeptMore ==
  ASSUME NEW d, NEW s, NEW x, Kept(d, s, x), NEW t, NEW c, Len(t) \in Nat, Keeps(d, c, Len(t)),
         \A k \in 1 .. Len(t), n \in Name : t[k].vars[n] \in x =>
           k \in 1 .. Len(s) /\ s[k].vars[n] = t[k].vars[n]
  PROVE  Kept(c, t, x)
<1> SUFFICES ASSUME NEW k \in 1 .. Len(t), NEW n \in Name, t[k].vars[n] \in x
             PROVE  \E j \in 1 .. k : j <= Len(c) /\ n \in c[j]
  BY DEF Kept
<1>1. k \in 1 .. Len(s) /\ s[k].vars[n] \in x
  OBVIOUS
<1>2. PICK j \in 1 .. k : j <= Len(d) /\ n \in d[j]
  BY <1>1 DEF Kept
<1>3. j \in 1 .. Len(t)
  OBVIOUS
<1> QED BY <1>2, <1>3 DEF Keeps

\* A variable is typed in a list that lasts as long as the one scope that declares it.
LEMMA KeptMarks ==
  ASSUME NEW d, NEW s, NEW x, Kept(d, s, x), NEW v, NEW m, NEW i,
         \A k \in 1 .. Len(s), n \in Name : s[k].vars[n] = v => n = m /\ i \in 1 .. k,
         i <= Len(d), m \in d[i]
  PROVE  Kept(d, s, x \cup {v})
<1> SUFFICES ASSUME NEW k \in 1 .. Len(s), NEW n \in Name, s[k].vars[n] \in x \cup {v}
             PROVE  \E j \in 1 .. k : j <= Len(d) /\ n \in d[j]
  BY DEF Kept
<1>1. CASE s[k].vars[n] \in x
  BY <1>1 DEF Kept
<1>2. CASE s[k].vars[n] = v
  BY <1>2
<1> QED BY <1>1, <1>2

LEMMA OwnSource ==
  ASSUME NEW o, NEW s, NEW t, Own(o, s), Holds(s, t) PROVE Own(o, t)
<1> SUFFICES ASSUME NEW i \in 1 .. Len(o), NEW n \in Name, o[i].vars[n] # Nowhere
             PROVE  \E k \in 1 .. Len(t) : k <= Depth(o, i) /\ t[k].vars[n] = o[i].vars[n]
  BY DEF Own
<1>1. PICK k \in 1 .. Len(s) : k <= Depth(o, i) /\ s[k].vars[n] = o[i].vars[n]
  BY DEF Own
<1>2. k \in 1 .. Len(t) /\ t[k].vars[n] = s[k].vars[n]
  BY <1>1 DEF Holds
<1> QED BY <1>1, <1>2

\* What a visit that declares does to each scope and to each list.
Met(txt, r, v, n) ==
  /\ v # Nowhere
  /\ Len(r.out) = Len(txt.out) /\ Len(txt.out) \in 1 .. Len(txt.out) /\ Len(txt.out) \in Nat
  /\ \A i \in 1 .. Len(txt.out) : Depth(r.out, i) = Depth(txt.out, i)
  /\ \A i \in 1 .. Len(txt.out), m \in Name :
       r.out[i].vars[m] = IF i = Len(txt.out) /\ m = n THEN v ELSE txt.out[i].vars[m]
  /\ Len(r.declared) = Len(txt.declared) /\ Len(txt.declared) \in Nat \ {0}
  /\ \A j \in 1 .. Len(txt.declared) :
       r.declared[j] = IF j = Len(txt.declared) THEN txt.declared[j] \cup {n} ELSE txt.declared[j]
  /\ r.seen = txt.seen \cup {v}

LEMMA VisitBinds ==
  ASSUME NEW txt \in TextType, txt.out # <<>>, NEW v \in Var, NEW n \in Name, NEW r \in TextType,
         Declares(txt, r, v, n)
  PROVE  Met(txt, r, v, n)
<1>1. txt.out \in Seq(OutType) /\ txt.declared \in Seq(SUBSET Name)
  BY DEF TextType
<1>2. /\ txt.declared # <<>> /\ r.out = BindTop(txt.out, n, v)
      /\ r.declared = [txt.declared EXCEPT ![Len(txt.declared)] = @ \cup {n}]
      /\ r.seen = txt.seen \cup {v}
  BY DEF Declares
<1>3. Len(txt.out) \in 1 .. Len(txt.out) /\ Len(txt.out) \in Nat
  BY <1>1, EmptySeq
<1>4. Len(txt.declared) \in Nat \ {0} /\ Len(txt.declared) \in 1 .. Len(txt.declared)
  BY <1>1, <1>2, EmptySeq
<1>5. v # Nowhere
  BY ScopesAssumption DEF Var, Nowhere
<1>6. Shape(r.out, txt.out)
  BY ShapeVisit
<1>7. Len(r.out) = Len(txt.out) /\ \A i \in 1 .. Len(txt.out) : Depth(r.out, i) = Depth(txt.out, i)
  BY <1>3, <1>6, ShapeDepth DEF Shape
<1>8. \A i \in 1 .. Len(txt.out), m \in Name :
        r.out[i].vars[m] = IF i = Len(txt.out) /\ m = n THEN v ELSE txt.out[i].vars[m]
  <2>1. v \in Var \cup {Nowhere}
    OBVIOUS
  <2>2. \A i \in 1 .. Len(txt.out) : \A m \in Name :
          BindTop(txt.out, n, v)[i].vars[m] = IF i = Len(txt.out) /\ m = n THEN v ELSE txt.out[i].vars[m]
    BY <1>1, <2>1, BindOut
  <2> QED BY <1>2, <2>2
<1>9. txt.declared[Len(txt.declared)] \cup {n} \in SUBSET Name
  BY <1>1, <1>4, ElementOfSeq
<1>10. /\ Len(r.declared) = Len(txt.declared)
       /\ \A j \in 1 .. Len(txt.declared) :
            r.declared[j] = IF j = Len(txt.declared) THEN txt.declared[Len(txt.declared)] \cup {n}
                            ELSE txt.declared[j]
  BY <1>1, <1>2, <1>4, <1>9, ExceptSeq
<1> QED BY <1>2, <1>3, <1>4, <1>5, <1>7, <1>8, <1>10 DEF Met

LEMMA OwnVisit ==
  ASSUME NEW txt \in TextType, txt.out # <<>>, NEW v \in Var, NEW n \in Name, NEW r \in TextType,
         NEW s, Own(txt.out, s),
         \/ Leaves(txt, r)
         \/ /\ Declares(txt, r, v, n)
            /\ \E k \in 1 .. Len(s) : k <= Depth(txt.out, Len(txt.out)) /\ s[k].vars[n] = v
  PROVE  Own(r.out, s)
<1>1. CASE Leaves(txt, r)
  BY <1>1 DEF Leaves
<1>2. CASE /\ Declares(txt, r, v, n)
           /\ \E k \in 1 .. Len(s) : k <= Depth(txt.out, Len(txt.out)) /\ s[k].vars[n] = v
  <2>1. /\ Len(r.out) = Len(txt.out)
        /\ \A i \in 1 .. Len(txt.out) : Depth(r.out, i) = Depth(txt.out, i)
        /\ \A i \in 1 .. Len(txt.out), m \in Name :
             r.out[i].vars[m] = IF i = Len(txt.out) /\ m = n THEN v ELSE txt.out[i].vars[m]
    BY <1>2, VisitBinds DEF Met
  <2> SUFFICES ASSUME NEW i \in 1 .. Len(txt.out), NEW m \in Name, r.out[i].vars[m] # Nowhere
               PROVE  \E k \in 1 .. Len(s) : k <= Depth(r.out, i) /\ s[k].vars[m] = r.out[i].vars[m]
    BY <2>1 DEF Own
  <2>2. CASE i = Len(txt.out) /\ m = n
    BY <1>2, <2>1, <2>2
  <2>3. CASE ~(i = Len(txt.out) /\ m = n)
    <3>1. r.out[i].vars[m] = txt.out[i].vars[m]
      BY <2>1, <2>3
    <3>2. \E k \in 1 .. Len(s) : k <= Depth(txt.out, i) /\ s[k].vars[m] = txt.out[i].vars[m]
      BY <3>1 DEF Own
    <3> QED BY <2>1, <3>1, <3>2
  <2> QED BY <2>2, <2>3
<1> QED BY <1>1, <1>2

\* A scope of the text that opens binds nothing.
LEMMA FreshScope ==
  ASSUME NEW o \in Seq(OutType), o # <<>>, NEW e \in OutType, e.vars = Fresh
  PROVE  LET a == Append(o, e) IN
         /\ Len(a) = Len(o) + 1 /\ Len(o) \in Nat
         /\ \A i \in 1 .. Len(a), n \in Name : a[i].vars[n] # Nowhere => i \in 1 .. Len(o)
         /\ \A i \in 1 .. Len(o) : i \in 1 .. Len(a) /\ a[i] = o[i] /\ Depth(a, i) = Depth(o, i)
<1> DEFINE a == Append(o, e)
<1>1. Len(o) \in Nat
  BY LenProperties
<1>2. Len(a) = Len(o) + 1 /\ a[Len(o) + 1] = e
      /\ \A i \in 1 .. Len(o) : a[i] = o[i] /\ Depth(a, i) = Depth(o, i)
  BY DepthAppends
<1> HIDE DEF a
<1>3. \A i \in 1 .. Len(a) : i \in 1 .. Len(o) \/ i = Len(o) + 1
  BY <1>1, <1>2
<1>4. \A n \in Name : e.vars[n] = Nowhere
  BY DEF Fresh
<1>5. \A i \in 1 .. Len(a), n \in Name : a[i].vars[n] # Nowhere => i \in 1 .. Len(o)
  BY <1>2, <1>3, <1>4
<1>6. \A i \in 1 .. Len(o) : i \in 1 .. Len(a)
  BY <1>1, <1>2
<1> QED BY <1>1, <1>2, <1>5, <1>6 DEF a

LEMMA OwnOpens ==
  ASSUME NEW o \in Seq(OutType), o # <<>>, NEW e \in OutType, e.vars = Fresh, NEW s, Own(o, s)
  PROVE  Own(Append(o, e), s)
<1> DEFINE a == Append(o, e)
<1>1. /\ \A i \in 1 .. Len(a), n \in Name : a[i].vars[n] # Nowhere => i \in 1 .. Len(o)
      /\ \A i \in 1 .. Len(o) : a[i] = o[i] /\ Depth(a, i) = Depth(o, i)
  BY FreshScope
<1> HIDE DEF a
<1>2. Own(a, s)
  BY <1>1 DEF Own
<1> QED BY <1>2 DEF a

LEMMA OwnCloses ==
  ASSUME NEW o \in Seq(OutType), NEW b, NEW s, NEW t, Drops(o, b, s, t), Own(o, s)
  PROVE  Own(b, t)
<1>1. /\ b \in Seq(OutType) /\ Nest(b, t) /\ Len(o) \in Nat /\ Len(b) \in 1 .. Len(o) - 1
      /\ \A i \in 1 .. Len(b) : b[i] = o[i] /\ Depth(b, i) = Depth(o, i)
      /\ \A k \in 1 .. Len(t) : t[k] = s[k]
  BY LenProperties DEF Drops
<1>2. \A i \in 1 .. Len(b) : i \in 1 .. Len(o) /\ Depth(b, i) \in 1 .. Len(t)
  BY <1>1, NestFacts
<1> SUFFICES ASSUME NEW i \in 1 .. Len(b), NEW n \in Name, b[i].vars[n] # Nowhere
             PROVE  \E k \in 1 .. Len(t) : k <= Depth(b, i) /\ t[k].vars[n] = b[i].vars[n]
  BY DEF Own
<1>3. PICK k \in 1 .. Len(s) : k <= Depth(o, i) /\ s[k].vars[n] = o[i].vars[n]
  BY <1>1, <1>2 DEF Own
<1>4. k <= Depth(b, i) /\ s[k].vars[n] = b[i].vars[n]
  BY <1>1, <1>3
<1>5. k \in 1 .. Len(t)
  BY <1>1, <1>2, <1>3, <1>4
<1> QED BY <1>1, <1>4, <1>5

-----------------------------------------------------------------------------
(* The lists of the emitter against the scopes that bind their names.      *)

\* What the text o binds, the text b binds as deep.
Grown(o, b) ==
  \A i \in 1 .. Len(o), n \in Name : o[i].vars[n] # Nowhere =>
    \E h \in 1 .. Len(b) : b[h].vars[n] # Nowhere /\ Depth(b, h) = Depth(o, i)

LEMMA LastingMore ==
  ASSUME NEW o, NEW d, NEW s, NEW j, NEW n \in Name, Lasting(o, d, s, j, n),
         NEW b, Grown(o, b), Len(o) \in Nat, NEW c, NEW t, j \in Int,
         Len(s) \in Nat, Len(t) \in Nat, Len(d) \in Nat, Len(c) \in Nat,
         Len(c) - Len(d) <= Len(t) - Len(s),
         \A k \in 1 .. Len(s) : n \in s[k].fors => k \in 1 .. Len(t) /\ n \in t[k].fors
  PROVE  Lasting(b, c, t, j, n)
<1>1. \A x \in Int : Len(d) - j <= Len(s) - x => Len(c) - j <= Len(t) - x
  OBVIOUS
<1>2. CASE \E i \in 1 .. Len(o) : o[i].vars[n] # Nowhere /\ Len(d) - j <= Len(s) - Depth(o, i)
  <2>1. PICK i \in 1 .. Len(o) : o[i].vars[n] # Nowhere /\ Len(d) - j <= Len(s) - Depth(o, i)
    BY <1>2
  <2>2. PICK h \in 1 .. Len(b) : b[h].vars[n] # Nowhere /\ Depth(b, h) = Depth(o, i)
    BY <2>1 DEF Grown
  <2>3. i \in Nat
    OBVIOUS
  <2>4. Depth(o, i) \in Int
    BY <2>3, DepthType
  <2>5. Len(c) - j <= Len(t) - Depth(b, h)
    BY <1>1, <2>1, <2>2, <2>4
  <2> QED BY <2>2, <2>5 DEF Lasting
<1>3. CASE \E k \in 1 .. Len(s) : n \in s[k].fors /\ Len(d) - j <= Len(s) - k
  <2>1. PICK k \in 1 .. Len(s) : n \in s[k].fors /\ Len(d) - j <= Len(s) - k
    BY <1>3
  <2>2. k \in Int /\ k \in 1 .. Len(t) /\ n \in t[k].fors
    BY <2>1
  <2> QED BY <1>1, <2>1, <2>2 DEF Lasting
<1> QED BY <1>2, <1>3 DEF Lasting

LEMMA HeadingMore ==
  ASSUME NEW o, NEW s, Heading(o, s), NEW b, Grown(o, b), NEW t,
         \A k, h \in 1 .. Len(t), n \in Name : n \in t[k].fors /\ t[h].vars[n] # Nowhere =>
           /\ k \in 1 .. Len(s) /\ n \in s[k].fors
           /\ h \in 1 .. Len(s) /\ s[h].vars[n] # Nowhere
  PROVE  Heading(b, t)
<1> SUFFICES ASSUME NEW k \in 1 .. Len(t), NEW h \in 1 .. Len(t), NEW n \in Name,
                    n \in t[k].fors, t[h].vars[n] # Nowhere
             PROVE  h = k + 1 /\ \E i \in 1 .. Len(b) : b[i].vars[n] # Nowhere /\ Depth(b, i) = h
  BY DEF Heading
<1>1. /\ k \in 1 .. Len(s) /\ n \in s[k].fors
      /\ h \in 1 .. Len(s) /\ s[h].vars[n] # Nowhere
  OBVIOUS
<1>2. h = k + 1 /\ \E i \in 1 .. Len(o) : o[i].vars[n] # Nowhere /\ Depth(o, i) = h
  BY <1>1 DEF Heading
<1>3. PICK i \in 1 .. Len(o) : o[i].vars[n] # Nowhere /\ Depth(o, i) = h
  BY <1>2
<1>4. PICK e \in 1 .. Len(b) : b[e].vars[n] # Nowhere /\ Depth(b, e) = Depth(o, i)
  BY <1>3 DEF Grown
<1> QED BY <1>2, <1>3, <1>4

LEMMA GrownSelf == ASSUME NEW o PROVE Grown(o, o)
BY DEF Grown

LEMMA GrownOpens ==
  ASSUME NEW o \in Seq(OutType), o # <<>>, NEW e \in OutType, e.vars = Fresh
  PROVE  Grown(o, Append(o, e))
<1> DEFINE a == Append(o, e)
<1>1. \A i \in 1 .. Len(o) : i \in 1 .. Len(a) /\ a[i] = o[i] /\ Depth(a, i) = Depth(o, i)
  BY FreshScope
<1> HIDE DEF a
<1>2. Grown(o, a)
  BY <1>1 DEF Grown
<1> QED BY <1>2 DEF a

LEMMA GrownVisit ==
  ASSUME NEW txt \in TextType, txt.out # <<>>, NEW v \in Var, NEW n \in Name, NEW r \in TextType,
         Leaves(txt, r) \/ Declares(txt, r, v, n)
  PROVE  Grown(txt.out, r.out)
<1>1. CASE Leaves(txt, r)
  BY <1>1, GrownSelf DEF Leaves
<1>2. CASE Declares(txt, r, v, n)
  <2>1. /\ v # Nowhere /\ Len(r.out) = Len(txt.out)
        /\ \A i \in 1 .. Len(txt.out) : Depth(r.out, i) = Depth(txt.out, i)
        /\ \A i \in 1 .. Len(txt.out), m \in Name :
             r.out[i].vars[m] = IF i = Len(txt.out) /\ m = n THEN v ELSE txt.out[i].vars[m]
    BY <1>2, VisitBinds DEF Met
  <2>2. \A i \in 1 .. Len(txt.out), m \in Name : txt.out[i].vars[m] # Nowhere => r.out[i].vars[m] # Nowhere
    BY <2>1
  <2> QED BY <2>1, <2>2 DEF Grown
<1> QED BY <1>1, <1>2

LEMMA GrownTwice ==
  ASSUME NEW o, NEW b, NEW a, Grown(o, b), Grown(b, a) PROVE Grown(o, a)
<1> SUFFICES ASSUME NEW i \in 1 .. Len(o), NEW n \in Name, o[i].vars[n] # Nowhere
             PROVE  \E h \in 1 .. Len(a) : a[h].vars[n] # Nowhere /\ Depth(a, h) = Depth(o, i)
  BY DEF Grown
<1>1. PICK k \in 1 .. Len(b) : b[k].vars[n] # Nowhere /\ Depth(b, k) = Depth(o, i)
  BY DEF Grown
<1>2. PICK h \in 1 .. Len(a) : a[h].vars[n] # Nowhere /\ Depth(a, h) = Depth(b, k)
  BY <1>1 DEF Grown
<1> QED BY <1>1, <1>2

\* The source declares a name that no for-loop of an open scope has used.
LEMMA LiveSource ==
  ASSUME NEW o, Len(o) \in Nat, NEW d \in Seq(SUBSET Name), NEW s, Len(s) \in Nat, Live(o, d, s),
         NEW t, Len(t) = Len(s), \A k \in 1 .. Len(s) : t[k].fors = s[k].fors,
         NEW n \in Name, \A k \in 1 .. Len(s) : n \notin s[k].fors,
         NEW h, NEW v, BindsMore(s, t, h, n, v)
  PROVE  Live(o, d, t)
<1>1. Len(d) \in Nat
  BY LenProperties
<1>2. ASSUME NEW j \in 1 .. Len(d), NEW m \in Name, m \in d[j] PROVE Lasting(o, d, t, j, m)
  <2>1. Lasting(o, d, s, j, m)
    BY <1>2 DEF Live
  <2>2. \A k \in 1 .. Len(s) : m \in s[k].fors => k \in 1 .. Len(t) /\ m \in t[k].fors
    OBVIOUS
  <2>3. Len(d) - Len(d) <= Len(t) - Len(s) /\ j \in Int /\ Len(t) \in Nat
    BY <1>1
  <2> QED BY <1>1, <2>1, <2>2, <2>3, GrownSelf, LastingMore
<1>3. \A k, i \in 1 .. Len(t), m \in Name : m \in t[k].fors /\ t[i].vars[m] # Nowhere =>
        /\ k \in 1 .. Len(s) /\ m \in s[k].fors
        /\ i \in 1 .. Len(s) /\ s[i].vars[m] # Nowhere
  BY DEF BindsMore
<1>4. Heading(o, t)
  <2>1. Heading(o, s) /\ Grown(o, o)
    BY GrownSelf DEF Live
  <2> QED BY <1>3, <2>1, HeadingMore
<1> QED BY <1>2, <1>4 DEF Live

\* The emitter meets a symbol in a scope of the text that lasts as long as s.
LEMMA LiveVisit ==
  ASSUME NEW txt \in TextType, txt.out # <<>>, NEW v \in Var, NEW n \in Name, NEW r \in TextType,
         Leaves(txt, r) \/ Declares(txt, r, v, n),
         NEW s, Len(s) \in Nat, Live(txt.out, txt.declared, s),
         Depth(txt.out, Len(txt.out)) <= Len(s)
  PROVE  Live(r.out, r.declared, s)
<1>1. CASE Leaves(txt, r)
  BY <1>1 DEF Leaves
<1>2. CASE Declares(txt, r, v, n)
  <2>1. Met(txt, r, v, n)
    BY <1>2, VisitBinds
  <2>5. /\ v # Nowhere
        /\ Len(r.out) = Len(txt.out) /\ Len(txt.out) \in 1 .. Len(txt.out) /\ Len(txt.out) \in Nat
        /\ \A i \in 1 .. Len(txt.out) : Depth(r.out, i) = Depth(txt.out, i)
        /\ \A i \in 1 .. Len(txt.out), m \in Name :
             r.out[i].vars[m] = IF i = Len(txt.out) /\ m = n THEN v ELSE txt.out[i].vars[m]
    BY <2>1 DEF Met
  <2>6. /\ Len(r.declared) = Len(txt.declared) /\ Len(txt.declared) \in Nat \ {0}
        /\ \A j \in 1 .. Len(txt.declared) :
             r.declared[j] = IF j = Len(txt.declared) THEN txt.declared[j] \cup {n} ELSE txt.declared[j]
    BY <2>1 DEF Met
  <2>2. Grown(txt.out, r.out)
    BY <1>2, GrownVisit
  <2>3. ASSUME NEW j \in 1 .. Len(r.declared), NEW m \in Name, m \in r.declared[j]
        PROVE  Lasting(r.out, r.declared, s, j, m)
    <3>1. CASE m \in txt.declared[j]
      <4>1. Lasting(txt.out, txt.declared, s, j, m)
        BY <2>5, <2>6, <3>1 DEF Live
      <4>2. Len(r.declared) - Len(txt.declared) <= Len(s) - Len(s) /\ j \in Int
        BY <2>5, <2>6
      <4>3. \A k \in 1 .. Len(s) : m \in s[k].fors => k \in 1 .. Len(s) /\ m \in s[k].fors
        OBVIOUS
      <4>4. Len(r.declared) \in Nat /\ Len(txt.declared) \in Nat /\ Len(txt.out) \in Nat
        BY <2>5, <2>6
      <4> QED BY <2>2, <4>1, <4>2, <4>3, <4>4, LastingMore
    <3>2. CASE j = Len(txt.declared) /\ m = n
      <4> DEFINE i == Len(txt.out)
      <4>1. i \in 1 .. Len(r.out) /\ r.out[i].vars[m] # Nowhere /\ Depth(r.out, i) <= Len(s)
        BY <2>5, <2>6, <3>2
      <4>2. Depth(r.out, i) \in Nat
        BY <2>5, <2>6, DepthType
      <4> HIDE DEF i
      <4>3. Len(r.declared) - j <= Len(s) - Depth(r.out, i)
        BY <2>5, <2>6, <3>2, <4>1, <4>2
      <4> QED BY <4>1, <4>3 DEF Lasting
    <3> QED BY <2>5, <2>6, <2>3, <3>1, <3>2
  <2>4. Heading(r.out, s)
    BY <2>2, HeadingMore DEF Live
  <2> QED BY <2>3, <2>4 DEF Live
<1> QED BY <1>1, <1>2

\* The lists c are the first of the lists d.
Fewer(d, c) ==
  /\ Len(c) \in Nat /\ Len(c) <= Len(d)
  /\ \A j \in 1 .. Len(c) : c[j] = d[j]

LEMMA LiveFewer ==
  ASSUME NEW o, Len(o) \in Nat, NEW d \in Seq(SUBSET Name), NEW s, Len(s) \in Nat, Live(o, d, s),
         NEW c, Fewer(d, c)
  PROVE  Live(o, c, s)
<1>1. Len(d) \in Nat /\ Len(c) \in Nat /\ Len(c) <= Len(d)
      /\ \A j \in 1 .. Len(c) : j \in 1 .. Len(d) /\ c[j] = d[j]
  BY LenProperties DEF Fewer
<1>2. ASSUME NEW j \in 1 .. Len(c), NEW n \in Name, n \in c[j] PROVE Lasting(o, c, s, j, n)
  <2>1. Lasting(o, d, s, j, n)
    BY <1>1, <1>2 DEF Live
  <2>2. \A k \in 1 .. Len(s) : n \in s[k].fors => k \in 1 .. Len(s) /\ n \in s[k].fors
    OBVIOUS
  <2>3. Len(c) - Len(d) <= Len(s) - Len(s) /\ j \in Int
    BY <1>1
  <2> QED BY <1>1, <2>1, <2>2, <2>3, GrownSelf, LastingMore
<1> QED BY <1>2 DEF Live

\* The source t has one scope more than s, which declares nothing.
Inner(s, t) ==
  /\ Len(s) \in Nat /\ Len(t) = Len(s) + 1
  /\ \A k \in 1 .. Len(s) : t[k] = s[k]
  /\ t[Len(t)].vars = Fresh /\ t[Len(t)].fors = {}

LEMMA InnerOpens ==
  ASSUME NEW s \in Seq(SrcType), NEW e \in SrcType, e.vars = Fresh, e.fors = {}
  PROVE  Inner(s, Append(s, e))
<1> DEFINE t == Append(s, e)
<1>1. Len(t) = Len(s) + 1 /\ t[Len(s) + 1] = e /\ \A k \in 1 .. Len(s) : t[k] = s[k]
  BY AppendProperties
<1> HIDE DEF t
<1>2. Inner(s, t)
  BY <1>1, LenProperties DEF Inner
<1> QED BY <1>2 DEF t

LEMMA InnerBinds ==
  ASSUME NEW s, NEW t, Inner(s, t)
  PROVE  /\ Len(s) \in Nat /\ Len(t) \in Nat /\ Len(t) - Len(s) = 1
         /\ \A k \in 1 .. Len(s) : k \in 1 .. Len(t) /\ t[k] = s[k]
         /\ \A k \in 1 .. Len(t), n \in Name : t[k].vars[n] # Nowhere => k \in 1 .. Len(s) /\ t[k] = s[k]
         /\ \A k \in 1 .. Len(t) : \A n : n \in t[k].fors => k \in 1 .. Len(s) /\ t[k] = s[k]
<1>1. Len(s) \in Nat /\ Len(t) = Len(s) + 1 /\ \A k \in 1 .. Len(s) : t[k] = s[k]
  BY DEF Inner
<1>2. \A n \in Name : t[Len(t)].vars[n] = Nowhere
  BY DEF Inner, Fresh
<1>3. \A n : n \notin t[Len(t)].fors
  BY DEF Inner
<1>4. \A k \in 1 .. Len(t) : k \in 1 .. Len(s) \/ k = Len(t)
  BY <1>1
<1>5. \A k \in 1 .. Len(s) : k \in 1 .. Len(t)
  BY <1>1
<1>6. Len(t) \in Nat /\ Len(t) - Len(s) = 1
  BY <1>1
<1>7. ASSUME NEW k \in 1 .. Len(t), NEW n \in Name, t[k].vars[n] # Nowhere
      PROVE  k \in 1 .. Len(s) /\ t[k] = s[k]
  BY <1>1, <1>2, <1>4, <1>7
<1>8. ASSUME NEW k \in 1 .. Len(t), NEW n, n \in t[k].fors
      PROVE  k \in 1 .. Len(s) /\ t[k] = s[k]
  BY <1>1, <1>3, <1>4, <1>8
<1> QED BY <1>1, <1>5, <1>6, <1>7, <1>8

\* The lists c after pushDepth on the lists d
Pushed(d, c) == c = d \/ c = Append(d, {})

LEMMA PushedLists ==
  ASSUME NEW d \in Seq(SUBSET Name), NEW c, Pushed(d, c)
  PROVE  /\ Len(d) \in Nat /\ Len(c) \in Nat /\ Len(d) <= Len(c) /\ Len(c) - Len(d) <= 1
         /\ \A j \in 1 .. Len(d) : j \in 1 .. Len(c) /\ c[j] = d[j]
         /\ \A j \in 1 .. Len(c) : \A n : n \in c[j] => j \in 1 .. Len(d) /\ n \in d[j]
<1>1. Len(d) \in Nat
  BY LenProperties
<1>2. CASE c = d
  BY <1>1, <1>2
<1>3. CASE c = Append(d, {})
  <2>1. Len(c) = Len(d) + 1 /\ c[Len(d) + 1] = {} /\ \A j \in 1 .. Len(d) : c[j] = d[j]
    BY <1>3, AppendProperties
  <2>2. \A j \in 1 .. Len(c) : j \in 1 .. Len(d) \/ j = Len(d) + 1
    BY <1>1, <2>1
  <2>3. \A j \in 1 .. Len(d) : j \in 1 .. Len(c)
    BY <1>1, <2>1
  <2>4. Len(c) \in Nat /\ Len(d) <= Len(c) /\ Len(c) - Len(d) <= 1
    BY <1>1, <2>1
  <2> QED BY <1>1, <2>1, <2>2, <2>3, <2>4
<1> QED BY <1>2, <1>3 DEF Pushed

LEMMA LiveOpens ==
  ASSUME NEW o, Len(o) \in Nat, NEW d \in Seq(SUBSET Name), NEW s, Live(o, d, s),
         NEW b, Grown(o, b), NEW c, Pushed(d, c), NEW t, Inner(s, t)
  PROVE  Live(b, c, t)
<1>1. /\ Len(s) \in Nat /\ Len(t) \in Nat /\ Len(t) - Len(s) = 1
      /\ \A k \in 1 .. Len(s) : k \in 1 .. Len(t) /\ t[k] = s[k]
      /\ \A k \in 1 .. Len(t), n \in Name : t[k].vars[n] # Nowhere => k \in 1 .. Len(s) /\ t[k] = s[k]
      /\ \A k \in 1 .. Len(t) : \A n : n \in t[k].fors => k \in 1 .. Len(s) /\ t[k] = s[k]
  BY InnerBinds
<1>2. /\ Len(d) \in Nat /\ Len(c) \in Nat /\ Len(d) <= Len(c) /\ Len(c) - Len(d) <= 1
      /\ \A j \in 1 .. Len(c) : \A n : n \in c[j] => j \in 1 .. Len(d) /\ n \in d[j]
  BY PushedLists
<1>3. Heading(o, s)
  BY DEF Live
<1>4. Heading(b, t)
  BY <1>1, <1>3, HeadingMore
<1>5. ASSUME NEW j \in 1 .. Len(c), NEW n \in Name, n \in c[j] PROVE Lasting(b, c, t, j, n)
  <2>1. Lasting(o, d, s, j, n)
    BY <1>2, <1>5 DEF Live
  <2>2. \A k \in 1 .. Len(s) : n \in s[k].fors => k \in 1 .. Len(t) /\ n \in t[k].fors
    BY <1>1
  <2>3. Len(c) - Len(d) <= Len(t) - Len(s) /\ j \in Int
    BY <1>1, <1>2
  <2> QED BY <1>1, <1>2, <2>1, <2>2, <2>3, LastingMore
<1> QED BY <1>4, <1>5 DEF Live

\* popDepth with the innermost scope of the source
LEMMA LiveCloses ==
  ASSUME NEW o \in Seq(OutType), NEW b, NEW s \in Seq(SrcType), NEW t, Drops(o, b, s, t),
         NEW d \in Seq(SUBSET Name), Live(o, d, s), NEW c, c = PopDepth(d)
  PROVE  Live(b, c, t)
<1>1. /\ Len(b) \in 1 .. Len(o) - 1 /\ Len(s) = Len(t) + 1 /\ Len(o) \in Nat /\ Len(s) \in Nat
      /\ \A i \in 1 .. Len(b) : b[i] = o[i] /\ Depth(b, i) = Depth(o, i)
      /\ \A i \in 1 .. Len(o) : i > Len(b) => Depth(o, i) = Len(s)
      /\ \A k \in 1 .. Len(t) : t[k] = s[k]
  BY LenProperties DEF Drops
<1>2. Len(t) \in Nat /\ Len(t) = Len(s) - 1
  <2>1. b \in Seq(OutType) /\ Nest(b, t)
    BY DEF Drops
  <2>2. Len(t) \in Nat
    BY <2>1, NestFacts
  <2> QED BY <1>1, <2>2
<1>3. \A i \in 1 .. Len(o) : i \in 1 .. Len(b) \/ i > Len(b)
  BY <1>1
<1>4. \A k \in 1 .. Len(s) : k \in 1 .. Len(t) \/ k = Len(s)
  BY <1>1, <1>2
<1>5. \A k \in 1 .. Len(t) : k \in 1 .. Len(s)
  BY <1>1, <1>2
<1>6. /\ Len(d) \in Nat /\ Len(c) \in Nat
      /\ \A j \in 1 .. Len(c) : j \in 1 .. Len(d) /\ c[j] = d[j] /\ Len(c) = Len(d) - 1
  <2>1. Len(d) \in Nat
    BY LenProperties
  <2>2. CASE d = <<>>
    <3>1. c = <<>>
      BY <2>2 DEF PopDepth
    <3>2. Len(c) = 0
      BY <3>1, EmptySeq
    <3> QED BY <2>1, <3>2
  <2>3. CASE d # <<>>
    <3>1. c = Front(d)
      BY <2>3 DEF PopDepth
    <3>2. Len(c) = Len(d) - 1 /\ \A j \in 1 .. Len(d) - 1 : c[j] = d[j]
      BY <2>3, <3>1, FrontOf
    <3>3. Len(d) # 0
      BY <2>3, EmptySeq
    <3> QED BY <2>1, <3>2, <3>3
  <2> QED BY <2>2, <2>3
<1>7. ASSUME NEW j \in 1 .. Len(c), NEW n \in Name, n \in c[j] PROVE Lasting(b, c, t, j, n)
  <2>1. Lasting(o, d, s, j, n)
    BY <1>6, <1>7 DEF Live
  <2>2. /\ \A x \in Int : Len(d) - j <= Len(s) - x => x # Len(s) /\ Len(c) - j <= Len(t) - x
        /\ Len(s) \in Int
    BY <1>1, <1>2, <1>6
  <2>3. CASE \E i \in 1 .. Len(o) : o[i].vars[n] # Nowhere /\ Len(d) - j <= Len(s) - Depth(o, i)
    <3>1. PICK i \in 1 .. Len(o) : o[i].vars[n] # Nowhere /\ Len(d) - j <= Len(s) - Depth(o, i)
      BY <2>3
    <3>2. i \in Nat
      OBVIOUS
    <3>3. Depth(o, i) \in Int
      BY <3>2, DepthType
    <3>4. Depth(o, i) # Len(s) /\ Len(c) - j <= Len(t) - Depth(o, i)
      BY <2>2, <3>1, <3>3
    <3>5. i \in 1 .. Len(b)
      BY <1>1, <1>3, <3>4
    <3> QED BY <1>1, <3>1, <3>4, <3>5 DEF Lasting
  <2>4. CASE \E k \in 1 .. Len(s) : n \in s[k].fors /\ Len(d) - j <= Len(s) - k
    <3>1. PICK k \in 1 .. Len(s) : n \in s[k].fors /\ Len(d) - j <= Len(s) - k
      BY <2>4
    <3>2. k \in Int
      OBVIOUS
    <3>3. k # Len(s) /\ Len(c) - j <= Len(t) - k
      BY <2>2, <3>1, <3>2
    <3>4. k \in 1 .. Len(t) /\ n \in t[k].fors
      BY <1>1, <1>4, <3>1, <3>3
    <3> QED BY <3>3, <3>4 DEF Lasting
  <2> QED BY <2>1, <2>3, <2>4 DEF Lasting
<1>8. ASSUME NEW k \in 1 .. Len(t), NEW h \in 1 .. Len(t), NEW n \in Name,
             n \in t[k].fors, t[h].vars[n] # Nowhere
      PROVE  h = k + 1 /\ \E i \in 1 .. Len(b) : b[i].vars[n] # Nowhere /\ Depth(b, i) = h
  <2>1. k \in 1 .. Len(s) /\ h \in 1 .. Len(s) /\ n \in s[k].fors /\ s[h].vars[n] # Nowhere
    BY <1>1, <1>5, <1>8
  <2>2. h = k + 1 /\ \E i \in 1 .. Len(o) : o[i].vars[n] # Nowhere /\ Depth(o, i) = h
    BY <2>1 DEF Live, Heading
  <2>3. PICK i \in 1 .. Len(o) : o[i].vars[n] # Nowhere /\ Depth(o, i) = h
    BY <2>2
  <2>4. h # Len(s)
    BY <1>1, <1>2
  <2>5. i \in 1 .. Len(b)
    BY <1>1, <1>3, <2>3, <2>4
  <2> QED BY <1>1, <2>2, <2>3, <2>5
<1>9. Heading(b, t)
  BY <1>8 DEF Heading
<1> QED BY <1>7, <1>9 DEF Live

\* A for-loop that declares n opens a scope t in the source s.
ForScope(s, t, n, v) ==
  /\ Len(t) = Len(s) + 1
  /\ \A k \in 1 .. Len(s) :
       /\ t[k].vars = s[k].vars /\ t[k].do = s[k].do
       /\ t[k].fors = IF k = Len(s) THEN s[k].fors \cup {n} ELSE s[k].fors
  /\ ~t[Len(s) + 1].do /\ t[Len(s) + 1].fors = {}
  /\ \A m \in Name : t[Len(s) + 1].vars[m] = IF m = n THEN v ELSE Nowhere

\* A for-loop opens: its name, new to the source, is in the list around it, and its
\* header binds it.
LEMMA LiveFor ==
  ASSUME NEW o, Len(o) \in Nat, NEW d \in Seq(SUBSET Name), NEW s \in Seq(SrcType), s # <<>>, Live(o, d, s),
         NEW n \in Name, \A k \in 1 .. Len(s) : s[k].vars[n] = Nowhere /\ n \notin s[k].fors,
         NEW b, Grown(o, b), \E i \in 1 .. Len(b) : b[i].vars[n] # Nowhere /\ Depth(b, i) = Len(s) + 1,
         NEW c, Len(c) \in Nat, Len(c) - Len(d) <= 1,
         \A j \in 1 .. Len(c), m \in Name : m \in c[j] =>
           (j \in 1 .. Len(d) /\ m \in d[j]) \/ (m = n /\ Len(c) - j <= 1),
         NEW t, NEW v, ForScope(s, t, n, v)
  PROVE  Live(b, c, t)
<1> USE DEF ForScope
<1>1. Len(d) \in Nat /\ Len(s) \in Nat \ {0} /\ Len(t) \in Nat /\ Len(t) - Len(s) = 1
      /\ Len(s) \in 1 .. Len(s) /\ Len(s) \in 1 .. Len(t)
      /\ \A k \in 1 .. Len(s) : k \in 1 .. Len(t)
  BY EmptySeq, LenProperties
<1>2. \A k \in 1 .. Len(t) : k \in 1 .. Len(s) \/ k = Len(s) + 1
  BY <1>1
<1>3. ASSUME NEW j \in 1 .. Len(c), NEW m \in Name, m \in c[j] PROVE Lasting(b, c, t, j, m)
  <2>1. CASE j \in 1 .. Len(d) /\ m \in d[j]
    <3>1. Lasting(o, d, s, j, m)
      BY <2>1 DEF Live
    <3>2. \A k \in 1 .. Len(s) : m \in s[k].fors => k \in 1 .. Len(t) /\ m \in t[k].fors
      BY <1>1
    <3>3. Len(c) - Len(d) <= Len(t) - Len(s) /\ j \in Int
      BY <1>1
    <3> QED BY <1>1, <3>1, <3>2, <3>3, LastingMore
  <2>2. CASE m = n /\ Len(c) - j <= 1
    <3>1. Len(s) \in 1 .. Len(t) /\ m \in t[Len(s)].fors /\ Len(c) - j <= Len(t) - Len(s)
      BY <1>1, <2>2
    <3> QED BY <3>1 DEF Lasting
  <2> QED BY <1>3, <2>1, <2>2
<1>4. ASSUME NEW k \in 1 .. Len(t), NEW h \in 1 .. Len(t), NEW m \in Name,
             m \in t[k].fors, t[h].vars[m] # Nowhere
      PROVE  h = k + 1 /\ \E i \in 1 .. Len(b) : b[i].vars[m] # Nowhere /\ Depth(b, i) = h
  <2>1. k \in 1 .. Len(s)
    BY <1>2, <1>4
  <2>2. CASE m = n
    <3>1. h = Len(s) + 1
      <4>1. h \notin 1 .. Len(s)
        BY <1>4, <2>2
      <4> QED BY <1>2, <4>1
    <3>2. k = Len(s)
      <4>1. n \notin s[k].fors /\ t[k].fors = IF k = Len(s) THEN s[k].fors \cup {n} ELSE s[k].fors
        BY <2>1
      <4> QED BY <1>4, <2>2, <4>1
    <3> QED BY <2>2, <3>1, <3>2
  <2>3. CASE m # n
    <3>1. h \in 1 .. Len(s) /\ s[h].vars[m] # Nowhere
      BY <1>2, <1>4, <2>3
    <3>2. m \in s[k].fors
      <4>1. t[k].fors = IF k = Len(s) THEN s[k].fors \cup {n} ELSE s[k].fors
        BY <2>1
      <4> QED BY <1>4, <2>3, <4>1
    <3>3. h = k + 1 /\ \E i \in 1 .. Len(o) : o[i].vars[m] # Nowhere /\ Depth(o, i) = h
      BY <2>1, <3>1, <3>2 DEF Live, Heading
    <3>4. PICK i \in 1 .. Len(o) : o[i].vars[m] # Nowhere /\ Depth(o, i) = h
      BY <3>3
    <3>5. PICK e \in 1 .. Len(b) : b[e].vars[m] # Nowhere /\ Depth(b, e) = Depth(o, i)
      BY <3>4 DEF Grown
    <3> QED BY <3>3, <3>4, <3>5
  <2> QED BY <2>2, <2>3
<1>5. Heading(b, t)
  BY <1>4 DEF Heading
<1> QED BY <1>3, <1>5 DEF Live

\* A name without another variable is bound nowhere and in no list.
Free(o, d, s, n) ==
  /\ \A k \in 1 .. Len(s) : s[k].vars[n] = Nowhere /\ n \notin s[k].fors
  /\ \A i \in 1 .. Len(o) : o[i].vars[n] = Nowhere
  /\ ~IsVarDeclared(d, n)

LEMMA NewIsFree ==
  ASSUME NEW o, NEW d \in Seq(SUBSET Name), NEW s, NEW n \in Name,
         \A k \in 1 .. Len(s) : s[k].vars[n] = Nowhere /\ n \notin s[k].fors,
         Own(o, s)
  PROVE  /\ \A i \in 1 .. Len(o) : o[i].vars[n] = Nowhere
         /\ Live(o, d, s) => Free(o, d, s, n)
<1>1. ASSUME NEW i \in 1 .. Len(o) PROVE o[i].vars[n] = Nowhere
  BY DEF Own
<1>2. ASSUME Live(o, d, s), IsVarDeclared(d, n) PROVE FALSE
  <2>1. PICK j \in DOMAIN d : n \in d[j]
    BY <1>2 DEF IsVarDeclared
  <2>2. j \in 1 .. Len(d)
    BY <2>1, LenProperties
  <2>3. Lasting(o, d, s, j, n)
    BY <1>2, <2>1, <2>2 DEF Live
  <2> QED BY <1>1, <2>3 DEF Lasting
<1> QED BY <1>1, <1>2 DEF Free

LEMMA NameUnbound ==
  ASSUME NEW s \in Seq(SrcType), s = src, NEW n \in Name
  PROVE  /\ "shadow" \notin NameFeatures(n) => \A k \in 1 .. Len(s) : s[k].vars[n] = Nowhere
         /\ "forReuse" \notin NameFeatures(n) => \A k \in 1 .. Len(s) : n \notin s[k].fors
<1>1. Len(s) \in Nat /\ DOMAIN s = 1 .. Len(s)
  BY LenProperties
<1>2. ASSUME "shadow" \notin NameFeatures(n) PROVE \A k \in 1 .. Len(s) : s[k].vars[n] = Nowhere
  <2>1. LookUp(s, n) = Nowhere
    BY <1>2 DEF NameFeatures
  <2> QED BY <1>1, <2>1, LookUpBinds
<1>3. ASSUME "forReuse" \notin NameFeatures(n) PROVE \A k \in 1 .. Len(s) : n \notin s[k].fors
  BY <1>1, <1>3 DEF NameFeatures
<1> QED BY <1>2, <1>3

-----------------------------------------------------------------------------
(* The errors of one visit.                                                *)

\* A variable in scope is met: what may be wrong has its explanation in g.
LEMMA KnownExplained ==
  ASSUME NEW txt \in TextType, NEW s \in Seq(SrcType), NEW f,
         Settled(txt.out, txt.declared, s, txt.seen, f),
         NEW v \in Var, NEW n \in Name, LookUp(s, n) = v, NEW place, NEW g, f \subseteq g,
         place = "inside" /\ v \notin txt.seen => "late" \in g,
         txt.declared = <<>> => "deep" \in g, \A e \in txt.errors : Explanations(e) \cap g # {},
         NEW e \in VisitTemporary(txt, v, n, place).errors
  PROVE  Explanations(e) \cap g # {}
<1> DEFINE o == txt.out
           d == txt.declared
<1>1. Len(s) \in Nat /\ DOMAIN s = 1 .. Len(s)
  BY LenProperties
<1>2. Len(o) \in Nat /\ DOMAIN o = 1 .. Len(o) /\ DOMAIN d = 1 .. Len(d) /\ Len(d) \in Nat
  BY LenProperties DEF TextType
<1>3. v # Nowhere
  BY ScopesAssumption DEF Var, Nowhere
<1>4. PICK h \in 1 .. Len(s) : s[h].vars[n] = v
  BY <1>1, <1>3, LookUpBinds
<1>5. /\ LookUp(o, n) = Nowhere => \A i \in 1 .. Len(o) : o[i].vars[n] = Nowhere
      /\ LookUp(o, n) # Nowhere => \E i \in 1 .. Len(o) : o[i].vars[n] = LookUp(o, n)
  BY <1>2, LookUpBinds
<1>6. \/ e \in txt.errors
      \/ e = "overflow" /\ d = <<>>
      \/ e = "undeclared" /\ IsVarDeclared(d, n) /\ LookUp(o, n) = Nowhere
      \/ e = "captured" /\ LookUp(o, n) # Nowhere /\ LookUp(o, n) # v
      \/ e = "split" /\ ~IsVarDeclared(d, n) /\ v \in txt.seen
      \/ e = "misplaced" /\ ~IsVarDeclared(d, n) /\ place = "inside"
  BY VisitFaults
<1>7. Settled(o, d, s, txt.seen, f)
  OBVIOUS
<1> HIDE DEF o, d
<1>8. CASE e = "overflow" /\ d = <<>>
  BY <1>8 DEF Explanations, d
<1>9. CASE e = "undeclared" /\ IsVarDeclared(d, n) /\ LookUp(o, n) = Nowhere
  <2> SUFFICES ASSUME g \cap {"forReuse", "late", "shadow"} = {} PROVE FALSE
    BY <1>9 DEF Explanations
  <2>1. Live(o, d, s)
    BY <1>7 DEF Settled
  <2>2. PICK j \in 1 .. Len(d) : n \in d[j]
    BY <1>2, <1>9 DEF IsVarDeclared
  <2>3. Lasting(o, d, s, j, n)
    BY <2>1, <2>2 DEF Live
  <2>4. PICK k \in 1 .. Len(s) : n \in s[k].fors
    BY <1>5, <1>9, <2>3 DEF Lasting
  <2>5. \E i \in 1 .. Len(o) : o[i].vars[n] # Nowhere
    BY <1>3, <1>4, <2>1, <2>4 DEF Live, Heading
  <2> QED BY <1>5, <1>9, <2>5
<1>10. CASE e = "captured" /\ LookUp(o, n) # Nowhere /\ LookUp(o, n) # v
  <2> SUFFICES ASSUME "shadow" \notin g PROVE FALSE
    BY <1>10 DEF Explanations
  <2>1. Single(s) /\ Own(o, s)
    BY <1>7 DEF Settled
  <2>2. PICK i \in 1 .. Len(o) : o[i].vars[n] = LookUp(o, n)
    BY <1>5, <1>10
  <2>3. PICK k \in 1 .. Len(s) : s[k].vars[n] = o[i].vars[n]
    BY <1>10, <2>1, <2>2 DEF Own
  <2>4. k = h
    BY <1>3, <1>4, <1>10, <2>1, <2>2, <2>3 DEF Single
  <2> QED BY <1>4, <1>10, <2>2, <2>3, <2>4
<1>11. ASSUME ~IsVarDeclared(d, n), v \in txt.seen
       PROVE  g \cap {"late", "multi", "deep"} # {}
  <2> SUFFICES ASSUME g \cap {"late", "multi", "deep"} = {} PROVE FALSE
    OBVIOUS
  <2>1. Kept(d, s, txt.seen)
    BY <1>7 DEF Settled
  <2>2. PICK j \in 1 .. h : j <= Len(d) /\ n \in d[j]
    BY <1>4, <1>11, <2>1 DEF Kept
  <2>3. j \in 1 .. Len(d)
    BY <1>2, <2>2
  <2> QED BY <1>2, <1>11, <2>2, <2>3 DEF IsVarDeclared
<1>12. CASE e = "split" /\ ~IsVarDeclared(d, n) /\ v \in txt.seen
  BY <1>11, <1>12 DEF Explanations
<1>13. CASE e = "misplaced" /\ ~IsVarDeclared(d, n) /\ place = "inside"
  BY <1>11, <1>13 DEF Explanations
<1>14. CASE e \in txt.errors
  BY <1>14
<1> QED BY <1>6, <1>8, <1>9, <1>10, <1>12, <1>13, <1>14

\* What a name without another variable finds in the text.
Vacant(o, d, n, g) ==
  /\ "shadow" \notin g => \A i \in 1 .. Len(o) : o[i].vars[n] = Nowhere
  /\ g \cap {"forReuse", "late", "shadow"} = {} => ~IsVarDeclared(d, n)

\* A new variable is met.
LEMMA NewExplained ==
  ASSUME NEW txt \in TextType, txt.errors = {}, NEW v \in Var, NEW n \in Name, NEW g,
         v \notin txt.seen, Vacant(txt.out, txt.declared, n, g), txt.declared = <<>> => "deep" \in g,
         NEW e \in VisitTemporary(txt, v, n, "statement").errors
  PROVE  Explanations(e) \cap g # {}
<1> DEFINE o == txt.out
           d == txt.declared
<1>1. Len(o) \in Nat /\ DOMAIN o = 1 .. Len(o)
  BY LenProperties DEF TextType
<1>2. LookUp(o, n) # Nowhere => \E i \in 1 .. Len(o) : o[i].vars[n] = LookUp(o, n)
  BY <1>1, LookUpBinds
<1>3. \/ e = "overflow" /\ d = <<>>
      \/ e = "undeclared" /\ IsVarDeclared(d, n)
      \/ e = "captured" /\ LookUp(o, n) # Nowhere
  BY VisitFaults
<1>4. Vacant(o, d, n, g)
  OBVIOUS
<1> HIDE DEF o, d
<1>5. CASE e = "overflow" /\ d = <<>>
  BY <1>5 DEF Explanations, d
<1>6. CASE e = "undeclared" /\ IsVarDeclared(d, n)
  BY <1>4, <1>6 DEF Explanations, Vacant
<1>7. CASE e = "captured" /\ LookUp(o, n) # Nowhere
  BY <1>2, <1>4, <1>7 DEF Explanations, Vacant
<1> QED BY <1>3, <1>5, <1>6, <1>7

LEMMA VacantNow ==
  ASSUME NEW o, NEW d \in Seq(SUBSET Name), NEW s \in Seq(SrcType), s = src, NEW n \in Name,
         NEW x, NEW f, NEW g, Settled(o, d, s, x, f), f \subseteq g, NameFeatures(n) \subseteq g
  PROVE  Vacant(o, d, n, g)
<1>1. ASSUME "shadow" \notin g PROVE \A i \in 1 .. Len(o) : o[i].vars[n] = Nowhere
  <2>1. Own(o, s) /\ \A k \in 1 .. Len(s) : s[k].vars[n] = Nowhere
    BY <1>1, NameUnbound DEF Settled
  <2> QED BY <2>1 DEF Own
<1>2. ASSUME g \cap {"forReuse", "late", "shadow"} = {} PROVE ~IsVarDeclared(d, n)
  <2>1. Own(o, s) /\ Live(o, d, s)
    BY <1>2 DEF Settled
  <2>2. \A k \in 1 .. Len(s) : s[k].vars[n] = Nowhere /\ n \notin s[k].fors
    BY <1>2, NameUnbound
  <2> QED BY <2>1, <2>2, NewIsFree DEF Free
<1> QED BY <1>1, <1>2 DEF Vacant

LEMMA VacantOpens ==
  ASSUME NEW o \in Seq(OutType), o # <<>>, NEW e \in OutType, e.vars = Fresh,
         NEW d \in Seq(SUBSET Name), NEW c \in Seq(SUBSET Name), Pushed(d, c), NEW n \in Name, NEW g,
         Vacant(o, d, n, g)
  PROVE  Vacant(Append(o, e), c, n, g)
<1> DEFINE a == Append(o, e)
<1>1. /\ \A i \in 1 .. Len(a) : a[i].vars[n] # Nowhere => i \in 1 .. Len(o)
      /\ \A i \in 1 .. Len(o) : a[i] = o[i]
  BY FreshScope
<1>2. DOMAIN c = 1 .. Len(c) /\ DOMAIN d = 1 .. Len(d)
  BY LenProperties
<1>3. IsVarDeclared(c, n) => IsVarDeclared(d, n)
  BY <1>2, PushedLists DEF IsVarDeclared
<1> HIDE DEF a
<1>4. Vacant(a, c, n, g)
  BY <1>1, <1>3 DEF Vacant
<1> QED BY <1>4 DEF a

LEMMA VacantVisit ==
  ASSUME NEW txt \in TextType, txt.out # <<>>, NEW v \in Var, NEW m \in Name, NEW r \in TextType,
         Leaves(txt, r) \/ Declares(txt, r, v, m),
         NEW n \in Name, n # m, NEW g, Vacant(txt.out, txt.declared, n, g)
  PROVE  Vacant(r.out, r.declared, n, g)
<1>1. CASE Leaves(txt, r)
  BY <1>1 DEF Leaves
<1>2. CASE Declares(txt, r, v, m)
  <2>1. Met(txt, r, v, m)
    BY <1>2, VisitBinds
  <2>2. \A i \in 1 .. Len(r.out) : r.out[i].vars[n] = txt.out[i].vars[n] /\ i \in 1 .. Len(txt.out)
    BY <2>1 DEF Met
  <2>3. DOMAIN r.declared = 1 .. Len(r.declared) /\ DOMAIN txt.declared = 1 .. Len(txt.declared)
    BY LenProperties DEF TextType
  <2>4. Len(r.declared) = Len(txt.declared)
        /\ \A j \in 1 .. Len(txt.declared) : n \in r.declared[j] => n \in txt.declared[j]
    BY <2>1 DEF Met
  <2>5. IsVarDeclared(r.declared, n) => IsVarDeclared(txt.declared, n)
    BY <2>3, <2>4 DEF IsVarDeclared
  <2> QED BY <2>2, <2>5 DEF Vacant
<1> QED BY <1>1, <1>2

-----------------------------------------------------------------------------
(* The errors of one step.                                                 *)

\* A loop header is written: the source and the lists are as they were.
LEMMA SettledOpens ==
  ASSUME NEW o \in Seq(OutType), o # <<>>, NEW e \in OutType, e.vars = Fresh,
         NEW d \in Seq(SUBSET Name), NEW s, Len(s) \in Nat, NEW x, NEW f, Settled(o, d, s, x, f)
  PROVE  Settled(Append(o, e), d, s, x, f)
<1> DEFINE a == Append(o, e)
<1>1. Grown(o, a) /\ Len(o) \in Nat /\ Len(d) \in Nat
  BY GrownOpens, LenProperties
<1>2. Own(o, s) => Own(a, s)
  BY OwnOpens
<1> HIDE DEF a
<1>3. ASSUME Live(o, d, s) PROVE Live(a, d, s)
  <2>1. Heading(o, s) /\ \A k, h \in 1 .. Len(s), n \in Name : n \in s[k].fors /\ s[h].vars[n] # Nowhere =>
           /\ k \in 1 .. Len(s) /\ n \in s[k].fors
           /\ h \in 1 .. Len(s) /\ s[h].vars[n] # Nowhere
    BY <1>3 DEF Live
  <2>2. Heading(a, s)
    BY <1>1, <2>1, HeadingMore
  <2>3. ASSUME NEW j \in 1 .. Len(d), NEW n \in Name, n \in d[j] PROVE Lasting(a, d, s, j, n)
    <3>1. Lasting(o, d, s, j, n)
      BY <1>3, <2>3 DEF Live
    <3>2. \A k \in 1 .. Len(s) : n \in s[k].fors => k \in 1 .. Len(s) /\ n \in s[k].fors
      OBVIOUS
    <3>3. j \in Int /\ Len(d) - Len(d) <= Len(s) - Len(s)
      BY <1>1
    <3> QED BY <1>1, <3>1, <3>2, <3>3, LastingMore
  <2> QED BY <2>2, <2>3 DEF Live
<1>4. Settled(a, d, s, x, f)
  BY <1>2, <1>3 DEF Settled
<1> QED BY <1>4 DEF a

\* What each step starts from, when the text is right so far.
LEMMA SoundNow ==
  ASSUME Typed, MirrorInv, SoundInv, errors = {}
  PROVE  /\ out \in Seq(OutType) /\ out # <<>> /\ declared \in Seq(SUBSET Name)
         /\ Text \in TextType /\ Text.out = out /\ Text.declared = declared /\ Text.seen = seen
         /\ Text.errors = {}
         /\ src \in Seq(SrcType) /\ src # <<>> /\ Len(src) \in Nat \ {0} /\ Len(name) \in Nat
         /\ Nest(out, src) /\ Known(src, Len(name), seen)
         /\ Settled(out, declared, src, seen, features)
         /\ "deep" \notin features => Len(declared) = Len(src)
         /\ declared = <<>> => "deep" \in features
<1>1. out \in Seq(OutType) /\ declared \in Seq(SUBSET Name) /\ src # <<>>
  BY DEF Typed, TypeOK, OutType
<1>2. Nest(out, src) /\ Known(src, Len(name), seen) /\ Settled(out, declared, src, seen, features)
  BY DEF SoundInv, Sound
<1>3. out # <<>>
  BY <1>2 DEF Nest
<1>4. Text \in TextType /\ Text.out = out /\ Text.declared = declared /\ Text.seen = seen /\ Text.errors = {}
  BY TextTypes DEF Text
<1>5. src \in Seq(SrcType) /\ Len(src) \in Nat \ {0} /\ Len(name) \in Nat
  BY SourceTypes, LenProperties
<1>6. "deep" \notin features => Len(declared) = Len(src)
  BY MirrorNow
<1>7. ASSUME declared = <<>> PROVE "deep" \in features
  <2>1. Len(declared) = 0
    BY <1>7, EmptySeq
  <2> QED BY <1>5, <1>6, <2>1
<1> QED BY <1>1, <1>2, <1>3, <1>4, <1>5, <1>6, <1>7

LEMMA NextExplained ==
  ASSUME NEW txt, Writes(txt), \A e \in txt.errors : Explanations(e) \cap features' # {}
  PROVE  ErrorsExplained'
BY DEF Writes, ErrorsExplained

\* A visit of a variable in scope, with nothing before it
LEMMA VisitExplained ==
  ASSUME Typed, MirrorInv, SoundInv, errors = {}, NEW v \in DOMAIN name, InSource(v),
         NEW place, NEW f, Meets(f), UseFeatures(v, place) \subseteq f,
         NEW e \in VisitTemporary(Text, v, name[v], place).errors
  PROVE  Explanations(e) \cap features' # {}
<1>1. /\ Text \in TextType /\ Text.out = out /\ Text.declared = declared /\ Text.seen = seen
      /\ Text.errors = {} /\ src \in Seq(SrcType)
      /\ Settled(out, declared, src, seen, features)
      /\ declared = <<>> => "deep" \in features
  BY SoundNow
<1>2. v \in Var /\ name[v] \in Name /\ LookUp(src, name[v]) = v
  BY SourceTypes DEF InSource
<1>3. features \subseteq features' /\ f \subseteq features'
  BY FeaturesGrow
<1>4. place = "inside" /\ v \notin seen => "late" \in features'
  BY <1>3 DEF UseFeatures
<1>5. /\ Settled(Text.out, Text.declared, src, Text.seen, features)
      /\ place = "inside" /\ v \notin Text.seen => "late" \in features'
      /\ Text.declared = <<>> => "deep" \in features'
  BY <1>1, <1>3, <1>4
<1> QED BY <1>1, <1>2, <1>3, <1>5, KnownExplained

LEMMA UsesExplained ==
  ASSUME Typed, MirrorInv, SoundInv, NEW v \in DOMAIN name, Assign(v) \/ Use(v) PROVE ErrorsExplained'
<1>1. PICK place : errors = {} /\ InSource(v) /\ Meets(UseFeatures(v, place))
                   /\ Writes(VisitTemporary(Text, v, name[v], place))
  BY DEF Assign, Use, Reads
<1> DEFINE txt == VisitTemporary(Text, v, name[v], place)
<1>2. \A e \in txt.errors : Explanations(e) \cap features' # {}
  BY <1>1, VisitExplained
<1>3. Writes(txt)
  BY <1>1
<1> HIDE DEF txt
<1> QED BY <1>2, <1>3, NextExplained

LEMMA HeadedExplained ==
  ASSUME Typed, MirrorInv, SoundInv, NEW v \in DOMAIN name, Headed(v) PROVE ErrorsExplained'
<1> DEFINE one == VisitTemporary(Text, v, name[v], "inside")
           txt == Opened(one)
           f   == Deep \cup UseFeatures(v, "inside")
<1>1. errors = {} /\ InSource(v) /\ Meets(f) /\ Writes(txt)
  BY DEF Headed, Reads
<1>2. UseFeatures(v, "inside") \subseteq f
  OBVIOUS
<1> HIDE DEF f
<1>3. \A e \in one.errors : Explanations(e) \cap features' # {}
  BY <1>1, <1>2, VisitExplained
<1>4. one \in TextType
  BY SourceTypes, TextTypes, VisitSteps
<1> HIDE DEF one
<1>5. txt.errors = one.errors
  BY <1>4, OpenedSteps
<1> HIDE DEF txt
<1> QED BY <1>1, <1>3, <1>5, NextExplained

LEMMA HeaderNow ==
  ASSUME Typed, MirrorInv, SoundInv, errors = {}
  PROVE  /\ InHeader \in TextType /\ InHeader.out = Append(out, Header(Len(declared)))
         /\ Header(Len(declared)) \in OutType /\ Header(Len(declared)).vars = Fresh
         /\ Header(Len(declared)).kind = "for"
         /\ InHeader.declared = declared /\ InHeader.seen = seen /\ InHeader.errors = {}
         /\ Settled(InHeader.out, declared, src, seen, features)
<1>1. /\ out \in Seq(OutType) /\ out # <<>> /\ declared \in Seq(SUBSET Name)
      /\ Len(src) \in Nat /\ Settled(out, declared, src, seen, features)
  BY SoundNow
<1>2. /\ InHeader \in TextType /\ InHeader.out = Append(out, Header(Len(declared)))
      /\ InHeader.declared = declared /\ InHeader.seen = seen /\ InHeader.errors = {}
  BY HeaderTypes
<1>3. Header(Len(declared)) \in OutType
  BY <1>1, BraceTypes, LenProperties
<1>4. Header(Len(declared)).vars = Fresh /\ Header(Len(declared)).kind = "for"
  BY DEF Header
<1>5. Settled(Append(out, Header(Len(declared))), declared, src, seen, features)
  BY <1>1, <1>3, <1>4, SettledOpens
<1> QED BY <1>2, <1>3, <1>4, <1>5

LEMMA OverExplained ==
  ASSUME Typed, MirrorInv, SoundInv, NEW v \in DOMAIN name, OpenForOver(v) PROVE ErrorsExplained'
<1> DEFINE one == VisitTemporary(InHeader, v, name[v], "statement")
           txt == Opened(one)
           f   == Deep \cup UseFeatures(v, "header")
<1>1. errors = {} /\ InSource(v) /\ Meets(f) /\ Writes(txt)
  BY DEF OpenForOver, Reads
<1>2. features \subseteq features'
  BY <1>1, FeaturesGrow
<1>3. /\ InHeader \in TextType /\ InHeader.declared = declared /\ InHeader.seen = seen
      /\ InHeader.errors = {} /\ Settled(InHeader.out, declared, src, seen, features)
  BY <1>1, HeaderNow
<1>4. src \in Seq(SrcType) /\ (declared = <<>> => "deep" \in features)
  BY <1>1, SoundNow
<1>5. v \in Var /\ name[v] \in Name /\ LookUp(src, name[v]) = v
  BY <1>1, SourceTypes DEF InSource
<1>6. one \in TextType
  BY <1>3, <1>5, VisitSteps
<1>7. /\ Settled(InHeader.out, InHeader.declared, src, InHeader.seen, features)
      /\ InHeader.declared = <<>> => "deep" \in features'
      /\ "statement" = "inside" /\ v \notin InHeader.seen => "late" \in features'
  BY <1>2, <1>3, <1>4
<1>8. \A e \in one.errors : Explanations(e) \cap features' # {}
  BY <1>2, <1>3, <1>4, <1>5, <1>7, KnownExplained
<1> HIDE DEF one
<1>9. txt.errors = one.errors
  BY <1>6, OpenedSteps
<1> HIDE DEF txt
<1> QED BY <1>1, <1>8, <1>9, NextExplained

LEMMA PoppedLists ==
  ASSUME NEW d \in Seq(SUBSET Name)
  PROVE  /\ PopDepth(d) \in Seq(SUBSET Name)
         /\ d # <<>> => Len(PopDepth(d)) = Len(d) - 1
         /\ \A j \in 1 .. Len(d) - 1 : PopDepth(d)[j] = d[j]
<1>1. Len(<<>>) = 0 /\ <<>> \in Seq(SUBSET Name)
  BY EmptySeq
<1>2. \A j \in 1 .. 0 - 1 : FALSE
  OBVIOUS
<1>3. CASE d = <<>>
  BY <1>1, <1>2, <1>3 DEF PopDepth
<1>4. CASE d # <<>>
  BY <1>4, FrontOf DEF PopDepth
<1> QED BY <1>3, <1>4

\* The innermost scope of the source closes and b is what is left of the text.
LEMMA SoundCloses ==
  ASSUME Typed, MirrorInv, SoundInv, errors = {}, NEW t, t = Front(src), NEW b, Drops(out, b, src, t)
  PROVE  /\ Sound(b, PopDepth(declared), t, Len(name), seen, features)
         /\ PopDepth(declared) = <<>> => "deep" \in features
<1> DEFINE d == declared
           c == PopDepth(d)
<1>1. /\ out \in Seq(OutType) /\ d \in Seq(SUBSET Name) /\ src \in Seq(SrcType) /\ Len(src) \in Nat \ {0}
      /\ Known(src, Len(name), seen) /\ Settled(out, d, src, seen, features)
      /\ "deep" \notin features => Len(d) = Len(src)
  BY SoundNow
<1>2. /\ b \in Seq(OutType) /\ Nest(b, t) /\ Len(src) = Len(t) + 1 /\ \A k \in 1 .. Len(t) : t[k] = src[k]
  BY DEF Drops
<1>3. Len(t) \in Nat \ {0}
  BY <1>2, NestFacts
<1>4. \A k \in 1 .. Len(t) : k \in 1 .. Len(src)
  BY <1>2, <1>3
<1>5. Holds(t, src)
  BY <1>2, <1>4 DEF Holds
<1>6. Known(t, Len(name), seen)
  BY <1>1, <1>5, KnownLess
<1>7. ASSUME "deep" \notin features
      PROVE  /\ Len(c) = Len(t) /\ c # <<>>
             /\ \A j \in 1 .. Len(t) : c[j] = d[j]
  <2>1. Len(d) = Len(t) + 1
    BY <1>1, <1>2, <1>7
  <2>2. d # <<>>
    BY <1>3, <2>1, EmptySeq
  <2>3. Len(c) = Len(d) - 1 /\ \A j \in 1 .. Len(d) - 1 : c[j] = d[j]
    BY <1>1, <2>2, PoppedLists
  <2>4. Len(d) - 1 = Len(t)
    BY <1>3, <2>1
  <2>5. c # <<>>
    BY <1>3, <2>3, <2>4, EmptySeq
  <2> QED BY <2>3, <2>4, <2>5
<1>8. ASSUME features \cap {"late", "multi", "deep"} = {} PROVE Kept(c, t, seen)
  <2>1. Kept(d, src, seen)
    BY <1>1, <1>8 DEF Settled
  <2>2. Keeps(d, c, Len(t))
    <3>1. \A j \in 1 .. Len(t) : j <= Len(t)
      OBVIOUS
    <3> QED BY <1>7, <1>8, <3>1 DEF Keeps
  <2>3. \A k \in 1 .. Len(t), n \in Name : t[k].vars[n] \in seen =>
           k \in 1 .. Len(src) /\ src[k].vars[n] = t[k].vars[n]
    BY <1>2, <1>4
  <2>4. Len(t) \in Nat
    BY <1>3
  <2> QED BY <2>1, <2>2, <2>3, <2>4, KeptMore
<1>9. ASSUME "shadow" \notin features PROVE Single(t) /\ Own(b, t)
  <2>1. Single(src) /\ Own(out, src)
    BY <1>1, <1>9 DEF Settled
  <2> QED BY <1>1, <1>5, <2>1, SingleLess, OwnCloses
<1>10. ASSUME features \cap {"forReuse", "late", "shadow"} = {} PROVE Live(b, c, t)
  <2>1. Live(out, d, src)
    BY <1>1, <1>10 DEF Settled
  <2> QED BY <1>1, <2>1, LiveCloses
<1> HIDE DEF c
<1>11. Settled(b, c, t, seen, features)
  BY <1>8, <1>9, <1>10 DEF Settled
<1> QED BY <1>2, <1>6, <1>7, <1>11 DEF Sound, c

LEMMA DoDrops ==
  ASSUME Typed, MirrorInv, SoundInv, NEW v \in DOMAIN name, CloseDo(v)
  PROVE  /\ Drops(out, Front(out), src, Front(src)) /\ Front(src) \in Seq(SrcType)
         /\ InBraces(Text) \in TextType /\ InBraces(Text).out = Front(out)
         /\ InBraces(Text).declared = PopDepth(declared)
         /\ InBraces(Text).seen = seen /\ InBraces(Text).errors = Underflow(declared)
<1>1. errors = {} /\ Last(src).do /\ LookUp(Front(src), name[v]) = v
  BY DEF CloseDo
<1>2. /\ out \in Seq(OutType) /\ src \in Seq(SrcType) /\ Nest(out, src)
      /\ Text \in TextType /\ Text.out = out /\ Text.declared = declared /\ Text.seen = seen
      /\ Text.errors = {}
  BY <1>1, SoundNow
<1>3. Len(src) > 1
  BY <1>1, DoIsInside
<1>4. src[Len(src)].do
  BY <1>1 DEF Last
<1>5. Drops(out, Front(out), src, Front(src))
  BY <1>2, <1>3, <1>4, NestCloses
<1>6. Front(src) \in Seq(SrcType)
  BY <1>2, FrontOf
<1> QED BY <1>2, <1>5, <1>6, InBracesSteps

\* popDepth finds no list only for too deep a nesting.
LEMMA OverflowIsDeep ==
  ASSUME Typed, MirrorInv, SoundInv, errors = {}, NEW g, features \subseteq g,
         NEW e \in Underflow(declared)
  PROVE  Explanations(e) \cap g # {}
<1>1. e = "overflow" /\ declared = <<>>
  BY DEF Underflow
<1>2. "deep" \in g
  BY <1>1, SoundNow
<1> QED BY <1>1, <1>2 DEF Explanations

LEMMA DoExplained ==
  ASSUME Typed, MirrorInv, SoundInv, NEW v \in DOMAIN name, CloseDo(v) PROVE ErrorsExplained'
<1> DEFINE in  == InBraces(Text)
           txt == VisitTemporary(in, v, name[v], "inside")
           f   == IF v \in seen THEN {} ELSE {"late"}
           s   == Front(src)
<1>1. errors = {} /\ LookUp(s, name[v]) = v /\ Meets(f) /\ Writes(txt)
  BY DEF CloseDo
<1>2. features \subseteq features' /\ (v \notin seen => "late" \in features')
  BY <1>1, FeaturesGrow
<1>3. /\ Drops(out, Front(out), src, s) /\ s \in Seq(SrcType)
      /\ in \in TextType /\ in.out = Front(out) /\ in.declared = PopDepth(declared)
      /\ in.seen = seen /\ in.errors = Underflow(declared)
  BY DoDrops
<1>8. \A e \in in.errors : Explanations(e) \cap features' # {}
  BY <1>1, <1>2, <1>3, OverflowIsDeep
<1>4. /\ Sound(in.out, in.declared, s, Len(name), in.seen, features)
      /\ in.declared = <<>> => "deep" \in features
  BY <1>1, <1>3, SoundCloses
<1> HIDE DEF in, s
<1>5. /\ Settled(in.out, in.declared, s, in.seen, features)
      /\ "inside" = "inside" /\ v \notin in.seen => "late" \in features'
      /\ in.declared = <<>> => "deep" \in features'
  BY <1>2, <1>3, <1>4 DEF Sound
<1>6. v \in Var /\ name[v] \in Name
  BY SourceTypes
<1>7. \A e \in txt.errors : Explanations(e) \cap features' # {}
  BY <1>1, <1>2, <1>3, <1>5, <1>6, <1>8, KnownExplained
<1> HIDE DEF txt
<1> QED BY <1>1, <1>7, NextExplained

LEMMA NewNow ==
  ASSUME Typed, MirrorInv, SoundInv, errors = {}, NEW n \in Name, NEW f, Meets(f), NameFeatures(n) \subseteq f
  PROVE  /\ Vacant(out, declared, n, features')
         /\ Len(name) + 1 \notin seen
         /\ declared = <<>> => "deep" \in features'
<1>1. /\ declared \in Seq(SUBSET Name) /\ src \in Seq(SrcType) /\ Len(name) \in Nat
      /\ Known(src, Len(name), seen) /\ Settled(out, declared, src, seen, features)
      /\ declared = <<>> => "deep" \in features
  BY SoundNow
<1>2. features \subseteq features' /\ NameFeatures(n) \subseteq features'
  BY FeaturesGrow
<1>3. Vacant(out, declared, n, features')
  BY <1>1, <1>2, VacantNow
<1>4. Len(name) + 1 \notin 1 .. Len(name)
  BY <1>1
<1>5. Len(name) + 1 \notin seen
  BY <1>1, <1>4 DEF Known
<1> QED BY <1>1, <1>2, <1>3, <1>5

LEMMA InitExplained ==
  ASSUME Typed, MirrorInv, SoundInv, NEW n \in Name, DeclareInit(n) PROVE ErrorsExplained'
<1> DEFINE v   == Len(name) + 1
           txt == VisitTemporary(Text, v, n, "statement")
<1>1. errors = {} /\ Len(name) < MaxVars /\ Meets(NameFeatures(n)) /\ Writes(txt)
  BY DEF DeclareInit, Reads, SingleAssignment
<1>2. /\ Text \in TextType /\ Text.out = out /\ Text.declared = declared /\ Text.seen = seen
      /\ Text.errors = {}
  BY <1>1, SoundNow
<1>3. v \in Var
  BY <1>1, NameGrows
<1>4. /\ Vacant(out, declared, n, features') /\ v \notin seen
      /\ declared = <<>> => "deep" \in features'
  BY <1>1, NewNow
<1> HIDE DEF v
<1>5. \A e \in txt.errors : Explanations(e) \cap features' # {}
  BY <1>2, <1>3, <1>4, NewExplained
<1> HIDE DEF txt
<1> QED BY <1>1, <1>5, NextExplained

LEMMA ForExplained ==
  ASSUME Typed, MirrorInv, SoundInv, NEW n \in Name, OpenFor(n) PROVE ErrorsExplained'
<1> DEFINE v   == Len(name) + 1
           one == VisitTemporary(InHeader, v, n, "statement")
           txt == Opened(one)
           f   == Deep \cup NameFeatures(n)
<1>1. errors = {} /\ v <= MaxVars /\ Meets(f) /\ Writes(txt)
  BY DEF OpenFor, Reads
<1>2. NameFeatures(n) \subseteq f
  OBVIOUS
<1> HIDE DEF f
<1>3. /\ InHeader \in TextType /\ InHeader.out = Append(out, Header(Len(declared)))
      /\ Header(Len(declared)) \in OutType /\ Header(Len(declared)).vars = Fresh
      /\ InHeader.declared = declared /\ InHeader.seen = seen /\ InHeader.errors = {}
  BY <1>1, HeaderNow
<1>4. out \in Seq(OutType) /\ out # <<>> /\ declared \in Seq(SUBSET Name) /\ Len(name) \in Nat
  BY <1>1, SoundNow
<1>5. v \in Var
  BY <1>1, <1>4, ScopesAssumption DEF Var
<1>6. /\ Vacant(out, declared, n, features') /\ v \notin seen
      /\ declared = <<>> => "deep" \in features'
  BY <1>1, <1>2, NewNow
<1>7. Pushed(declared, declared)
  BY DEF Pushed
<1>8. Vacant(InHeader.out, InHeader.declared, n, features')
  BY <1>3, <1>4, <1>6, <1>7, VacantOpens
<1> HIDE DEF v
<1>9. \A e \in one.errors : Explanations(e) \cap features' # {}
  BY <1>3, <1>5, <1>6, <1>8, NewExplained
<1>10. one \in TextType
  BY <1>3, <1>5, VisitSteps
<1> HIDE DEF one
<1>11. txt.errors = one.errors
  BY <1>10, OpenedSteps
<1> HIDE DEF txt
<1> QED BY <1>1, <1>9, <1>11, NextExplained

\* A visit changes only the innermost scope of the text and the last list.
Below(txt, r, v) ==
  /\ Len(r.out) = Len(txt.out) /\ Len(r.declared) = Len(txt.declared)
  /\ \A i \in 1 .. Len(txt.out) - 1 : r.out[i] = txt.out[i]
  /\ \A j \in 1 .. Len(txt.declared) - 1 : r.declared[j] = txt.declared[j]
  /\ r.seen \subseteq txt.seen \cup {v}

LEMMA VisitBelow ==
  ASSUME NEW txt \in TextType, txt.out # <<>>, NEW v \in Var, NEW n \in Name, NEW r \in TextType,
         Leaves(txt, r) \/ Declares(txt, r, v, n)
  PROVE  Below(txt, r, v)
<1>1. CASE Leaves(txt, r)
  BY <1>1 DEF Leaves, Below
<1>2. CASE Declares(txt, r, v, n)
  <2>1. Met(txt, r, v, n)
    BY <1>2, VisitBinds
  <2>2. Len(txt.out) \in Nat /\ Len(txt.declared) \in Nat
    BY <2>1 DEF Met
  <2>3. DOMAIN txt.out = 1 .. Len(txt.out)
    BY LenProperties DEF TextType
  <2>4. r.out = [txt.out EXCEPT ![Len(txt.out)].vars[n] = v]
    BY <1>2 DEF Declares, BindTop
  <2>5. \A i \in 1 .. Len(txt.out) - 1 : i \in 1 .. Len(txt.out) /\ i # Len(txt.out)
    BY <2>2
  <2>6. \A i \in 1 .. Len(txt.out) - 1 : r.out[i] = txt.out[i]
    BY <2>3, <2>4, <2>5
  <2>7. \A j \in 1 .. Len(txt.declared) - 1 : j \in 1 .. Len(txt.declared) /\ j # Len(txt.declared)
    BY <2>2
  <2>8. \A j \in 1 .. Len(txt.declared) - 1 : r.declared[j] = txt.declared[j]
    BY <2>1, <2>7 DEF Met
  <2>9. r.seen = txt.seen \cup {v} /\ Len(r.out) = Len(txt.out) /\ Len(r.declared) = Len(txt.declared)
    BY <2>1 DEF Met
  <2> QED BY <2>6, <2>8, <2>9 DEF Below
<1> QED BY <1>1, <1>2

\* A declaration of two: what is written around, and what is left of it.  At the depth
\* limit the braces around take away the list of what is around them.
LEMMA TwoSteps ==
  ASSUME Typed, MirrorInv, SoundInv, errors = {},
         NEW v \in Var, v + 1 \in Var, NEW m \in Name, NEW n \in Name,
         NEW op, op = Opened(Text), NEW one, one = VisitTemporary(op, v, m, "statement"),
         NEW two, two = VisitTemporary(one, v + 1, n, "statement")
  PROVE  /\ op \in TextType /\ op.out = Append(out, Brace(Len(op.declared)))
         /\ Brace(Len(op.declared)) \in OutType /\ Brace(Len(op.declared)).vars = Fresh
         /\ Pushed(declared, op.declared) /\ op.seen = seen /\ op.errors = {}
         /\ op.out # <<>> /\ (op.declared = <<>> => declared = <<>>)
         /\ one \in TextType /\ (Leaves(op, one) \/ Declares(op, one, v, m))
         /\ one.out # <<>> /\ (one.declared = <<>> => declared = <<>>)
         /\ two \in TextType /\ InBraces(two) \in TextType
         /\ InBraces(two).out = out /\ Fewer(declared, InBraces(two).declared)
         /\ InBraces(two).seen \subseteq seen \cup {v, v + 1}
         /\ InBraces(two).errors = two.errors \cup Underflow(two.declared)
         /\ (two.declared = <<>> => declared = <<>>)
<1>1. /\ out \in Seq(OutType) /\ out # <<>> /\ declared \in Seq(SUBSET Name)
      /\ Text \in TextType /\ Text.out = out /\ Text.declared = declared /\ Text.seen = seen
      /\ Text.errors = {}
  BY SoundNow
<1>2. Pushed(declared, PushDepth(declared))
  BY DEF Pushed, PushDepth
<1>3. /\ op \in TextType /\ op.out = Append(out, Brace(Len(op.declared)))
      /\ Pushed(declared, op.declared) /\ op.seen = seen /\ op.errors = {}
  BY <1>1, <1>2, OpenedSteps
<1>4. Len(op.declared) \in Nat
  BY <1>3, LenProperties DEF TextType
<1>5. Brace(Len(op.declared)) \in OutType /\ Brace(Len(op.declared)).vars = Fresh
  BY <1>4, BraceTypes DEF Brace
<1>6. /\ Len(op.out) = Len(out) + 1 /\ \A i \in 1 .. Len(out) : op.out[i] = out[i]
      /\ Len(declared) <= Len(op.declared) /\ Len(op.declared) - Len(declared) <= 1
      /\ \A j \in 1 .. Len(declared) : op.declared[j] = declared[j]
  BY <1>1, <1>3, <1>5, AppendProperties, PushedLists
<1>7. Len(out) \in Nat /\ Len(declared) \in Nat
  BY <1>1, LenProperties
<1>8. \A k \in Nat : k + 1 # 0 /\ k + 1 - 1 = k
  OBVIOUS
<1>9. op.out # <<>> /\ (op.declared = <<>> => declared = <<>>)
  <2>1. op.declared = <<>> => Len(declared) = 0
    BY <1>6, <1>7, EmptySeq
  <2> QED BY <1>1, <1>6, <1>7, <1>8, <2>1, EmptySeq
<1>10. one \in TextType /\ (Leaves(op, one) \/ Declares(op, one, v, m))
  BY <1>3, VisitSteps
<1>11. Below(op, one, v)
  BY <1>3, <1>9, <1>10, VisitBelow
<1>22. op.declared \in Seq(SUBSET Name) /\ one.declared \in Seq(SUBSET Name)
  BY <1>3, <1>10 DEF TextType
<1>12. one.out # <<>> /\ (one.declared = <<>> => declared = <<>>)
  BY <1>6, <1>7, <1>8, <1>9, <1>11, <1>22, EmptySeq DEF Below
<1>13. two \in TextType /\ (Leaves(one, two) \/ Declares(one, two, v + 1, n))
  BY <1>10, VisitSteps
<1>14. Below(one, two, v + 1)
  BY <1>10, <1>12, <1>13, VisitBelow
<1>15. /\ Len(two.out) = Len(out) + 1 /\ \A i \in 1 .. Len(out) : two.out[i] = out[i]
       /\ Len(two.declared) = Len(op.declared)
       /\ \A j \in 1 .. Len(op.declared) - 1 : two.declared[j] = op.declared[j]
  BY <1>6, <1>7, <1>8, <1>11, <1>14 DEF Below
<1>16. two.out \in Seq(OutType) /\ two.declared \in Seq(SUBSET Name)
  BY <1>13 DEF TextType
<1>17. two.out # <<>> /\ (two.declared = <<>> => declared = <<>>)
  BY <1>7, <1>8, <1>9, <1>15, <1>16, <1>22, EmptySeq
<1>18. Front(two.out) = out
  <2>1. /\ Front(two.out) \in Seq(OutType) /\ Len(Front(two.out)) = Len(two.out) - 1
        /\ \A i \in 1 .. Len(two.out) - 1 : Front(two.out)[i] = two.out[i]
    BY <1>16, <1>17, FrontOf
  <2>2. Len(Front(two.out)) = Len(out) /\ \A i \in 1 .. Len(out) : Front(two.out)[i] = out[i]
    BY <1>7, <1>8, <1>15, <2>1
  <2> QED BY <1>1, <2>1, <2>2, SeqEqual
<1>19. Fewer(declared, PopDepth(two.declared))
  <2> DEFINE c == PopDepth(two.declared)
  <2>1. CASE two.declared = <<>>
    <3>1. c = <<>> /\ Len(c) = 0
      BY <2>1, EmptySeq DEF PopDepth
    <3> HIDE DEF c
    <3> QED BY <1>7, <3>1 DEF Fewer, c
  <2>2. CASE two.declared # <<>>
    <3>1. /\ c \in Seq(SUBSET Name) /\ Len(c) = Len(two.declared) - 1
          /\ \A j \in 1 .. Len(two.declared) - 1 : c[j] = two.declared[j]
      BY <1>16, <2>2, PoppedLists
    <3>2. Len(c) \in Nat
      BY <3>1, LenProperties
    <3> HIDE DEF c
    <3>3. Len(c) = Len(op.declared) - 1 /\ Len(c) <= Len(declared)
      BY <1>4, <1>6, <1>7, <1>15, <3>1
    <3>4. ASSUME NEW j \in 1 .. Len(c) PROVE c[j] = declared[j]
      <4>1. j \in 1 .. Len(declared) /\ j \in 1 .. Len(op.declared) - 1
        BY <1>7, <3>2, <3>3
      <4> QED BY <1>6, <1>15, <3>1, <4>1
    <3> QED BY <3>2, <3>3, <3>4 DEF Fewer, c
  <2> QED BY <2>1, <2>2
<1>20. InBraces(two) \in TextType /\ InBraces(two).out = out
       /\ InBraces(two).declared = PopDepth(two.declared) /\ InBraces(two).seen = two.seen
       /\ InBraces(two).errors = two.errors \cup Underflow(two.declared)
  BY <1>13, <1>18, InBracesSteps
<1>21. two.seen \subseteq seen \cup {v, v + 1}
  BY <1>3, <1>11, <1>14 DEF Below
<1> QED BY <1>3, <1>5, <1>9, <1>10, <1>12, <1>13, <1>17, <1>19, <1>20, <1>21

LEMMA TwoExplained ==
  ASSUME Typed, MirrorInv, SoundInv, NEW m \in Name, NEW n \in Name, DeclareTwo(m, n) PROVE ErrorsExplained'
<1> DEFINE v   == Len(name) + 1
           op  == Opened(Text)
           one == VisitTemporary(op, v, m, "statement")
           two == VisitTemporary(one, v + 1, n, "statement")
           txt == InBraces(two)
           f   == Deep \cup NameFeatures(m) \cup NameFeatures(n) \cup {"multi"}
<1>1. errors = {} /\ v < MaxVars /\ m # n /\ Meets(f) /\ Writes(txt)
  BY DEF DeclareTwo, Reads
<1>2. NameFeatures(m) \subseteq f /\ NameFeatures(n) \subseteq f
  OBVIOUS
<1> HIDE DEF f
<1>4. out \in Seq(OutType) /\ out # <<>> /\ declared \in Seq(SUBSET Name) /\ Len(name) \in Nat
      /\ Known(src, Len(name), seen)
  BY <1>1, SoundNow
<1>5. v \in Var /\ v + 1 \in Var /\ v + 1 # v /\ v + 1 \notin 1 .. Len(name)
  BY <1>1, <1>4, ScopesAssumption DEF Var
<1>6. Vacant(out, declared, m, features') /\ Vacant(out, declared, n, features') /\ v \notin seen
      /\ (declared = <<>> => "deep" \in features')
  BY <1>1, <1>2, NewNow
<1>7. v + 1 \notin seen
  BY <1>4, <1>5 DEF Known
<1> HIDE DEF v
<1>8. /\ op \in TextType /\ op.out = Append(out, Brace(Len(op.declared)))
      /\ Brace(Len(op.declared)) \in OutType /\ Brace(Len(op.declared)).vars = Fresh
      /\ Pushed(declared, op.declared) /\ op.seen = seen /\ op.errors = {}
      /\ op.out # <<>> /\ (op.declared = <<>> => declared = <<>>)
      /\ one \in TextType /\ (Leaves(op, one) \/ Declares(op, one, v, m))
      /\ one.out # <<>> /\ (one.declared = <<>> => declared = <<>>)
      /\ two \in TextType /\ txt.errors = two.errors \cup Underflow(two.declared)
      /\ (two.declared = <<>> => declared = <<>>)
  BY <1>1, <1>5, TwoSteps
<1> HIDE DEF op, txt
<1>9. Pushed(declared, op.declared) /\ op.declared \in Seq(SUBSET Name)
  BY <1>8 DEF TextType
<1>10. Vacant(op.out, op.declared, m, features') /\ Vacant(op.out, op.declared, n, features')
  BY <1>4, <1>6, <1>8, <1>9, VacantOpens
<1>11. \A e \in one.errors : Explanations(e) \cap features' # {}
  BY <1>5, <1>6, <1>8, <1>10, NewExplained
<1> HIDE DEF one
<1>12. Vacant(one.out, one.declared, n, features')
  <2>1. n # m
    BY <1>1
  <2> QED BY <1>5, <1>8, <1>10, <2>1, VacantVisit
<1>13. one.seen \subseteq seen \cup {v}
  <2>1. Below(op, one, v)
    BY <1>5, <1>8, VisitBelow
  <2> QED BY <1>8, <2>1 DEF Below
<1>14. v + 1 \notin one.seen
  BY <1>5, <1>7, <1>13
<1>15. ASSUME NEW e \in two.errors PROVE Explanations(e) \cap features' # {}
  <2>1. \/ e \in one.errors
        \/ e = "overflow" /\ one.declared = <<>>
        \/ e = "undeclared" /\ IsVarDeclared(one.declared, n) /\ LookUp(one.out, n) = Nowhere
        \/ e = "captured" /\ LookUp(one.out, n) # Nowhere /\ LookUp(one.out, n) # v + 1
        \/ e = "split" /\ ~IsVarDeclared(one.declared, n) /\ v + 1 \in one.seen
        \/ e = "misplaced" /\ ~IsVarDeclared(one.declared, n) /\ "statement" = "inside"
    BY <1>5, <1>8, <1>15, VisitFaults
  <2>2. CASE e \in one.errors
    BY <1>11, <2>2
  <2>3. CASE e = "undeclared" /\ IsVarDeclared(one.declared, n)
    BY <1>12, <2>3 DEF Vacant, Explanations
  <2>4. CASE e = "captured" /\ LookUp(one.out, n) # Nowhere
    <3>1. Len(one.out) \in Nat /\ DOMAIN one.out = 1 .. Len(one.out)
      BY <1>8, LenProperties DEF TextType
    <3>2. \E i \in 1 .. Len(one.out) : one.out[i].vars[n] = LookUp(one.out, n)
      BY <2>4, <3>1, LookUpBinds
    <3> QED BY <1>12, <2>4, <3>2 DEF Vacant, Explanations
  <2>5. CASE e = "overflow" /\ one.declared = <<>>
    BY <1>6, <1>8, <2>5 DEF Explanations
  <2> QED BY <1>14, <2>1, <2>2, <2>3, <2>4, <2>5
<1> HIDE DEF two
<1>16. \A e \in Underflow(two.declared) : Explanations(e) \cap features' # {}
  BY <1>6, <1>8 DEF Underflow, Explanations
<1> QED BY <1>1, <1>8, <1>15, <1>16, NextExplained

-----------------------------------------------------------------------------
(* The invariants in one step.                                             *)

LEMMA NextSound ==
  ASSUME NEW txt, Writes(txt), Sound(txt.out, txt.declared, src', Len(name'), txt.seen, features')
  PROVE  SoundInv'
BY DEF Writes, SoundInv

LEMMA SettledMore ==
  ASSUME NEW o, NEW d, NEW s, NEW x, NEW f, Settled(o, d, s, x, f), NEW g, f \subseteq g
  PROVE  Settled(o, d, s, x, g)
BY DEF Settled

\* The source declares a variable in its innermost scope.
LEMMA SoundDeclares ==
  ASSUME NEW o \in Seq(OutType), NEW d \in Seq(SUBSET Name), NEW s \in Seq(SrcType), s # <<>>,
         NEW c \in Nat, c + 1 \in Var, NEW x, NEW f, Sound(o, d, s, c, x, f), NEW g, f \subseteq g,
         NEW n \in Name, s[Len(s)].vars[n] = Nowhere,
         "shadow" \notin g => \A k \in 1 .. Len(s) : s[k].vars[n] = Nowhere,
         "forReuse" \notin g => \A k \in 1 .. Len(s) : n \notin s[k].fors,
         NEW t, t = BindTop(s, n, c + 1)
  PROVE  Sound(o, d, t, c + 1, x, g)
<1>1. /\ t \in Seq(SrcType) /\ Len(t) = Len(s)
      /\ \A k \in 1 .. Len(s) : t[k].fors = s[k].fors /\ t[k].do = s[k].do
      /\ \A k \in 1 .. Len(s), m \in Name :
           t[k].vars[m] = IF k = Len(s) /\ m = n THEN c + 1 ELSE s[k].vars[m]
  BY BindSrc
<1>2. Nest(o, s) /\ Known(s, c, x) /\ Settled(o, d, s, x, g)
  BY SettledMore DEF Sound
<1>3. Len(s) \in Nat \ {0} /\ Len(s) \in 1 .. Len(s) /\ Len(o) \in Nat /\ Len(d) \in Nat
  BY EmptySeq, LenProperties
<1>4. BindsMore(s, t, Len(s), n, c + 1)
  BY <1>1 DEF BindsMore
<1>5. Holds(s, t)
  BY <1>1 DEF Holds
<1>6. Nest(o, t)
  <2>1. Shape(o, o)
    BY DEF Shape
  <2> QED BY <1>1, <1>2, <2>1, NestSame
<1>7. Known(t, c + 1, x)
  BY <1>2, <1>4, KnownMore
<1>8. ASSUME g \cap {"late", "multi", "deep"} = {} PROVE Kept(d, t, x)
  <2>1. Kept(d, s, x)
    BY <1>2, <1>8 DEF Settled
  <2>2. c + 1 \notin x
    BY <1>2 DEF Known
  <2>3. \A k \in 1 .. Len(t), m \in Name : t[k].vars[m] \in x =>
           k \in 1 .. Len(s) /\ s[k].vars[m] = t[k].vars[m]
    BY <1>1, <2>2
  <2>4. Keeps(d, d, Len(t))
    BY DEF Keeps
  <2>5. Len(t) \in Nat
    BY <1>1, <1>3
  <2> QED BY <2>1, <2>3, <2>4, <2>5, KeptMore
<1>9. ASSUME "shadow" \notin g PROVE Single(t) /\ Own(o, t)
  <2>1. Single(s) /\ Own(o, s) /\ \A k \in 1 .. Len(s) : s[k].vars[n] = Nowhere
    BY <1>2, <1>9 DEF Settled
  <2> QED BY <1>4, <1>5, <2>1, SingleMore, OwnSource
<1>10. ASSUME g \cap {"forReuse", "late", "shadow"} = {} PROVE Live(o, d, t)
  <2>1. Live(o, d, s) /\ \A k \in 1 .. Len(s) : n \notin s[k].fors
    BY <1>2, <1>10 DEF Settled
  <2>2. Len(s) \in Nat /\ Len(t) = Len(s) /\ \A k \in 1 .. Len(s) : t[k].fors = s[k].fors
    BY <1>1, <1>3
  <2> QED BY <1>3, <1>4, <2>1, <2>2, LiveSource
<1>11. Settled(o, d, t, x, g)
  BY <1>8, <1>9, <1>10 DEF Settled
<1> QED BY <1>6, <1>7, <1>11 DEF Sound

\* The emitter meets a variable that the source binds; where it types it, the source
\* declares it in the innermost scope unless a feature of g says otherwise.
LEMMA SoundVisits ==
  ASSUME NEW txt \in TextType, txt.out # <<>>, NEW s \in Seq(SrcType), NEW c \in Nat,
         NEW f, Sound(txt.out, txt.declared, s, c, txt.seen, f), NEW g, f \subseteq g,
         NEW v \in Var, NEW n \in Name, NEW r \in TextType,
         \/ Leaves(txt, r)
         \/ /\ Declares(txt, r, v, n)
            /\ \E k \in 1 .. Len(s) : s[k].vars[n] = v
            /\ g \cap {"late", "multi", "deep"} = {} =>
                 s[Len(s)].vars[n] = v /\ Len(txt.declared) <= Len(s)
  PROVE  Sound(r.out, r.declared, s, c, r.seen, g)
<1>1. Nest(txt.out, s) /\ Known(s, c, txt.seen) /\ Settled(txt.out, txt.declared, s, txt.seen, g)
  BY SettledMore DEF Sound
<1>2. CASE Leaves(txt, r)
  BY <1>1, <1>2 DEF Leaves, Sound
<1>3. CASE /\ Declares(txt, r, v, n)
           /\ \E k \in 1 .. Len(s) : s[k].vars[n] = v
           /\ g \cap {"late", "multi", "deep"} = {} =>
                s[Len(s)].vars[n] = v /\ Len(txt.declared) <= Len(s)
  <2>1. Met(txt, r, v, n)
    BY <1>3, VisitBinds
  <2>2. txt.out \in Seq(OutType) /\ r.seen = txt.seen \cup {v} /\ v # Nowhere
    BY <2>1 DEF Met, TextType
  <2>3. PICK h \in 1 .. Len(s) : s[h].vars[n] = v
    BY <1>3
  <2>4. Depth(txt.out, Len(txt.out)) = Len(s) /\ Len(s) \in Nat \ {0} /\ Len(s) \in 1 .. Len(s)
    BY <1>1, <2>2, NestFacts DEF Nest
  <2>5. Nest(r.out, s)
    <3>1. Shape(r.out, txt.out)
      BY <1>3, ShapeVisit
    <3> QED BY <1>1, <2>2, <3>1, NestSame
  <2>6. Known(s, c, r.seen)
    BY <1>1, <2>2, <2>3 DEF Known
  <2>7. ASSUME g \cap {"late", "multi", "deep"} = {} PROVE Kept(r.declared, s, r.seen)
    <3> DEFINE i == Len(txt.declared)
    <3>1. Kept(txt.declared, s, txt.seen) /\ s[Len(s)].vars[n] = v /\ i <= Len(s)
      BY <1>1, <1>3, <2>7 DEF Settled
    <3>2. /\ Len(r.declared) = i /\ i \in Nat \ {0} /\ i \in 1 .. i
          /\ \A j \in 1 .. i : txt.declared[j] \subseteq r.declared[j] /\ (j = i => n \in r.declared[j])
      <4>1. Len(r.declared) = i /\ i \in Nat \ {0}
        BY <2>1 DEF Met
      <4>2. \A j \in 1 .. i : r.declared[j] = IF j = i THEN txt.declared[j] \cup {n} ELSE txt.declared[j]
        BY <2>1 DEF Met
      <4> HIDE DEF i
      <4>3. \A j \in 1 .. i : txt.declared[j] \subseteq r.declared[j] /\ (j = i => n \in r.declared[j])
        BY <4>2
      <4>4. i \in 1 .. i
        BY <4>1
      <4> QED BY <4>1, <4>3, <4>4
    <3>3. Keeps(txt.declared, r.declared, Len(s))
      <4>1. \A j \in 1 .. Len(s) : j <= i => j \in 1 .. i
        BY <3>2
      <4> QED BY <3>2, <4>1 DEF Keeps
    <3>4. Kept(r.declared, s, txt.seen)
      <4>1. \A k \in 1 .. Len(s), m \in Name : s[k].vars[m] \in txt.seen =>
               k \in 1 .. Len(s) /\ s[k].vars[m] = s[k].vars[m]
        OBVIOUS
      <4> QED BY <2>4, <3>1, <3>3, <4>1, KeptMore
    <3>5. \A k \in 1 .. Len(s), m \in Name : s[k].vars[m] = v => m = n /\ i \in 1 .. k
      <4>1. \A k \in 1 .. Len(s), m \in Name : s[k].vars[m] = v => k = Len(s) /\ m = n
        BY <1>1, <2>2, <2>4, <3>1 DEF Known
      <4>2. i \in 1 .. Len(s)
        BY <2>4, <3>1, <3>2
      <4> QED BY <4>1, <4>2
    <3>6. i <= Len(r.declared) /\ n \in r.declared[i]
      BY <3>2
    <3> HIDE DEF i
    <3>7. Kept(r.declared, s, txt.seen \cup {v})
      BY <3>4, <3>5, <3>6, KeptMarks
    <3> QED BY <2>2, <3>7
  <2>8. ASSUME "shadow" \notin g PROVE Single(s) /\ Own(r.out, s)
    <3>1. Single(s) /\ Own(txt.out, s)
      BY <1>1, <2>8 DEF Settled
    <3>2. \E k \in 1 .. Len(s) : k <= Depth(txt.out, Len(txt.out)) /\ s[k].vars[n] = v
      BY <2>3, <2>4
    <3> QED BY <1>3, <3>1, <3>2, OwnVisit
  <2>9. ASSUME g \cap {"forReuse", "late", "shadow"} = {} PROVE Live(r.out, r.declared, s)
    <3>1. Live(txt.out, txt.declared, s)
      BY <1>1, <2>9 DEF Settled
    <3>2. Len(s) \in Nat /\ Depth(txt.out, Len(txt.out)) <= Len(s)
      BY <2>4
    <3> QED BY <1>3, <3>1, <3>2, LiveVisit
  <2>10. Settled(r.out, r.declared, s, r.seen, g)
    BY <2>7, <2>8, <2>9 DEF Settled
  <2> QED BY <2>5, <2>6, <2>10 DEF Sound
<1> QED BY <1>2, <1>3

\* A scope opens in the source, a brace in the text.
LEMMA SoundOpens ==
  ASSUME NEW o \in Seq(OutType), NEW d \in Seq(SUBSET Name), NEW s \in Seq(SrcType), NEW c,
         NEW x, NEW f, Sound(o, d, s, c, x, f), NEW g, f \subseteq g, Nowhere \notin x,
         NEW e \in OutType, e.kind = "brace", e.vars = Fresh,
         NEW l, Pushed(d, l), NEW t, Inner(s, t)
  PROVE  Sound(Append(o, e), l, t, c, x, g)
<1> DEFINE b == Append(o, e)
<1>1. Nest(o, s) /\ Known(s, c, x) /\ Settled(o, d, s, x, g)
  BY SettledMore DEF Sound
<1>2. o # <<>> /\ Len(o) \in Nat
  BY <1>1, LenProperties DEF Nest
<1>3. Grown(o, b) /\ \A u : Own(o, u) => Own(b, u)
  BY <1>2, GrownOpens, OwnOpens
<1>4. /\ Len(s) \in Nat /\ Len(t) \in Nat /\ Len(t) = Len(s) + 1
      /\ \A k \in 1 .. Len(s) : k \in 1 .. Len(t) /\ t[k] = s[k]
      /\ \A k \in 1 .. Len(t), n \in Name : t[k].vars[n] # Nowhere => k \in 1 .. Len(s) /\ t[k] = s[k]
  BY InnerBinds DEF Inner
<1>5. Holds(s, t) /\ Holds(t, s)
  BY <1>4 DEF Holds
<1>6. Nest(b, t)
  <2>1. Shape(o, o)
    BY DEF Shape
  <2>2. \A k \in 1 .. Len(s) : t[k].do = s[k].do
    BY <1>4
  <2> QED BY <1>1, <1>4, <2>1, <2>2, NestOpens
<1>7. Known(t, c, x)
  BY <1>1, <1>5, KnownLess
<1>8. ASSUME g \cap {"late", "multi", "deep"} = {} PROVE Kept(l, t, x)
  <2>1. Kept(d, s, x)
    BY <1>1, <1>8 DEF Settled
  <2>2. /\ Len(d) \in Nat /\ Len(l) \in Nat /\ Len(d) <= Len(l)
        /\ \A j \in 1 .. Len(d) : j \in 1 .. Len(l) /\ l[j] = d[j]
    BY PushedLists
  <2>3. Keeps(d, l, Len(t))
    <3>1. \A j \in 1 .. Len(t) : j <= Len(d) => j \in 1 .. Len(d) /\ j <= Len(l)
      BY <2>2
    <3> QED BY <2>2, <3>1 DEF Keeps
  <2>4. \A k \in 1 .. Len(t), n \in Name : t[k].vars[n] \in x =>
           k \in 1 .. Len(s) /\ s[k].vars[n] = t[k].vars[n]
    BY <1>4
  <2> QED BY <1>4, <2>1, <2>3, <2>4, KeptMore
<1>9. ASSUME "shadow" \notin g PROVE Single(t) /\ Own(b, t)
  <2>1. Single(s) /\ Own(o, s)
    BY <1>1, <1>9 DEF Settled
  <2>2. Own(o, t)
    BY <1>5, <2>1, OwnSource
  <2> QED BY <1>3, <1>5, <2>1, <2>2, SingleLess
<1>10. ASSUME g \cap {"forReuse", "late", "shadow"} = {} PROVE Live(b, l, t)
  <2>1. Live(o, d, s)
    BY <1>1, <1>10 DEF Settled
  <2> QED BY <1>2, <1>3, <2>1, LiveOpens
<1> HIDE DEF b
<1>11. Settled(b, l, t, x, g)
  BY <1>8, <1>9, <1>10 DEF Settled
<1> QED BY <1>6, <1>7, <1>11 DEF Sound, b

LEMMA SeenIsReal == ASSUME Typed PROVE Nowhere \notin seen
BY DEF Typed, TypeOK, Var, Nowhere

\* What is open in the source does not bind the name of a variable to declare there.
LEMMA NameNow ==
  ASSUME Typed, NEW n \in Name, NEW f, Meets(f), NameFeatures(n) \subseteq f
  PROVE  /\ "shadow" \notin features' => \A k \in 1 .. Len(src) : src[k].vars[n] = Nowhere
         /\ "forReuse" \notin features' => \A k \in 1 .. Len(src) : n \notin src[k].fors
<1>1. NameFeatures(n) \subseteq features' /\ src \in Seq(SrcType)
  BY FeaturesGrow, SourceTypes
<1> QED BY <1>1, NameUnbound

LEMMA DeclareSound ==
  ASSUME Typed, MirrorInv, SoundInv, NEW n \in Name,
         Declare(n) \/ DeclareInit(n) \/ DeclareConst(n)
  PROVE  SoundInv'
<1> SUFFICES ASSUME errors' = {} PROVE SoundInv'
  BY DEF SoundInv
<1> DEFINE storage == IF DeclareInit(n) THEN "EvqTemporary" ELSE "EvqConstReadOnly"
           c   == Len(name)
           s   == BindTop(src, n, c + 1)
           txt == VisitSymbol(Text, c + 1, n, storage, "statement")
<1>1. /\ errors = {} /\ c < MaxVars /\ src[Len(src)].vars[n] = Nowhere /\ (\E f : Meets(f) /\ NameFeatures(n) \subseteq f)
      /\ name' = Append(name, n) /\ src' = s
      /\ Writes(Text) \/ Writes(txt)
  <2>1. CASE Declare(n)
    <3>1. NameFeatures(n) \subseteq NameFeatures(n)
      OBVIOUS
    <3> QED BY <2>1, <3>1 DEF Declare, Reads, Writes, Text, Last
  <2>2. CASE DeclareInit(n)
    <3>1. NameFeatures(n) \subseteq NameFeatures(n)
      OBVIOUS
    <3> QED BY <2>2, <3>1 DEF DeclareInit, Reads, SingleAssignment, VisitTemporary, Last
  <2>3. CASE DeclareConst(n) /\ ~DeclareInit(n)
    <3>1. NameFeatures(n) \subseteq NameFeatures(n) \cup {"const"}
      OBVIOUS
    <3> QED BY <2>3, <3>1 DEF DeclareConst, Reads, Last
  <2> QED BY <2>1, <2>2, <2>3
<1>2. /\ out \in Seq(OutType) /\ out # <<>> /\ declared \in Seq(SUBSET Name)
      /\ Text \in TextType /\ Text.out = out /\ Text.declared = declared /\ Text.seen = seen
      /\ src \in Seq(SrcType) /\ src # <<>> /\ Len(src) \in Nat \ {0} /\ c \in Nat
      /\ "deep" \notin features => Len(declared) = Len(src)
  BY <1>1, SoundNow
<1>3. c + 1 \in Var /\ Len(name') = c + 1
  BY <1>1, NameGrows
<1>4. features \subseteq features'
  BY <1>1, FeaturesGrow
<1>5. Sound(out, declared, src, c, seen, features)
  BY <1>1 DEF SoundInv
<1>6. /\ "shadow" \notin features' => \A k \in 1 .. Len(src) : src[k].vars[n] = Nowhere
      /\ "forReuse" \notin features' => \A k \in 1 .. Len(src) : n \notin src[k].fors
  BY <1>1, NameNow
<1>7. Sound(out, declared, s, c + 1, seen, features')
  BY <1>1, <1>2, <1>3, <1>4, <1>5, <1>6, SoundDeclares
<1>8. s \in Seq(SrcType) /\ Len(s) = Len(src) /\ s[Len(src)].vars[n] = c + 1 /\ Len(src) \in 1 .. Len(src)
  <2>1. /\ s \in Seq(SrcType) /\ Len(s) = Len(src)
        /\ \A k \in 1 .. Len(src), m \in Name :
             s[k].vars[m] = IF k = Len(src) /\ m = n THEN c + 1 ELSE src[k].vars[m]
    BY <1>2, <1>3, BindSrc
  <2>2. Len(src) \in 1 .. Len(src)
    BY <1>2
  <2> QED BY <2>1, <2>2
<1> HIDE DEF s, c
<1>9. CASE Writes(Text)
  BY <1>1, <1>2, <1>3, <1>7, <1>9, NextSound
<1>10. CASE Writes(txt)
  <2>2. txt \in TextType /\ (Leaves(Text, txt) \/ Declares(Text, txt, c + 1, n))
    BY <1>2, <1>3, SymbolSteps
  <2> HIDE DEF txt
  <2>3. \E k \in 1 .. Len(s) : s[k].vars[n] = c + 1
    BY <1>8
  <2>4. features' \cap {"late", "multi", "deep"} = {} =>
          s[Len(s)].vars[n] = c + 1 /\ Len(Text.declared) <= Len(s)
    BY <1>2, <1>4, <1>8
  <2>5. Sound(Text.out, Text.declared, s, c + 1, Text.seen, features') /\ c + 1 \in Nat /\ Text.out # <<>>
        /\ features' \subseteq features'
    BY <1>2, <1>7
  <2>6. Sound(txt.out, txt.declared, s, c + 1, txt.seen, features')
    BY <1>2, <1>3, <1>8, <2>2, <2>3, <2>4, <2>5, SoundVisits
  <2> QED BY <1>1, <1>3, <1>10, <2>6, NextSound
<1> QED BY <1>1, <1>9, <1>10

\* What a declaration does to each scope of the source.
SourceMet(s, t, n, v) ==
  /\ t \in Seq(SrcType) /\ Len(t) = Len(s)
  /\ \A k \in 1 .. Len(s) : t[k].fors = s[k].fors
  /\ \A k \in 1 .. Len(s), i \in Name :
       t[k].vars[i] = IF k = Len(s) /\ i = n THEN v ELSE s[k].vars[i]

LEMMA SourceBinds ==
  ASSUME NEW s \in Seq(SrcType), NEW n \in Name, NEW v \in Var PROVE SourceMet(s, BindTop(s, n, v), n, v)
<1> DEFINE t == BindTop(s, n, v)
<1>1. v \in Var \cup {Nowhere}
  OBVIOUS
<1>2. /\ t \in Seq(SrcType) /\ Len(t) = Len(s)
      /\ \A k \in 1 .. Len(s) :
           /\ t[k].fors = s[k].fors
           /\ \A m \in Name : t[k].vars[m] = IF k = Len(s) /\ m = n THEN v ELSE s[k].vars[m]
  BY <1>1, BindSrc
<1> HIDE DEF t
<1>3. SourceMet(s, t, n, v)
  BY <1>2 DEF SourceMet
<1> QED BY <1>3 DEF t

\* The source declares two variables, of different names.
LEMMA SoundDeclaresTwo ==
  ASSUME NEW o \in Seq(OutType), NEW d \in Seq(SUBSET Name), NEW s \in Seq(SrcType), s # <<>>,
         NEW c \in Nat, c + 1 \in Var, c + 1 + 1 \in Var,
         NEW x, NEW f, Sound(o, d, s, c, x, f), NEW g, f \subseteq g,
         NEW m \in Name, NEW n \in Name, n # m,
         s[Len(s)].vars[m] = Nowhere, s[Len(s)].vars[n] = Nowhere,
         "shadow" \notin g => \A k \in 1 .. Len(s) : s[k].vars[m] = Nowhere,
         "forReuse" \notin g => \A k \in 1 .. Len(s) : m \notin s[k].fors,
         "shadow" \notin g => \A k \in 1 .. Len(s) : s[k].vars[n] = Nowhere,
         "forReuse" \notin g => \A k \in 1 .. Len(s) : n \notin s[k].fors
  PROVE  Sound(o, d, BindTop(BindTop(s, m, c + 1), n, c + 1 + 1), c + 1 + 1, x, g)
<1> DEFINE t == BindTop(s, m, c + 1)
           u == BindTop(t, n, c + 1 + 1)
<1>1. Sound(o, d, t, c + 1, x, g)
  BY SoundDeclares
<1>2. SourceMet(s, t, m, c + 1)
  BY SourceBinds
<1> HIDE DEF t
<1>3. /\ t \in Seq(SrcType) /\ Len(t) = Len(s)
      /\ \A k \in 1 .. Len(s) : t[k].fors = s[k].fors /\ t[k].vars[n] = s[k].vars[n]
  BY <1>2 DEF SourceMet
<1>4. Len(s) \in Nat \ {0} /\ Len(s) \in 1 .. Len(s)
  BY EmptySeq
<1>5. t # <<>> /\ t[Len(t)].vars[n] = Nowhere
  BY <1>3, <1>4, EmptySeq
<1>6. /\ "shadow" \notin g => \A k \in 1 .. Len(t) : t[k].vars[n] = Nowhere
      /\ "forReuse" \notin g => \A k \in 1 .. Len(t) : n \notin t[k].fors
  BY <1>3
<1>7. c + 1 \in Nat /\ g \subseteq g
  OBVIOUS
<1>8. Sound(o, d, u, c + 1 + 1, x, g)
  BY <1>1, <1>3, <1>5, <1>6, <1>7, SoundDeclares
<1> QED BY <1>8 DEF t

LEMMA TwoSound ==
  ASSUME Typed, MirrorInv, SoundInv, NEW m \in Name, NEW n \in Name, DeclareTwo(m, n) PROVE SoundInv'
<1> DEFINE c   == Len(name)
           s   == BindTop(src, m, c + 1)
           t   == BindTop(s, n, c + 1 + 1)
           op  == Opened(Text)
           one == VisitTemporary(op, c + 1, m, "statement")
           two == VisitTemporary(one, c + 1 + 1, n, "statement")
           txt == InBraces(two)
           f   == Deep \cup NameFeatures(m) \cup NameFeatures(n) \cup {"multi"}
<1>1. /\ errors = {} /\ c + 1 < MaxVars /\ m # n
      /\ src[Len(src)].vars[m] = Nowhere /\ src[Len(src)].vars[n] = Nowhere
      /\ Meets(f) /\ name' = name \o <<m, n>> /\ src' = t /\ Writes(txt)
  BY DEF DeclareTwo, Reads, Last
<1>2. NameFeatures(m) \subseteq f /\ NameFeatures(n) \subseteq f /\ "multi" \in f
  OBVIOUS
<1> HIDE DEF f
<1>3. features \subseteq features' /\ "multi" \in features'
  BY <1>1, <1>2, FeaturesGrow
<1>4. /\ out \in Seq(OutType) /\ declared \in Seq(SUBSET Name)
      /\ src \in Seq(SrcType) /\ src # <<>> /\ Len(src) \in Nat \ {0} /\ c \in Nat
  BY <1>1, SoundNow
<1>5. c + 1 \in Var /\ c + 1 + 1 \in Var /\ c + 1 \in Nat /\ c + 1 + 1 \in Nat
  BY <1>1, <1>4, ScopesAssumption DEF Var
<1>6. Len(name') = c + 1 + 1
  <2>1. name \in Seq(Name) /\ <<m, n>> \in Seq(Name) /\ Len(<<m, n>>) = 2
    BY SourceTypes
  <2>2. Len(name \o <<m, n>>) = Len(name) + Len(<<m, n>>)
    BY <2>1, ConcatProperties
  <2> QED BY <1>1, <1>4, <2>1, <2>2
<1>7. Sound(out, declared, src, c, seen, features)
  BY <1>1 DEF SoundInv
<1>8. /\ "shadow" \notin features' => \A k \in 1 .. Len(src) : src[k].vars[m] = Nowhere
      /\ "forReuse" \notin features' => \A k \in 1 .. Len(src) : m \notin src[k].fors
  BY <1>1, <1>2, NameNow
<1>9. /\ "shadow" \notin features' => \A k \in 1 .. Len(src) : src[k].vars[n] = Nowhere
      /\ "forReuse" \notin features' => \A k \in 1 .. Len(src) : n \notin src[k].fors
  BY <1>1, <1>2, NameNow
<1>10. n # m
  BY <1>1
<1>11. Sound(out, declared, t, c + 1 + 1, seen, features')
  <2> HIDE DEF c
  <2>1. features \subseteq features'
    BY <1>3
  <2>2. src # <<>> /\ src[Len(src)].vars[m] = Nowhere /\ src[Len(src)].vars[n] = Nowhere
    BY <1>1, <1>4
  <2>3. c \in Nat /\ c + 1 \in Var /\ c + 1 + 1 \in Var
    BY <1>4, <1>5
  <2>4. Sound(out, declared, BindTop(BindTop(src, m, c + 1), n, c + 1 + 1), c + 1 + 1, seen, features')
    <3>1. \A q \in Seq(OutType) : \A e \in Seq(SUBSET Name) : \A x, y :
            Sound(q, e, src, c, x, y) /\ y \subseteq features' =>
              Sound(q, e, BindTop(BindTop(src, m, c + 1), n, c + 1 + 1), c + 1 + 1, x, features')
      BY <1>4, <1>8, <1>9, <1>10, <2>2, <2>3, SoundDeclaresTwo
    <3> QED BY <1>4, <1>7, <2>1, <3>1
  <2> QED BY <2>4
<1>12. /\ txt \in TextType /\ txt.out = out /\ Fewer(declared, txt.declared)
       /\ txt.seen \subseteq seen \cup {c + 1, c + 1 + 1}
  <2>1. errors = {}
    BY <1>1
  <2> HIDE DEF c
  <2> QED BY <1>5, <2>1, TwoSteps
<1> HIDE DEF txt, t
<1>13. Known(t, c + 1 + 1, txt.seen)
  <2>1. Known(t, c + 1 + 1, seen)
    BY <1>11 DEF Sound
  <2>2. c + 1 \in 1 .. c + 1 + 1 /\ c + 1 + 1 \in 1 .. c + 1 + 1
    BY <1>4
  <2>3. txt.seen \subseteq 1 .. c + 1 + 1
    BY <1>12, <2>1, <2>2 DEF Known
  <2> QED BY <2>1, <2>3 DEF Known
<1>14. Sound(txt.out, txt.declared, t, c + 1 + 1, txt.seen, features')
  <2>1. Len(t) \in Nat /\ Len(out) \in Nat
    BY <1>11, NestFacts, <1>4 DEF Sound
  <2>2. Live(out, declared, t) => Live(out, txt.declared, t)
    BY <1>4, <1>12, <2>1, LiveFewer
  <2> QED BY <1>3, <1>11, <1>12, <1>13, <2>2 DEF Sound, Settled
<1> QED BY <1>1, <1>6, <1>14, NextSound

\* A variable in scope is met, in a statement or in an expression.
LEMMA VisitSound ==
  ASSUME Typed, MirrorInv, SoundInv, errors = {}, NEW v \in DOMAIN name, InSource(v),
         NEW place \in {"statement", "inside"}, NEW f, Meets(f), UseFeatures(v, place) \subseteq f,
         VisitTemporary(Text, v, name[v], place).errors = {}
  PROVE  LET r == VisitTemporary(Text, v, name[v], place) IN
         /\ r \in TextType /\ (place = "inside" => Leaves(Text, r))
         /\ Sound(r.out, r.declared, src, Len(name), r.seen, features')
<1> DEFINE r == VisitTemporary(Text, v, name[v], place)
           n == name[v]
<1>1. /\ out # <<>> /\ declared \in Seq(SUBSET Name)
      /\ Text \in TextType /\ Text.out = out /\ Text.declared = declared /\ Text.seen = seen
      /\ src \in Seq(SrcType) /\ Len(src) \in Nat /\ Len(name) \in Nat
      /\ "deep" \notin features => Len(declared) = Len(src)
  BY SoundNow
<1>2. v \in Var /\ n \in Name
  BY SourceTypes
<1>3. /\ r \in TextType
      /\ \/ Leaves(Text, r)
         \/ Declares(Text, r, v, n) /\ v \notin seen /\ place # "inside"
  BY <1>1, <1>2, VisitClean
<1>4. Sound(out, declared, src, Len(name), seen, features)
  BY DEF SoundInv
<1>5. features \subseteq features' /\ f \subseteq features'
  BY FeaturesGrow
<1>6. \E k \in 1 .. Len(src) : src[k].vars[n] = v
  <2>1. DOMAIN src = 1 .. Len(src)
    BY <1>1
  <2>2. LookUp(src, n) = v /\ v # Nowhere
    BY <1>2 DEF InSource, Nowhere, Var
  <2> QED BY <1>1, <2>1, <2>2, LookUpBinds
<1>7. v \notin seen /\ "late" \notin features' => src[Len(src)].vars[n] = v
  BY <1>5 DEF UseFeatures, Last
<1> HIDE DEF r, n
<1>8. Sound(Text.out, Text.declared, src, Len(name), Text.seen, features) /\ Text.out # <<>>
  BY <1>1, <1>4
<1>9. ASSUME Declares(Text, r, v, n) /\ v \notin seen /\ place # "inside"
      PROVE  features' \cap {"late", "multi", "deep"} = {} =>
               src[Len(src)].vars[n] = v /\ Len(Text.declared) <= Len(src)
  BY <1>1, <1>5, <1>7, <1>9
<1>10. \/ Leaves(Text, r)
       \/ /\ Declares(Text, r, v, n)
          /\ \E k \in 1 .. Len(src) : src[k].vars[n] = v
          /\ features' \cap {"late", "multi", "deep"} = {} =>
               src[Len(src)].vars[n] = v /\ Len(Text.declared) <= Len(src)
  BY <1>3, <1>6, <1>9
<1>11. Sound(r.out, r.declared, src, Len(name), r.seen, features')
  BY <1>1, <1>2, <1>3, <1>5, <1>8, <1>10, SoundVisits
<1>12. place = "inside" => Leaves(Text, r)
  BY <1>3
<1> QED BY <1>3, <1>11, <1>12 DEF r

LEMMA UsesSound ==
  ASSUME Typed, MirrorInv, SoundInv, NEW v \in DOMAIN name, Assign(v) \/ Use(v) PROVE SoundInv'
<1> SUFFICES ASSUME errors' = {} PROVE SoundInv'
  BY DEF SoundInv
<1>1. PICK place \in {"statement", "inside"} :
        /\ errors = {} /\ InSource(v) /\ Meets(UseFeatures(v, place))
        /\ Writes(VisitTemporary(Text, v, name[v], place)) /\ src' = src /\ name' = name
  BY DEF Assign, Use, Reads
<1>2. VisitTemporary(Text, v, name[v], place).errors = {}
  BY <1>1 DEF Writes
<1>3. UseFeatures(v, place) \subseteq UseFeatures(v, place)
  OBVIOUS
<1>4. LET r == VisitTemporary(Text, v, name[v], place) IN
      Sound(r.out, r.declared, src, Len(name), r.seen, features')
  BY <1>1, <1>2, <1>3, VisitSound
<1> QED BY <1>1, <1>4, NextSound

\* What opens a brace: the lists, and the innermost scope.
LEMMA OpensBrace ==
  ASSUME NEW txt \in TextType, NEW s \in Seq(SrcType), NEW c, NEW g,
         Sound(txt.out, txt.declared, s, c, txt.seen, g),
         NEW e \in SrcType, e.vars = Fresh, e.fors = {}
  PROVE  LET r == Opened(txt) IN
         Sound(r.out, r.declared, Append(s, e), c, r.seen, g)
<1> DEFINE r == Opened(txt)
           l == PushDepth(txt.declared)
           b == Brace(Len(l))
<1>1. /\ r.out = Append(txt.out, b) /\ r.declared = l /\ r.seen = txt.seen /\ r.declared \in Seq(SUBSET Name)
  BY OpenedSteps DEF TextType
<1>2. txt.out \in Seq(OutType) /\ txt.declared \in Seq(SUBSET Name) /\ Nowhere \notin txt.seen
  BY DEF TextType, Var, Nowhere
<1>3. Pushed(txt.declared, l)
  BY DEF Pushed, PushDepth
<1>4. Len(l) \in Nat
  BY <1>1
<1> HIDE DEF l
<1>5. b \in OutType /\ b.kind = "brace" /\ b.vars = Fresh
  BY <1>4, BraceTypes DEF Brace
<1>6. Inner(s, Append(s, e))
  BY InnerOpens
<1>7. g \subseteq g
  OBVIOUS
<1> HIDE DEF b, r
<1>8. Sound(Append(txt.out, b), l, Append(s, e), c, txt.seen, g)
  BY <1>2, <1>3, <1>5, <1>6, <1>7, SoundOpens
<1>9. Sound(r.out, r.declared, Append(s, e), c, r.seen, g)
  BY <1>1, <1>8
<1> QED BY <1>9 DEF r

LEMMA BlocksSound ==
  ASSUME Typed, MirrorInv, SoundInv, OpenBlock \/ OpenDo \/ \E v \in DOMAIN name : Headed(v)
  PROVE  SoundInv'
<1> SUFFICES ASSUME errors' = {} PROVE SoundInv'
  BY DEF SoundInv
<1>1. src \in Seq(SrcType) /\ SourceScope \in SrcType /\ SourceScope.vars = Fresh /\ SourceScope.fors = {}
  BY SourceTypes, BraceTypes DEF SourceScope
<1>2. CASE OpenBlock \/ OpenDo
  <2>1. PICK e \in SrcType :
          /\ e.vars = Fresh /\ e.fors = {}
          /\ errors = {} /\ Meets(Deep) /\ src' = Append(src, e) /\ Writes(Opened(Text)) /\ name' = name
    <3> DEFINE e == [SourceScope EXCEPT !.do = TRUE]
    <3>1. e \in SrcType
      BY BraceTypes DEF SrcType
    <3>2. e.vars = SourceScope.vars /\ e.fors = SourceScope.fors
      BY BraceTypes DEF SrcType
    <3>3. CASE OpenBlock
      BY <1>1, <3>3 DEF OpenBlock, Reads
    <3>4. CASE OpenDo
      BY <1>1, <3>1, <3>2, <3>4 DEF OpenDo, Reads
    <3> QED BY <1>2, <3>3, <3>4
  <2>2. /\ Text \in TextType /\ Text.out = out /\ Text.declared = declared /\ Text.seen = seen
        /\ Settled(out, declared, src, seen, features) /\ Nest(out, src) /\ Known(src, Len(name), seen)
    BY <2>1, SoundNow
  <2>3. features \subseteq features'
    BY <2>1, FeaturesGrow
  <2>4. Sound(Text.out, Text.declared, src, Len(name), Text.seen, features')
    BY <2>2, <2>3, SettledMore DEF Sound
  <2>5. LET r == Opened(Text) IN Sound(r.out, r.declared, Append(src, e), Len(name), r.seen, features')
    BY <1>1, <2>1, <2>2, <2>4, OpensBrace
  <2> QED BY <2>1, <2>5, NextSound
<1>3. ASSUME NEW v \in DOMAIN name, Headed(v) PROVE SoundInv'
  <2> DEFINE txt == VisitTemporary(Text, v, name[v], "inside")
  <2>1. /\ errors = {} /\ InSource(v) /\ Meets(Deep \cup UseFeatures(v, "inside"))
        /\ src' = Append(src, SourceScope) /\ Writes(Opened(txt)) /\ name' = name
    BY <1>3 DEF Headed, Reads
  <2>2. UseFeatures(v, "inside") \subseteq Deep \cup UseFeatures(v, "inside")
    OBVIOUS
  <2>3. Text \in TextType /\ v \in Var /\ name[v] \in Name
    BY SourceTypes, TextTypes
  <2>4. txt.errors = {}
    BY <2>1, <2>3, VisitSteps, OpenedSteps DEF Writes
  <2>5. txt \in TextType /\ Sound(txt.out, txt.declared, src, Len(name), txt.seen, features')
    BY <2>1, <2>2, <2>4, VisitSound
  <2> HIDE DEF txt
  <2>6. LET r == Opened(txt) IN Sound(r.out, r.declared, Append(src, SourceScope), Len(name), r.seen, features')
    BY <1>1, <2>5, OpensBrace
  <2> QED BY <2>1, <2>6, NextSound
<1> QED BY <1>2, <1>3
-----------------------------------------------------------------------------
(* A loop: its header, with a visit, and the brace of its body.            *)

\* The header of a loop was met as r, and w is r with the brace opened; t is the source then.
Headline(r, w, t, v, n) ==
  /\ r \in TextType /\ (Leaves(InHeader, r) \/ Declares(InHeader, r, v, n))
  /\ w.seen = r.seen /\ Pushed(r.declared, w.declared)
  /\ Nest(w.out, t)
  /\ Grown(out, w.out) /\ Grown(r.out, w.out)
  /\ Len(InHeader.out) \in 1 .. Len(InHeader.out) /\ InHeader.out # <<>>
  /\ Depth(InHeader.out, Len(InHeader.out)) = Len(src) + 1
  /\ Own(r.out, t) => Own(w.out, t)

LEMMA HeadlineNow ==
  ASSUME Typed, MirrorInv, SoundInv, errors = {}, NEW v \in Var, NEW n \in Name,
         VisitTemporary(InHeader, v, n, "statement").errors = {},
         NEW t, Len(t) = Len(src) + 1, \A k \in 1 .. Len(src) : t[k].do = src[k].do,
         ~t[Len(src) + 1].do
  PROVE  Headline(VisitTemporary(InHeader, v, n, "statement"),
                  Opened(VisitTemporary(InHeader, v, n, "statement")), t, v, n)
<1> DEFINE r == VisitTemporary(InHeader, v, n, "statement")
           w == Opened(r)
           l == PushDepth(r.declared)
           b == Brace(Len(l))
           h == Header(Len(declared))
<1>1. /\ InHeader \in TextType /\ InHeader.out = Append(out, h)
      /\ h \in OutType /\ h.vars = Fresh /\ h.kind = "for"
  BY HeaderNow
<1>2. out \in Seq(OutType) /\ out # <<>> /\ Nest(out, src)
  BY SoundNow
<1>3. r \in TextType /\ (Leaves(InHeader, r) \/ Declares(InHeader, r, v, n))
  BY <1>1, VisitClean
<1> HIDE DEF h, r
<1>4. w.out = Append(r.out, b) /\ w.declared = l /\ w.seen = r.seen /\ w.declared \in Seq(SUBSET Name)
  BY <1>3, OpenedSteps DEF TextType
<1>5. Pushed(r.declared, l)
  BY DEF Pushed, PushDepth
<1>6. Len(l) \in Nat
  BY <1>4
<1> HIDE DEF l
<1>7. b \in OutType /\ b.kind = "brace" /\ b.vars = Fresh
  BY <1>6, BraceTypes DEF Brace
<1> HIDE DEF b, w
<1>8. Shape(r.out, Append(out, h)) /\ r.out \in Seq(OutType)
  BY <1>1, <1>3, ShapeVisit DEF TextType
<1>9. Nest(Append(r.out, b), t)
  <2>1. \E e \in OutType : e.kind = "for" /\ Shape(r.out, Append(out, e)) /\ ~t[Len(src) + 1].do
    BY <1>1, <1>8
  <2> QED BY <1>2, <1>7, <1>8, <2>1, NestOpens
<1>10. /\ Append(out, h) \in Seq(OutType) /\ Append(out, h) # <<>> /\ Len(Append(out, h)) = Len(out) + 1
       /\ Depth(Append(out, h), Len(out) + 1) = Len(src) + 1
  <2>1. out[Len(out)].kind = "brace" /\ Depth(out, Len(out)) = Len(src)
    BY <1>2 DEF Nest
  <2> QED BY <1>1, <1>2, <2>1, DepthAppends
<1>11. Len(out) \in Nat
  BY <1>2
<1>12. Len(InHeader.out) \in 1 .. Len(InHeader.out) /\ Depth(InHeader.out, Len(InHeader.out)) = Len(src) + 1
  <2>1. Len(out) + 1 \in 1 .. Len(out) + 1
    BY <1>11
  <2> QED BY <1>1, <1>10, <2>1
<1>13. r.out # <<>>
  BY <1>8, <1>10, <1>11, EmptySeq DEF Shape
<1>14. Grown(r.out, w.out)
  BY <1>4, <1>7, <1>8, <1>13, GrownOpens
<1>15. Grown(out, w.out)
  <2>1. Grown(out, InHeader.out)
    BY <1>1, <1>2, GrownOpens
  <2>2. Grown(InHeader.out, r.out)
    BY <1>1, <1>3, <1>10, GrownVisit
  <2>3. Grown(out, r.out)
    BY <2>1, <2>2, GrownTwice
  <2> QED BY <1>14, <2>3, GrownTwice
<1>16. Own(r.out, t) => Own(w.out, t)
  BY <1>4, <1>7, <1>8, <1>13, OwnOpens
<1>17. InHeader.out # <<>> /\ Nest(w.out, t) /\ Pushed(r.declared, w.declared)
  BY <1>1, <1>4, <1>5, <1>9, <1>10
<1>18. Headline(r, w, t, v, n)
  BY <1>3, <1>4, <1>12, <1>14, <1>15, <1>16, <1>17 DEF Headline
<1> QED BY <1>18 DEF r, w
\* The text of a loop's header is owned by the source with the loop's scope.
LEMMA HeadlineOwn ==
  ASSUME Typed, MirrorInv, SoundInv, errors = {}, NEW v \in Var, NEW n \in Name,
         NEW r, NEW w, NEW t, Headline(r, w, t, v, n), Own(out, src), Holds(src, t),
         \E k \in 1 .. Len(t) : k <= Len(src) + 1 /\ t[k].vars[n] = v
  PROVE  Own(w.out, t)
<1>1. /\ InHeader \in TextType /\ InHeader.out = Append(out, Header(Len(declared)))
      /\ Header(Len(declared)) \in OutType /\ Header(Len(declared)).vars = Fresh
  BY HeaderNow
<1>2. out \in Seq(OutType) /\ out # <<>>
  BY SoundNow
<1>3. Own(out, t)
  BY OwnSource
<1>4. Own(InHeader.out, t)
  BY <1>1, <1>2, <1>3, OwnOpens
<1>5. /\ r \in TextType /\ (Leaves(InHeader, r) \/ Declares(InHeader, r, v, n))
      /\ InHeader.out # <<>> /\ Depth(InHeader.out, Len(InHeader.out)) = Len(src) + 1
      /\ Own(r.out, t) => Own(w.out, t)
  BY DEF Headline
<1>6. \/ Leaves(InHeader, r)
      \/ /\ Declares(InHeader, r, v, n)
         /\ \E k \in 1 .. Len(t) : k <= Depth(InHeader.out, Len(InHeader.out)) /\ t[k].vars[n] = v
  BY <1>5
<1>7. Own(r.out, t)
  BY <1>1, <1>4, <1>5, <1>6, OwnVisit
<1> QED BY <1>5, <1>7

LEMMA OverSound ==
  ASSUME Typed, MirrorInv, SoundInv, NEW v \in DOMAIN name, OpenForOver(v) PROVE SoundInv'
<1> SUFFICES ASSUME errors' = {} PROVE SoundInv'
  BY DEF SoundInv
<1> DEFINE n == name[v]
           r == VisitTemporary(InHeader, v, n, "statement")
           w == Opened(r)
           t == Append(src, SourceScope)
           f == Deep \cup UseFeatures(v, "header")
<1>1. /\ errors = {} /\ InSource(v) /\ Meets(f) /\ Writes(w) /\ src' = t /\ name' = name
  BY DEF OpenForOver, Reads
<1>2. /\ InHeader \in TextType /\ InHeader.out = Append(out, Header(Len(declared)))
      /\ Header(Len(declared)) \in OutType /\ Header(Len(declared)).vars = Fresh
      /\ InHeader.declared = declared /\ InHeader.seen = seen
  BY <1>1, HeaderNow
<1>3. /\ out \in Seq(OutType) /\ out # <<>> /\ declared \in Seq(SUBSET Name)
      /\ src \in Seq(SrcType) /\ src # <<>> /\ Len(src) \in Nat \ {0} /\ Len(name) \in Nat
      /\ Nest(out, src) /\ Known(src, Len(name), seen) /\ Settled(out, declared, src, seen, features)
  BY <1>1, SoundNow
<1>4. v \in Var /\ n \in Name /\ v \in 1 .. Len(name) /\ v # Nowhere /\ LookUp(src, n) = v
  BY <1>1, SourceTypes DEF InSource, Var, Nowhere
<1>5. features \subseteq features' /\ ("late" \notin features' => v \in seen)
  BY <1>1, FeaturesGrow DEF UseFeatures
<1>6. r.errors = {}
  BY <1>1, <1>2, <1>4, VisitSteps, OpenedSteps DEF Writes
<1>7. Inner(src, t)
  BY <1>3, BraceTypes, InnerOpens DEF SourceScope
<1>8. Len(t) = Len(src) + 1 /\ (\A k \in 1 .. Len(src) : t[k].do = src[k].do) /\ ~t[Len(src) + 1].do
  BY <1>3, BraceTypes DEF SourceScope
<1>9. Headline(r, w, t, v, n)
  BY <1>1, <1>4, <1>6, <1>8, HeadlineNow
<1>10. Holds(src, t) /\ Holds(t, src)
  <2> HIDE DEF t
  <2>1. /\ \A k \in 1 .. Len(src) : k \in 1 .. Len(t) /\ t[k] = src[k]
        /\ \A k \in 1 .. Len(t), m \in Name : t[k].vars[m] # Nowhere => k \in 1 .. Len(src) /\ t[k] = src[k]
    BY <1>7, InnerBinds
  <2> QED BY <2>1 DEF Holds
<1>11. \E k \in 1 .. Len(t) : k <= Len(src) + 1 /\ t[k].vars[n] = v
  <2>1. PICK k \in 1 .. Len(src) : src[k].vars[n] = v
    <3>1. DOMAIN src = 1 .. Len(src)
      BY <1>3
    <3> QED BY <1>3, <1>4, <3>1, LookUpBinds
  <2>2. t[k].vars[n] = v /\ k \in 1 .. Len(t)
    BY <1>4, <1>10, <2>1 DEF Holds
  <2> QED BY <1>3, <2>1, <2>2
<1>12. "late" \notin features' => Leaves(InHeader, r)
  <2>1. \/ Leaves(InHeader, r)
        \/ v \notin InHeader.seen
    BY <1>2, <1>4, <1>6, VisitClean
  <2> QED BY <1>2, <1>5, <2>1
<1> HIDE DEF r, w, t, f
<1>13. /\ w.seen = r.seen /\ Pushed(r.declared, w.declared) /\ Nest(w.out, t) /\ Grown(out, w.out)
       /\ r.seen \subseteq seen \cup {v}
  BY <1>2, <1>9 DEF Headline, Leaves, Declares
<1>14. Known(t, Len(name), w.seen)
  <2>1. Known(t, Len(name), seen)
    BY <1>3, <1>10, KnownLess
  <2> QED BY <1>4, <1>13, <2>1 DEF Known
<1>15. ASSUME "late" \notin features' PROVE w.seen = seen /\ Pushed(declared, w.declared)
  BY <1>2, <1>12, <1>13, <1>15 DEF Leaves
<1>16. ASSUME features' \cap {"late", "multi", "deep"} = {} PROVE Kept(w.declared, t, w.seen)
  <2>1. Kept(declared, src, seen)
    BY <1>3, <1>5, <1>16 DEF Settled
  <2>2. w.seen = seen /\ Pushed(declared, w.declared)
    BY <1>15, <1>16
  <2>3. Len(t) \in Nat
    BY <1>7, InnerBinds
  <2>4. /\ Len(declared) \in Nat /\ Len(w.declared) \in Nat /\ Len(declared) <= Len(w.declared)
        /\ \A j \in 1 .. Len(declared) : w.declared[j] = declared[j]
    BY <1>3, <2>2, PushedLists
  <2>5. Keeps(declared, w.declared, Len(t))
    BY <2>3, <2>4 DEF Keeps
  <2>6. \A k \in 1 .. Len(t), m \in Name : t[k].vars[m] \in seen =>
          k \in 1 .. Len(src) /\ src[k].vars[m] = t[k].vars[m]
    BY <1>10, SeenIsReal DEF Holds
  <2>7. Kept(w.declared, t, seen)
    BY <2>1, <2>3, <2>5, <2>6, KeptMore
  <2> QED BY <2>2, <2>7
<1>17. ASSUME "shadow" \notin features' PROVE Single(t) /\ Own(w.out, t)
  <2>1. Single(src) /\ Own(out, src)
    BY <1>3, <1>5, <1>17 DEF Settled
  <2>2. Own(w.out, t)
    BY <1>1, <1>4, <1>9, <1>10, <1>11, <2>1, HeadlineOwn
  <2> QED BY <1>10, <2>1, <2>2, SingleLess
<1>18. ASSUME features' \cap {"forReuse", "late", "shadow"} = {} PROVE Live(w.out, w.declared, t)
  <2>1. Live(out, declared, src)
    BY <1>3, <1>5, <1>18 DEF Settled
  <2>2. Pushed(declared, w.declared) /\ Len(out) \in Nat
    BY <1>3, <1>15, <1>18
  <2> QED BY <1>3, <1>7, <1>13, <2>1, <2>2, LiveOpens
<1>19. Settled(w.out, w.declared, t, w.seen, features')
  BY <1>16, <1>17, <1>18 DEF Settled
<1>20. Sound(w.out, w.declared, t, Len(name), w.seen, features')
  BY <1>13, <1>14, <1>19 DEF Sound
<1> QED BY <1>1, <1>20, NextSound
\* What such a loop does to the bindings of the source.
LEMMA ForBinds ==
  ASSUME NEW t, NEW n \in Name, NEW v, v # Nowhere, Len(src) \in Nat \ {0}, ForScope(src, t, n, v)
  PROVE  /\ Holds(src, t) /\ BindsMore(src, t, Len(src) + 1, n, v)
         /\ Len(t) \in Nat
         /\ \E k \in 1 .. Len(t) : k <= Len(src) + 1 /\ t[k].vars[n] = v
<1>1. /\ Len(src) \in Nat \ {0} /\ Len(t) = Len(src) + 1
      /\ \A k \in 1 .. Len(src) : t[k].vars = src[k].vars
      /\ \A m \in Name : t[Len(src) + 1].vars[m] = IF m = n THEN v ELSE Nowhere
  BY DEF ForScope
<1>2. /\ \A k \in 1 .. Len(src) : k \in 1 .. Len(t)
      /\ \A k \in 1 .. Len(t) : k \in 1 .. Len(src) \/ k = Len(src) + 1
      /\ Len(t) \in Nat /\ Len(src) + 1 \in 1 .. Len(t) /\ Len(src) + 1 <= Len(src) + 1
  BY <1>1
<1>3. Holds(src, t)
  BY <1>1, <1>2 DEF Holds
<1>4. BindsMore(src, t, Len(src) + 1, n, v)
  BY <1>1, <1>2 DEF BindsMore
<1>5. t[Len(src) + 1].vars[n] = v
  BY <1>1
<1> QED BY <1>2, <1>3, <1>4, <1>5

\* The parts of the invariant about lists, when a for-loop declares its variable.
LEMMA ForKept ==
  ASSUME Typed, MirrorInv, SoundInv, errors = {}, NEW v \in Var, v = Len(name) + 1, NEW n \in Name,
         NEW r, NEW w, NEW t, ForScope(src, t, n, v), Headline(r, w, t, v, n),
         Kept(declared, src, seen), Len(declared) = Len(src)
  PROVE  Kept(w.declared, t, w.seen)
<1>1. /\ InHeader \in TextType /\ InHeader.declared = declared /\ InHeader.seen = seen
  BY HeaderNow
<1>2. /\ declared \in Seq(SUBSET Name) /\ Len(src) \in Nat \ {0} /\ Len(name) \in Nat
      /\ Known(src, Len(name), seen)
  BY SoundNow
<1>3. v # Nowhere /\ v \notin seen
  BY <1>2 DEF Known, Nowhere
<1>4. BindsMore(src, t, Len(src) + 1, n, v) /\ Len(t) \in Nat
  BY <1>2, <1>3, ForBinds
<1>5. /\ r \in TextType /\ (Leaves(InHeader, r) \/ Declares(InHeader, r, v, n))
      /\ w.seen = r.seen /\ Pushed(r.declared, w.declared) /\ InHeader.out # <<>>
  BY DEF Headline
<1>6. /\ r.declared \in Seq(SUBSET Name)
  BY <1>5 DEF TextType
<1>7. /\ Len(r.declared) \in Nat /\ Len(w.declared) \in Nat /\ Len(r.declared) <= Len(w.declared)
      /\ \A j \in 1 .. Len(r.declared) : w.declared[j] = r.declared[j]
  BY <1>5, <1>6, PushedLists
<1>8. \A k \in 1 .. Len(t), m \in Name : t[k].vars[m] \in seen =>
        k \in 1 .. Len(src) /\ src[k].vars[m] = t[k].vars[m]
  BY <1>3, <1>4, SeenIsReal DEF BindsMore
<1>9. CASE Leaves(InHeader, r)
  <2>1. r.declared = declared /\ r.seen = seen
    BY <1>1, <1>9 DEF Leaves
  <2>2. Keeps(declared, w.declared, Len(t))
    BY <1>4, <1>7, <2>1 DEF Keeps
  <2>3. Kept(w.declared, t, seen)
    BY <1>4, <1>8, <2>2, KeptMore
  <2> QED BY <1>5, <2>1, <2>3
<1>10. CASE Declares(InHeader, r, v, n)
  <2>1. Met(InHeader, r, v, n)
    BY <1>1, <1>5, <1>10, VisitBinds
  <2>2. /\ Len(r.declared) = Len(declared) /\ Len(declared) \in Nat \ {0} /\ r.seen = seen \cup {v}
        /\ \A j \in 1 .. Len(declared) :
             r.declared[j] = IF j = Len(declared) THEN declared[j] \cup {n} ELSE declared[j]
    BY <1>1, <2>1 DEF Met
  <2>3. \A j \in 1 .. Len(declared) : declared[j] \subseteq w.declared[j]
    BY <1>7, <2>2
  <2>4. Keeps(declared, w.declared, Len(t))
    BY <1>4, <1>7, <2>2, <2>3 DEF Keeps
  <2>5. Kept(w.declared, t, seen)
    BY <1>4, <1>8, <2>4, KeptMore
  <2>6. \A k \in 1 .. Len(t), m \in Name : t[k].vars[m] = v => m = n /\ Len(src) \in 1 .. k
    <3>1. \A k \in 1 .. Len(src), m \in Name : src[k].vars[m] # v
      BY <1>2, <1>3 DEF Known
    <3>2. Len(src) \in 1 .. Len(src) + 1
      BY <1>2
    <3> QED BY <1>3, <1>4, <3>1, <3>2 DEF BindsMore
  <2>7. Len(declared) \in 1 .. Len(declared)
    BY <2>2
  <2>8. Len(src) <= Len(w.declared) /\ n \in w.declared[Len(src)]
    BY <1>7, <2>2, <2>7
  <2>9. Kept(w.declared, t, seen \cup {v})
    <3> DEFINE i == Len(src)
    <3>1. \A k \in 1 .. Len(t), m \in Name : t[k].vars[m] = v => m = n /\ i \in 1 .. k
      BY <2>6
    <3>2. i <= Len(w.declared) /\ n \in w.declared[i]
      BY <2>8
    <3> HIDE DEF i
    <3> QED BY <2>5, <3>1, <3>2, KeptMarks
  <2> QED BY <1>5, <2>2, <2>9
<1> QED BY <1>5, <1>9, <1>10

LEMMA ForLive ==
  ASSUME Typed, MirrorInv, SoundInv, errors = {}, NEW v \in Var, NEW n \in Name,
         NEW r, NEW w, NEW t, ForScope(src, t, n, v), Headline(r, w, t, v, n), Declares(InHeader, r, v, n),
         Live(out, declared, src), \A k \in 1 .. Len(src) : src[k].vars[n] = Nowhere /\ n \notin src[k].fors
  PROVE  Live(w.out, w.declared, t)
<1>1. InHeader \in TextType /\ InHeader.declared = declared
  BY HeaderNow
<1>2. /\ out \in Seq(OutType) /\ declared \in Seq(SUBSET Name) /\ Len(src) \in Nat \ {0}
      /\ src \in Seq(SrcType) /\ src # <<>>
  BY SoundNow
<1>3. /\ r \in TextType /\ Pushed(r.declared, w.declared)
      /\ InHeader.out # <<>> /\ Grown(out, w.out) /\ Grown(r.out, w.out)
      /\ Depth(InHeader.out, Len(InHeader.out)) = Len(src) + 1
  BY DEF Headline
<1>4. Met(InHeader, r, v, n)
  BY <1>1, <1>3, VisitBinds
<1>5. \E i \in 1 .. Len(r.out) : r.out[i].vars[n] # Nowhere /\ Depth(r.out, i) = Len(src) + 1
  BY <1>3, <1>4 DEF Met
<1>6. \E i \in 1 .. Len(w.out) : w.out[i].vars[n] # Nowhere /\ Depth(w.out, i) = Len(src) + 1
  BY <1>3, <1>5 DEF Grown
<1>7. r.declared \in Seq(SUBSET Name)
  BY <1>3 DEF TextType
<1>8. /\ Len(r.declared) \in Nat /\ Len(w.declared) \in Nat /\ Len(w.declared) - Len(r.declared) <= 1
      /\ \A j \in 1 .. Len(w.declared) : \A m : m \in w.declared[j] => j \in 1 .. Len(r.declared) /\ m \in r.declared[j]
  BY <1>3, <1>7, PushedLists
<1>9. /\ Len(r.declared) = Len(declared) /\ Len(declared) \in Nat \ {0}
      /\ \A j \in 1 .. Len(declared) :
           r.declared[j] = IF j = Len(declared) THEN declared[j] \cup {n} ELSE declared[j]
  BY <1>1, <1>4 DEF Met
<1>10. \A j \in 1 .. Len(w.declared), m \in Name : m \in w.declared[j] =>
         (j \in 1 .. Len(declared) /\ m \in declared[j]) \/ (m = n /\ Len(w.declared) - j <= 1)
  <2> SUFFICES ASSUME NEW j \in 1 .. Len(w.declared), NEW m \in Name, m \in w.declared[j]
               PROVE  (j \in 1 .. Len(declared) /\ m \in declared[j]) \/ (m = n /\ Len(w.declared) - j <= 1)
    OBVIOUS
  <2>1. j \in 1 .. Len(declared) /\ m \in r.declared[j]
    BY <1>8, <1>9
  <2>2. CASE j = Len(declared)
    BY <1>8, <1>9, <2>1, <2>2
  <2>3. CASE j # Len(declared)
    <3>1. r.declared[j] = declared[j]
      BY <1>9, <2>1, <2>3
    <3> QED BY <2>1, <3>1
  <2> QED BY <2>2, <2>3
<1>11. Len(w.declared) \in Nat /\ Len(w.declared) - Len(declared) <= 1 /\ Len(out) \in Nat
  BY <1>2, <1>8, <1>9
<1> DEFINE b == w.out
           c == w.declared
<1>13. /\ Grown(out, b) /\ \E i \in 1 .. Len(b) : b[i].vars[n] # Nowhere /\ Depth(b, i) = Len(src) + 1
       /\ Len(c) \in Nat /\ Len(c) - Len(declared) <= 1
       /\ \A j \in 1 .. Len(c), m \in Name : m \in c[j] =>
            (j \in 1 .. Len(declared) /\ m \in declared[j]) \/ (m = n /\ Len(c) - j <= 1)
  BY <1>3, <1>6, <1>10, <1>11
<1> HIDE DEF b, c
<1>14. Live(b, c, t)
  BY <1>2, <1>11, <1>13, LiveFor
<1> QED BY <1>14 DEF b, c
\* A for-loop whose variable has a new name writes its type.
LEMMA ForDeclares ==
  ASSUME Typed, MirrorInv, SoundInv, errors = {}, NEW v \in Var, NEW n \in Name,
         VisitTemporary(InHeader, v, n, "statement").errors = {},
         NEW f, Meets(f), NameFeatures(n) \subseteq f, "shadow" \notin features'
  PROVE  Declares(InHeader, VisitTemporary(InHeader, v, n, "statement"), v, n)
<1>1. /\ InHeader \in TextType /\ InHeader.out = Append(out, Header(Len(declared)))
      /\ Header(Len(declared)) \in OutType /\ Header(Len(declared)).vars = Fresh
      /\ InHeader.declared = declared
  BY HeaderNow
<1>2. out \in Seq(OutType) /\ out # <<>> /\ declared \in Seq(SUBSET Name)
  BY SoundNow
<1>3. Vacant(out, declared, n, features') /\ Pushed(declared, declared)
  BY NewNow DEF Pushed
<1>4. Vacant(InHeader.out, declared, n, features')
  BY <1>1, <1>2, <1>3, VacantOpens
<1>5. LookUp(InHeader.out, n) = Nowhere
  <2>1. InHeader.out \in Seq(OutType)
    BY <1>1 DEF TextType
  <2>2. Len(InHeader.out) \in Nat /\ DOMAIN InHeader.out = 1 .. Len(InHeader.out)
    BY <2>1
  <2>3. \A i \in 1 .. Len(InHeader.out) : InHeader.out[i].vars[n] = Nowhere
    BY <1>4 DEF Vacant
  <2> QED BY <2>2, <2>3, LookUpBinds
<1>6. LookUp(InHeader.out, n) # v
  BY <1>5 DEF Var, Nowhere
<1> QED BY <1>1, <1>6, VisitClean

LEMMA ForSound ==
  ASSUME Typed, MirrorInv, SoundInv, NEW n \in Name, OpenFor(n) PROVE SoundInv'
<1> SUFFICES ASSUME errors' = {} PROVE SoundInv'
  BY DEF SoundInv
<1> DEFINE v == Len(name) + 1
           r == VisitTemporary(InHeader, v, n, "statement")
           w == Opened(r)
           f == Deep \cup NameFeatures(n)
<1>1. /\ errors = {} /\ Len(src) <= MaxOpen /\ v <= MaxVars /\ Meets(f) /\ Writes(w)
      /\ src' = BindTop(Append(ForsAfter(n), SourceScope), n, v) /\ name' = Append(name, n)
      /\ pointer' = PushedPointer(pointer)
  BY DEF OpenFor, Reads, ForsAfter
<1>2. NameFeatures(n) \subseteq f
  OBVIOUS
<1>3. /\ InHeader \in TextType /\ InHeader.declared = declared /\ InHeader.seen = seen
  BY <1>1, HeaderNow
<1>4. /\ declared \in Seq(SUBSET Name)
      /\ src \in Seq(SrcType) /\ src # <<>> /\ Len(src) \in Nat \ {0} /\ Len(name) \in Nat
      /\ Known(src, Len(name), seen) /\ Settled(out, declared, src, seen, features)
      /\ "deep" \notin features => Len(declared) = Len(src)
  BY <1>1, SoundNow
<1>5. v \in Var /\ v # Nowhere /\ Len(name) < MaxVars /\ v = Len(name) + 1
  BY <1>1, <1>4, ScopesAssumption DEF Var, Nowhere
<1>6. Len(name') = v
  BY <1>1, <1>5, NameGrows
<1>7. features \subseteq features'
  BY <1>1, FeaturesGrow
<1>8. ForScope(src, src', n, v)
  BY <1>1, <1>5, ForOpens DEF ForScope
<1>9. r.errors = {}
  BY <1>1, <1>3, <1>5, VisitSteps, OpenedSteps DEF Writes
<1>10. /\ "shadow" \notin features' => \A k \in 1 .. Len(src) : src[k].vars[n] = Nowhere
       /\ "forReuse" \notin features' => \A k \in 1 .. Len(src) : n \notin src[k].fors
  BY <1>1, <1>2, NameNow
<1> HIDE DEF v, f
<1>11. Headline(r, w, src', v, n)
  <2>1. Len(src') = Len(src) + 1 /\ (\A k \in 1 .. Len(src) : src'[k].do = src[k].do) /\ ~src'[Len(src) + 1].do
    BY <1>8 DEF ForScope
  <2> QED BY <1>1, <1>5, <1>9, <2>1, HeadlineNow
<1>12. "shadow" \notin features' => Declares(InHeader, r, v, n)
  BY <1>1, <1>2, <1>5, <1>9, ForDeclares
<1> HIDE DEF r, w
<1>13. /\ Holds(src, src') /\ BindsMore(src, src', Len(src) + 1, n, v)
       /\ \E k \in 1 .. Len(src') : k <= Len(src) + 1 /\ src'[k].vars[n] = v
  <2>1. v # Nowhere /\ Len(src) \in Nat \ {0}
    BY <1>4, <1>5
  <2> QED BY <2>1, <1>8, ForBinds
<1>14. Nest(w.out, src') /\ w.seen = r.seen /\ (r.seen = seen \/ r.seen = seen \cup {v})
  BY <1>3, <1>11 DEF Headline, Leaves, Declares
<1>15. Known(src', v, w.seen)
  <2>1. Known(src', v, seen) /\ Known(src', v, seen \cup {v})
    BY <1>4, <1>5, <1>13, KnownMore
  <2> QED BY <1>14, <2>1
<1>16. ASSUME features' \cap {"late", "multi", "deep"} = {} PROVE Kept(w.declared, src', w.seen)
  <2>1. Kept(declared, src, seen) /\ Len(declared) = Len(src)
    BY <1>4, <1>7, <1>16 DEF Settled
  <2> QED BY <1>1, <1>5, <1>8, <1>11, <2>1, ForKept
<1>17. ASSUME "shadow" \notin features' PROVE Single(src') /\ Own(w.out, src')
  <2>1. Single(src) /\ Own(out, src)
    BY <1>4, <1>7, <1>17 DEF Settled
  <2>2. Own(w.out, src')
    BY <1>1, <1>5, <1>11, <1>13, <2>1, HeadlineOwn
  <2>3. \A k \in 1 .. Len(src) : src[k].vars[n] = Nowhere
    BY <1>10, <1>17
  <2>4. Single(src')
    BY <1>13, <2>1, <2>3, SingleMore
  <2> QED BY <2>2, <2>4
<1>18. ASSUME features' \cap {"forReuse", "late", "shadow"} = {} PROVE Live(w.out, w.declared, src')
  <2>1. Live(out, declared, src)
    BY <1>4, <1>7, <1>18 DEF Settled
  <2>2. \A k \in 1 .. Len(src) : src[k].vars[n] = Nowhere /\ n \notin src[k].fors
    BY <1>10, <1>18
  <2>3. Declares(InHeader, r, v, n)
    BY <1>12, <1>18
  <2> QED BY <1>1, <1>5, <1>8, <1>11, <2>1, <2>2, <2>3, ForLive
<1>19. Settled(w.out, w.declared, src', w.seen, features')
  BY <1>16, <1>17, <1>18 DEF Settled
<1>20. Sound(w.out, w.declared, src', Len(name'), w.seen, features')
  BY <1>6, <1>14, <1>15, <1>19 DEF Sound
<1> QED BY <1>1, <1>20, NextSound

-----------------------------------------------------------------------------
(* The ends of compound statements.                                        *)

LEMMA CloseSound == ASSUME Typed, MirrorInv, SoundInv, Close PROVE SoundInv'
<1> SUFFICES ASSUME errors' = {} PROVE SoundInv'
  BY DEF SoundInv
<1>1. /\ errors = {} /\ Len(src) > 1 /\ src' = Front(src) /\ Writes(Closed)
      /\ name' = name /\ features' = features
  BY CloseSteps DEF Close
<1>2. /\ Closed.out = AfterBrace(out) /\ Closed.declared = PopDepth(declared) /\ Closed.seen = seen
  BY ClosedTypes
<1>3. out \in Seq(OutType) /\ src \in Seq(SrcType) /\ Nest(out, src)
  BY <1>1, SoundNow
<1>4. Drops(out, AfterBrace(out), src, Front(src))
  BY <1>1, <1>3, NestCloses
<1>5. Sound(AfterBrace(out), PopDepth(declared), Front(src), Len(name), seen, features)
  BY <1>1, <1>4, SoundCloses
<1>6. Sound(Closed.out, Closed.declared, src', Len(name'), Closed.seen, features')
  BY <1>1, <1>2, <1>5
<1> QED BY <1>1, <1>6, NextSound

LEMMA DoSound ==
  ASSUME Typed, MirrorInv, SoundInv, NEW v \in DOMAIN name, CloseDo(v) PROVE SoundInv'
<1> SUFFICES ASSUME errors' = {} PROVE SoundInv'
  BY DEF SoundInv
<1> DEFINE r == VisitTemporary(InBraces(Text), v, name[v], "inside")
<1>1. /\ errors = {} /\ Meets(IF v \in seen THEN {} ELSE {"late"}) /\ src' = Front(src)
      /\ Writes(r) /\ name' = name
  BY DEF CloseDo
<1>2. /\ Drops(out, Front(out), src, Front(src))
      /\ InBraces(Text) \in TextType /\ InBraces(Text).out = Front(out)
      /\ InBraces(Text).declared = PopDepth(declared) /\ InBraces(Text).seen = seen
  BY DoDrops
<1>3. v \in Var /\ name[v] \in Name
  BY SourceTypes
<1>4. r.errors = {}
  BY <1>1 DEF Writes
<1>5. Leaves(InBraces(Text), r)
  BY <1>2, <1>3, <1>4, VisitClean
<1> HIDE DEF r
<1>6. Sound(Front(out), PopDepth(declared), Front(src), Len(name), seen, features)
  BY <1>1, <1>2, SoundCloses
<1>7. features \subseteq features'
  BY <1>1, FeaturesGrow
<1>8. Sound(Front(out), PopDepth(declared), Front(src), Len(name), seen, features')
  BY <1>6, <1>7, SettledMore DEF Sound
<1>9. Sound(r.out, r.declared, src', Len(name'), r.seen, features')
  BY <1>1, <1>2, <1>5, <1>8 DEF Leaves
<1> QED BY <1>1, <1>9, NextSound
-----------------------------------------------------------------------------
(* Every step, and the theorem.                                            *)

LEMMA SoundStep == ASSUME Typed, MirrorInv, SoundInv, [Next]_vars PROVE SoundInv'
<1>1. ASSUME NEW n \in Name, Declare(n) \/ DeclareInit(n) \/ DeclareConst(n) PROVE SoundInv'
  BY <1>1, DeclareSound
<1>2. ASSUME NEW n \in Name, OpenFor(n) PROVE SoundInv'
  BY <1>2, ForSound
<1>3. ASSUME NEW m \in Name, NEW n \in Name, DeclareTwo(m, n) PROVE SoundInv'
  BY <1>3, TwoSound
<1>4. ASSUME NEW v \in DOMAIN name, Assign(v) \/ Use(v) PROVE SoundInv'
  BY <1>4, UsesSound
<1>5. ASSUME NEW v \in DOMAIN name, OpenForOver(v) PROVE SoundInv'
  BY <1>5, OverSound
<1>6. ASSUME NEW v \in DOMAIN name, CloseDo(v) PROVE SoundInv'
  BY <1>6, DoSound
<1>7. CASE OpenBlock \/ OpenDo \/ \E v \in DOMAIN name : Headed(v)
  BY <1>7, BlocksSound
<1>8. CASE Close
  BY <1>8, CloseSound
<1>9. CASE UNCHANGED vars
  BY <1>9 DEF vars, SoundInv
<1> QED BY <1>1, <1>2, <1>3, <1>4, <1>5, <1>6, <1>7, <1>8, <1>9 DEF Next, OpenIf, OpenWhile, OpenSwitch

\* What a step that meets no name writes is right, but for a list that is not there.
LEMMA QuietExplained ==
  ASSUME Typed, MirrorInv, SoundInv, (\E n \in Name : Declare(n)) \/ OpenBlock \/ OpenDo \/ Close
  PROVE  ErrorsExplained'
<1>1. errors = {}
  BY DEF Declare, OpenBlock, OpenDo, Close, Reads
<1>2. Text \in TextType /\ Text.errors = errors
  BY TextTypes DEF Text
<1>3. CASE OpenBlock \/ OpenDo
  <2>1. errors' = {}
    BY <1>1, <1>2, <1>3, OpenedSteps DEF OpenBlock, OpenDo, Writes
  <2> QED BY <2>1 DEF ErrorsExplained
<1>4. CASE \E n \in Name : Declare(n)
  BY <1>1, <1>4 DEF Declare, ErrorsExplained
<1>5. CASE Close
  <2>1. Writes(Closed) /\ features' = features /\ Closed.errors = Underflow(declared)
    BY <1>1, <1>5, CloseSteps, ClosedTypes
  <2>2. \A e \in Closed.errors : Explanations(e) \cap features' # {}
    BY <1>1, <2>1, OverflowIsDeep
  <2> QED BY <2>1, <2>2, NextExplained
<1> QED BY <1>3, <1>4, <1>5

\* What is not a temporary is never declared, in a source that has a const.
LEMMA ConstExplained ==
  ASSUME Typed, MirrorInv, SoundInv, NEW n \in Name, DeclareConst(n) PROVE ErrorsExplained'
<1> DEFINE txt == VisitSymbol(Text, Len(name) + 1, n, "EvqConstReadOnly", "statement")
           f   == NameFeatures(n) \cup {"const"}
<1>1. errors = {} /\ Meets(f) /\ Writes(txt)
  BY DEF DeclareConst, Reads
<1>2. "const" \in features'
  BY <1>1, FeaturesGrow
<1> HIDE DEF f
<1>3. Text.errors = {}
  BY <1>1, SoundNow
<1>4. txt.errors \subseteq {"undeclared", "captured"}
  <2> DEFINE b == LookUp(Text.out, n)
             e == IF b = Nowhere THEN {"undeclared"}
                  ELSE IF b # Len(name) + 1 THEN {"captured"} ELSE {}
  <2>1. txt = [Text EXCEPT !.errors = @ \cup e]
    BY DEF VisitSymbol
  <2>2. txt.errors = Text.errors \cup e
    BY <2>1, TextTypes DEF TextType
  <2> QED BY <1>3, <2>2
<1> HIDE DEF txt
<1>5. \A e \in txt.errors : Explanations(e) \cap features' # {}
  BY <1>2, <1>4 DEF Explanations
<1> QED BY <1>1, <1>5, NextExplained

LEMMA ExplainedStep ==
  ASSUME Typed, MirrorInv, SoundInv, ErrorsExplained, [Next]_vars PROVE ErrorsExplained'
<1>1. ASSUME NEW n \in Name, DeclareInit(n) PROVE ErrorsExplained'
  BY <1>1, InitExplained
<1>2. ASSUME NEW n \in Name, OpenFor(n) PROVE ErrorsExplained'
  BY <1>2, ForExplained
<1>3. ASSUME NEW m \in Name, NEW n \in Name, DeclareTwo(m, n) PROVE ErrorsExplained'
  BY <1>3, TwoExplained
<1>4. ASSUME NEW v \in DOMAIN name, Assign(v) \/ Use(v) PROVE ErrorsExplained'
  BY <1>4, UsesExplained
<1>5. ASSUME NEW v \in DOMAIN name, OpenForOver(v) PROVE ErrorsExplained'
  BY <1>5, OverExplained
<1>6. ASSUME NEW v \in DOMAIN name, CloseDo(v) PROVE ErrorsExplained'
  BY <1>6, DoExplained
<1>7. ASSUME NEW v \in DOMAIN name, Headed(v) PROVE ErrorsExplained'
  BY <1>7, HeadedExplained
<1>8. CASE (\E n \in Name : Declare(n)) \/ OpenBlock \/ OpenDo \/ Close
  BY <1>8, QuietExplained
<1>10. ASSUME NEW n \in Name, DeclareConst(n) PROVE ErrorsExplained'
  BY <1>10, ConstExplained
<1>9. CASE UNCHANGED vars
  BY <1>9 DEF vars, ErrorsExplained
<1> QED BY <1>1, <1>2, <1>3, <1>4, <1>5, <1>6, <1>7, <1>8, <1>9, <1>10 DEF Next, OpenIf, OpenWhile, OpenSwitch

LEMMA SoundInit == ASSUME Init PROVE SoundInv /\ ErrorsExplained
<1>1. /\ name = <<>> /\ src = <<SourceScope>> /\ out = <<Brace(1)>> /\ declared = <<{}>>
      /\ seen = {} /\ errors = {} /\ features = {}
  BY DEF Init
<1>2. Len(out) = 1 /\ Len(src) = 1 /\ Len(declared) = 1 /\ Len(name) = 0 /\ out # <<>>
  BY <1>1
<1>3. /\ out[1].kind = "brace" /\ out[1].vars = Fresh
      /\ src[1].vars = Fresh /\ src[1].fors = {} /\ declared[1] = {}
  BY <1>1 DEF Brace, SourceScope
<1>4. \A k : k \in 1 .. 1 <=> k = 1
  OBVIOUS
<1>5. \A n \in Name : Fresh[n] = Nowhere
  BY DEF Fresh
<1>6. Nest(out, src)
  BY <1>2, <1>3, <1>4, DepthFirst DEF Nest, Loops
<1>7. Known(src, Len(name), seen)
  BY <1>1, <1>2, <1>3, <1>4, <1>5 DEF Known
<1>8. Kept(declared, src, seen)
  BY <1>1 DEF Kept
<1>9. Single(src) /\ Own(out, src)
  BY <1>2, <1>3, <1>4, <1>5 DEF Single, Own
<1>10. Live(out, declared, src)
  <2>1. Heading(out, src)
    BY <1>2, <1>3, <1>4 DEF Heading
  <2>2. \A j \in 1 .. Len(declared), n \in Name : n \notin declared[j]
    BY <1>2, <1>3, <1>4
  <2> QED BY <2>1, <2>2 DEF Live
<1>11. Settled(out, declared, src, seen, features)
  BY <1>8, <1>9, <1>10 DEF Settled
<1>12. SoundInv
  BY <1>6, <1>7, <1>11 DEF SoundInv, Sound
<1> QED BY <1>1, <1>12 DEF ErrorsExplained

\* Whatever is wrong with the text that visitSymbol, pushDepth and popDepth write has
\* its reason in the source: an undeclared use needs a name with two variables, a first
\* use out of place or a const, a captured one needs shadowing or a const, a type
\* written twice or inside an expression needs a late first use, a declaration of
\* several or too deep a nesting, and only nesting to MAX_TRAVERSE_DEPTH runs the emitter out of lists.
THEOREM ErrorsAreExplained == Spec => []ErrorsExplained
<1>1. Init => Typed /\ MirrorInv /\ SoundInv /\ ErrorsExplained
  BY TypeInit, MirrorInit, SoundInit
<1>2. Typed /\ MirrorInv /\ SoundInv /\ ErrorsExplained /\ [Next]_vars
        => Typed' /\ MirrorInv' /\ SoundInv' /\ ErrorsExplained'
  BY TypeStep, MirrorStep, SoundStep, ExplainedStep
<1> QED BY <1>1, <1>2, PTL DEF Spec
=============================================================================
