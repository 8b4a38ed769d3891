------------------------ MODULE EmitterScopes_proofs ------------------------
(***************************************************************************)
(* Proofs about EmitterScopes for any names, any bounds and any depth      *)
(* limit: type correctness, that below the limit the emitter's lists        *)
(* mirror the braces of its text, and that a source without the features    *)
(* named in the module keeps its variables visible.                         *)
(***************************************************************************)
EXTENDS EmitterScopes, SequenceTheorems, TLAPS

SrcType  == [vars : Scope, fors : SUBSET Name, do : BOOLEAN]
OutType  == [kind : {"brace", "for"}, list : Nat, vars : Scope]
TextType == [out : Seq(OutType), declared : Seq(SUBSET Name), seen : SUBSET Var,
             errors : SUBSET Error]

-----------------------------------------------------------------------------
(* Stacks.                                                                 *)

LEMMA FrontOf ==
  ASSUME NEW S, NEW s \in Seq(S)
  PROVE  /\ Front(s) \in Seq(S)
         /\ s # <<>> => Len(Front(s)) = Len(s) - 1
         /\ s = <<>> => Front(s) = <<>>
         /\ \A i \in 1 .. Len(s) - 1 : Front(s)[i] = s[i]
<1>1. Len(s) \in Nat
  BY LenProperties
<1>2. Front(s) = SubSeq(s, 1, Len(s) - 1)
  BY DEF Front
<1>3. s # <<>> => Len(s) > 0
  BY EmptySeq
<1>4. Len(s) - 1 \in Int /\ 1 \in Int
  BY <1>1
<1>5. \A i \in 1 .. Len(s) - 1 : s[i] \in S
  BY <1>1, ElementOfSeq
<1> DEFINE f == SubSeq(s, 1, Len(s) - 1)
           k == Len(s) - 1
<1>6. /\ f \in Seq(S)
      /\ Len(f) = IF 1 <= k THEN k - 1 + 1 ELSE 0
      /\ \A i \in 1 .. k - 1 + 1 : f[i] = s[1 + i - 1]
  BY <1>4, <1>5, SubSeqProperties
<1>7. s = <<>> => f = <<>>
  BY SubSeqEmpty, EmptySeq
<1> HIDE DEF f
<1>8. s # <<>> => Len(f) = Len(s) - 1
  <2>1. Len(f) = IF 1 <= k THEN k - 1 + 1 ELSE 0
    BY <1>6
  <2>2. \A l \in Nat : l > 0 => (IF 1 <= l - 1 THEN l - 1 - 1 + 1 ELSE 0) = l - 1
    OBVIOUS
  <2> QED BY <1>1, <1>3, <2>1, <2>2
<1>9. \A i \in 1 .. Len(s) - 1 : f[i] = s[i]
  BY <1>1, <1>6
<1>10. Front(s) = f
  BY <1>2 DEF f
<1> QED BY <1>6, <1>7, <1>8, <1>9, <1>10

\* The variables of one scope after a declaration.
LEMMA ScopeBinds ==
  ASSUME NEW f \in Scope, NEW n \in Name, NEW v \in Var \cup {Nowhere}
  PROVE  /\ [f EXCEPT ![n] = v] \in Scope
         /\ \A m \in Name : [f EXCEPT ![n] = v][m] = IF m = n THEN v ELSE f[m]
BY DEF Scope

LEMMA BindOut ==
  ASSUME NEW o \in Seq(OutType), NEW n \in Name, NEW v \in Var \cup {Nowhere}
  PROVE  LET b == BindTop(o, n, v) IN
         /\ b \in Seq(OutType) /\ Len(b) = Len(o)
         /\ \A i \in 1 .. Len(o) :
              /\ b[i].kind = o[i].kind /\ b[i].list = o[i].list
              /\ \A m \in Name : b[i].vars[m] = IF i = Len(o) /\ m = n THEN v ELSE o[i].vars[m]
<1>1. CASE o = <<>>
  <2>1. BindTop(o, n, v) = <<>> /\ Len(o) = 0
    BY <1>1, EmptySeq DEF BindTop
  <2>2. <<>> \in Seq(OutType) /\ 1 .. 0 = {}
    BY EmptySeq
  <2> QED BY <1>1, <2>1, <2>2
<1>2. CASE o # <<>>
  <2>1. Len(o) \in Nat \ {0} /\ Len(o) \in 1 .. Len(o)
    BY <1>2, EmptySeq
  <2>2. o[Len(o)] \in OutType
    BY <2>1, ElementOfSeq
  <2>3. o[Len(o)].vars \in Scope
    BY <2>2 DEF OutType
  <2> DEFINE f == [o[Len(o)].vars EXCEPT ![n] = v]
             e == [o[Len(o)] EXCEPT !.vars = f]
  <2>4. f \in Scope /\ \A m \in Name : f[m] = IF m = n THEN v ELSE o[Len(o)].vars[m]
    <3> DEFINE g == o[Len(o)].vars
    <3>1. g \in Scope
      BY <2>3
    <3> HIDE DEF g
    <3>2. [g EXCEPT ![n] = v] \in Scope
          /\ \A m \in Name : [g EXCEPT ![n] = v][m] = IF m = n THEN v ELSE g[m]
      BY <3>1, ScopeBinds
    <3> QED BY <3>2 DEF g
  <2>5. BindTop(o, n, v) = [o EXCEPT ![Len(o)] = e]
    BY DEF BindTop
  <2> HIDE DEF f
  <2>7. e \in OutType /\ e.kind = o[Len(o)].kind /\ e.list = o[Len(o)].list /\ e.vars = f
    BY <2>2, <2>4 DEF OutType
  <2> HIDE DEF e
  <2>8. /\ BindTop(o, n, v) \in Seq(OutType) /\ Len(BindTop(o, n, v)) = Len(o)
        /\ \A i \in 1 .. Len(o) : BindTop(o, n, v)[i] = IF i = Len(o) THEN e ELSE o[i]
    BY <2>1, <2>5, <2>7, ExceptSeq
  <2> QED BY <2>4, <2>7, <2>8
<1> QED BY <1>1, <1>2

LEMMA BindSrc ==
  ASSUME NEW s \in Seq(SrcType), NEW n \in Name, NEW v \in Var \cup {Nowhere}
  PROVE  LET b == BindTop(s, n, v) IN
         /\ b \in Seq(SrcType) /\ Len(b) = Len(s)
         /\ \A i \in 1 .. Len(s) :
              /\ b[i].fors = s[i].fors /\ b[i].do = s[i].do
              /\ \A m \in Name : b[i].vars[m] = IF i = Len(s) /\ m = n THEN v ELSE s[i].vars[m]
<1>1. CASE s = <<>>
  <2>1. BindTop(s, n, v) = <<>> /\ Len(s) = 0
    BY <1>1, EmptySeq DEF BindTop
  <2>2. <<>> \in Seq(SrcType) /\ 1 .. 0 = {}
    BY EmptySeq
  <2> QED BY <1>1, <2>1, <2>2
<1>2. CASE s # <<>>
  <2>1. Len(s) \in Nat \ {0} /\ Len(s) \in 1 .. Len(s)
    BY <1>2, EmptySeq
  <2>2. s[Len(s)] \in SrcType
    BY <2>1, ElementOfSeq
  <2>3. s[Len(s)].vars \in Scope
    BY <2>2 DEF SrcType
  <2> DEFINE f == [s[Len(s)].vars EXCEPT ![n] = v]
             e == [s[Len(s)] EXCEPT !.vars = f]
  <2>4. f \in Scope /\ \A m \in Name : f[m] = IF m = n THEN v ELSE s[Len(s)].vars[m]
    <3> DEFINE g == s[Len(s)].vars
    <3>1. g \in Scope
      BY <2>3
    <3> HIDE DEF g
    <3>2. [g EXCEPT ![n] = v] \in Scope
          /\ \A m \in Name : [g EXCEPT ![n] = v][m] = IF m = n THEN v ELSE g[m]
      BY <3>1, ScopeBinds
    <3> QED BY <3>2 DEF g
  <2>5. BindTop(s, n, v) = [s EXCEPT ![Len(s)] = e]
    BY DEF BindTop
  <2> HIDE DEF f
  <2>7. e \in SrcType /\ e.fors = s[Len(s)].fors /\ e.do = s[Len(s)].do /\ e.vars = f
    BY <2>2, <2>4 DEF SrcType
  <2> HIDE DEF e
  <2>8. /\ BindTop(s, n, v) \in Seq(SrcType) /\ Len(BindTop(s, n, v)) = Len(s)
        /\ \A i \in 1 .. Len(s) : BindTop(s, n, v)[i] = IF i = Len(s) THEN e ELSE s[i]
    BY <2>1, <2>5, <2>7, ExceptSeq
  <2> QED BY <2>4, <2>7, <2>8
<1> QED BY <1>1, <1>2

-----------------------------------------------------------------------------
(* What the emitter does to its text.                                      *)

\* A symbol is met: its type is written, with its name in the last list, or not.
Leaves(txt, r) == r.out = txt.out /\ r.declared = txt.declared /\ r.seen = txt.seen
Declares(txt, r, v, n) ==
  /\ txt.declared # <<>> /\ ~IsVarDeclared(txt.declared, n)
  /\ r.out = BindTop(txt.out, n, v)
  /\ r.declared = [txt.declared EXCEPT ![Len(txt.declared)] = @ \cup {n}]
  /\ r.seen = txt.seen \cup {v}

LEMMA SymbolSteps ==
  ASSUME NEW txt \in TextType, NEW v \in Var, NEW n \in Name, NEW storage, NEW place
  PROVE  LET r == VisitSymbol(txt, v, n, storage, place) IN
         /\ r \in TextType
         /\ Leaves(txt, r) \/ Declares(txt, r, v, n)
<1>1. /\ txt.out \in Seq(OutType) /\ txt.declared \in Seq(SUBSET Name)
      /\ txt.seen \in SUBSET Var /\ txt.errors \in SUBSET Error
  BY DEF TextType
<1> DEFINE r == VisitSymbol(txt, v, n, storage, place)
           first == storage = "EvqTemporary" /\ ~IsVarDeclared(txt.declared, n)
<1>2. \A e \in SUBSET Error : LET q == [txt EXCEPT !.errors = @ \cup e] IN
        q \in TextType /\ Leaves(txt, q)
  BY <1>1 DEF TextType, Leaves
<1>3. CASE first /\ txt.declared = <<>>
  <2>1. r = [txt EXCEPT !.errors = @ \cup {"overflow"}]
    BY <1>3 DEF VisitSymbol
  <2>2. {"overflow"} \in SUBSET Error
    BY DEF Error
  <2> QED BY <1>2, <2>1, <2>2
<1>4. CASE ~first
  <2> DEFINE b == LookUp(txt.out, n)
             e == IF b = Nowhere THEN {"undeclared"} ELSE IF b # v THEN {"captured"} ELSE {}
  <2>1. r = [txt EXCEPT !.errors = @ \cup e]
    BY <1>4 DEF VisitSymbol
  <2>2. e \in SUBSET Error
    BY DEF Error
  <2> QED BY <1>2, <2>1, <2>2
<1>5. CASE first /\ txt.declared # <<>>
  <2> DEFINE d == [txt.declared EXCEPT ![Len(txt.declared)] = @ \cup {n}]
             e == txt.errors \cup (IF v \in txt.seen THEN {"split"} ELSE {})
                             \cup (IF place = "inside" THEN {"misplaced"} ELSE {})
  <2>1. r = [out |-> BindTop(txt.out, n, v), declared |-> d, seen |-> txt.seen \cup {v},
             errors |-> e]
    BY <1>5 DEF VisitSymbol, DeclareVar
  <2>2. BindTop(txt.out, n, v) \in Seq(OutType)
    BY <1>1, BindOut
  <2>3. d \in Seq(SUBSET Name)
    <3>1. Len(txt.declared) \in 1 .. Len(txt.declared)
      BY <1>1, <1>5, EmptySeq
    <3>2. txt.declared[Len(txt.declared)] \cup {n} \in SUBSET Name
      BY <1>1, <3>1, ElementOfSeq
    <3> QED BY <1>1, <3>1, <3>2, ExceptSeq
  <2>4. e \in SUBSET Error /\ txt.seen \cup {v} \in SUBSET Var
    BY <1>1 DEF Error
  <2>5. r \in TextType
    BY <2>1, <2>2, <2>3, <2>4 DEF TextType
  <2>6. Declares(txt, r, v, n)
    <3> HIDE DEF r, d, e
    <3>1. r.out = BindTop(txt.out, n, v) /\ r.declared = d /\ r.seen = txt.seen \cup {v}
      BY <2>1
    <3> QED BY <1>5, <3>1 DEF Declares, d
  <2> QED BY <2>5, <2>6
<1> QED BY <1>3, <1>4, <1>5

LEMMA VisitSteps ==
  ASSUME NEW txt \in TextType, NEW v \in Var, NEW n \in Name, NEW place
  PROVE  LET r == VisitTemporary(txt, v, n, place) IN
         /\ r \in TextType
         /\ Leaves(txt, r) \/ Declares(txt, r, v, n)
BY SymbolSteps DEF VisitTemporary

LEMMA BraceTypes ==
  /\ Fresh \in Scope
  /\ \A k \in Nat : Brace(k) \in OutType /\ Header(k) \in OutType
  /\ SourceScope \in SrcType
BY DEF Fresh, Scope, Brace, Header, OutType, SourceScope, SrcType

LEMMA OpenedSteps ==
  ASSUME NEW txt \in TextType
  PROVE  LET r == Opened(txt)
             d == PushDepth(txt.declared)
         IN  /\ r \in TextType
             /\ r.out = Append(txt.out, Brace(Len(d))) /\ r.declared = d
             /\ r.seen = txt.seen /\ r.errors = txt.errors
<1>1. /\ txt.out \in Seq(OutType) /\ txt.declared \in Seq(SUBSET Name)
      /\ txt.seen \in SUBSET Var /\ txt.errors \in SUBSET Error
  BY DEF TextType
<1> DEFINE d == PushDepth(txt.declared)
           o == Append(txt.out, Brace(Len(d)))
<1>2. d \in Seq(SUBSET Name)
  <2>1. Append(txt.declared, {}) \in Seq(SUBSET Name)
    BY <1>1, AppendProperties
  <2> QED BY <1>1, <2>1 DEF PushDepth
<1>3. Len(d) \in Nat
  BY <1>2, LenProperties
<1>4. o \in Seq(OutType)
  BY <1>1, <1>3, BraceTypes, AppendProperties
<1>5. Opened(txt) = [txt EXCEPT !.out = o, !.declared = d]
  BY DEF Opened
<1> HIDE DEF d, o
<1>6. LET r == [txt EXCEPT !.out = o, !.declared = d] IN
      r \in TextType /\ r.out = o /\ r.declared = d /\ r.seen = txt.seen /\ r.errors = txt.errors
  BY <1>1, <1>2, <1>4 DEF TextType
<1> QED BY <1>5, <1>6 DEF o, d

LEMMA InBracesSteps ==
  ASSUME NEW txt \in TextType
  PROVE  LET r == InBraces(txt) IN
         /\ r \in TextType
         /\ r.out = Front(txt.out) /\ r.declared = PopDepth(txt.declared)
         /\ r.seen = txt.seen /\ r.errors = txt.errors \cup Underflow(txt.declared)
<1>1. /\ txt.out \in Seq(OutType) /\ txt.declared \in Seq(SUBSET Name)
      /\ txt.seen \in SUBSET Var /\ txt.errors \in SUBSET Error
  BY DEF TextType
<1> DEFINE d == PopDepth(txt.declared)
           o == Front(txt.out)
           e == txt.errors \cup Underflow(txt.declared)
<1>2. d \in Seq(SUBSET Name)
  BY <1>1, FrontOf, EmptySeq DEF PopDepth
<1>3. o \in Seq(OutType)
  BY <1>1, FrontOf
<1>4. InBraces(txt) = [txt EXCEPT !.out = o, !.declared = d, !.errors = e]
  BY DEF InBraces
<1>5. e \in SUBSET Error
  BY <1>1 DEF Underflow, Error
<1> HIDE DEF d, o, e
<1>6. LET r == [txt EXCEPT !.out = o, !.declared = d, !.errors = e] IN
      r \in TextType /\ r.out = o /\ r.declared = d /\ r.seen = txt.seen /\ r.errors = e
  BY <1>1, <1>2, <1>3, <1>5 DEF TextType
<1> QED BY <1>4, <1>6 DEF o, d, e

-----------------------------------------------------------------------------
(* Type correctness.                                                       *)

Typed == TypeOK /\ src # <<>> /\ pointer = Len(src)

LEMMA TextTypes == ASSUME Typed PROVE Text \in TextType
BY DEF Typed, TypeOK, Text, TextType, OutType

LEMMA HeaderTypes ==
  ASSUME Typed
  PROVE  /\ InHeader \in TextType
         /\ InHeader.out = Append(out, Header(Len(declared))) /\ InHeader.declared = declared
         /\ InHeader.seen = seen /\ InHeader.errors = errors
<1>1. /\ out \in Seq(OutType) /\ declared \in Seq(SUBSET Name)
      /\ seen \in SUBSET Var /\ errors \in SUBSET Error
  BY DEF Typed, TypeOK, OutType
<1> DEFINE o == Append(out, Header(Len(declared)))
<1>2. Len(declared) \in Nat
  BY <1>1, LenProperties
<1>3. o \in Seq(OutType)
  BY <1>1, <1>2, BraceTypes, AppendProperties
<1>4. InHeader = [out |-> o, declared |-> declared, seen |-> seen, errors |-> errors]
  BY DEF InHeader, Text
<1> HIDE DEF o
<1>5. InHeader \in TextType /\ InHeader.out = o /\ InHeader.declared = declared
      /\ InHeader.seen = seen /\ InHeader.errors = errors
  BY <1>1, <1>3, <1>4 DEF TextType
<1> QED BY <1>5 DEF o

LEMMA SourceTypes ==
  ASSUME Typed
  PROVE  /\ src \in Seq(SrcType) /\ Len(src) \in Nat \ {0} /\ name \in Seq(Name)
         /\ \A v \in DOMAIN name : v \in Var /\ name[v] \in Name
<1>1. /\ src \in Seq(SrcType) /\ src # <<>> /\ name \in Seq(Name) /\ Len(name) <= MaxVars
  BY DEF Typed, TypeOK, SrcType
<1>2. Len(src) \in Nat \ {0}
  BY <1>1, EmptySeq
<1>3. Len(name) \in Nat /\ DOMAIN name = 1 .. Len(name)
  BY <1>1, LenProperties
<1>4. \A v \in 1 .. Len(name) : name[v] \in Name
  BY <1>1, ElementOfSeq
<1> QED BY <1>1, <1>2, <1>3, <1>4, ScopesAssumption DEF Var

\* What every step does to the variables that are not the source or the text.
LEMMA CountTypes ==
  ASSUME Typed
  PROVE  /\ Reads => stmts' \in 0 .. MaxStmts
         /\ \A f : Meets(f) => features' \in SUBSET Features
BY ScopesAssumption DEF Typed, TypeOK, Reads, Meets

LEMMA NameGrows ==
  ASSUME Typed, NEW n \in Name, Len(name) < MaxVars
  PROVE  /\ Len(name) \in Nat /\ Len(name) + 1 \in Var
         /\ Append(name, n) \in Seq(Name) /\ Len(Append(name, n)) = Len(name) + 1
         /\ Append(name, n)[Len(name) + 1] = n
         /\ \A v \in 1 .. Len(name) : Append(name, n)[v] = name[v]
<1>1. name \in Seq(Name) /\ Len(name) \in Nat
  BY SourceTypes, LenProperties
<1> QED BY <1>1, ScopesAssumption, AppendProperties DEF Var

\* Types of the next state from its parts.
LEMMA NextTyped ==
  ASSUME Typed, NEW txt \in TextType, Writes(txt),
         name' \in Seq(Name), Len(name') <= MaxVars,
         src' \in Seq(SrcType), Len(src') \in 1 .. MaxOpen + 1, pointer' = Len(src'),
         features' \in SUBSET Features, stmts' \in 0 .. MaxStmts
  PROVE  Typed'
<1>1. out' \in Seq(OutType) /\ declared' \in Seq(SUBSET Name)
      /\ seen' \in SUBSET Var /\ errors' \in SUBSET Error
  BY DEF Writes, TextType
<1>2. src' # <<>>
  BY EmptySeq
<1> QED BY <1>1, <1>2 DEF Typed, TypeOK, OutType, SrcType

\* A scope opens: the source's and the depth pointer.
LEMMA ScopeOpens ==
  ASSUME Typed, Len(src) <= MaxOpen, NEW s \in SrcType,
         src' = Append(src, s), pointer' = PushedPointer(pointer)
  PROVE  /\ src' \in Seq(SrcType) /\ Len(src') = Len(src) + 1
         /\ Len(src') \in 1 .. MaxOpen + 1 /\ pointer' = Len(src')
<1>1. src \in Seq(SrcType) /\ Len(src) \in Nat \ {0} /\ pointer = Len(src)
  BY SourceTypes DEF Typed
<1>2. src' \in Seq(SrcType) /\ Len(src') = Len(src) + 1
  BY <1>1, AppendProperties
<1> QED BY <1>1, <1>2, ScopesAssumption DEF PushedPointer

\* A scope closes.
LEMMA ScopeCloses ==
  ASSUME Typed, Len(src) > 1
  PROVE  /\ Front(src) \in Seq(SrcType) /\ Len(Front(src)) = Len(src) - 1
         /\ Len(Front(src)) \in 1 .. MaxOpen + 1
         /\ pointer # 0 /\ pointer - 1 = Len(Front(src))
<1>1. src \in Seq(SrcType) /\ Len(src) \in Nat \ {0} /\ pointer = Len(src) /\ src # <<>>
      /\ pointer \in 1 .. MaxOpen + 1
  BY SourceTypes DEF Typed, TypeOK
<1>2. Front(src) \in Seq(SrcType) /\ Len(Front(src)) = Len(src) - 1
  BY <1>1, FrontOf
<1> QED BY <1>1, <1>2, ScopesAssumption

\* The test of a do loop names a variable of an outer scope, so there is one.
LEMMA DoIsInside == ASSUME Typed, NEW v \in DOMAIN name, LookUp(Front(src), name[v]) = v
                    PROVE  Len(src) > 1
<1>1. src \in Seq(SrcType) /\ Len(src) \in Nat \ {0} /\ src # <<>> /\ v \in Var
  BY SourceTypes DEF Typed
<1>2. ASSUME Len(src) = 1 PROVE FALSE
  <2>1. Front(src) \in Seq(SrcType) /\ Len(Front(src)) = 0
    BY <1>1, <1>2, FrontOf
  <2>2. DOMAIN Front(src) = {}
    BY <2>1, LenProperties
  <2>3. LookUp(Front(src), name[v]) = Nowhere
    BY <2>2 DEF LookUp, BindingDepth
  <2> QED BY <1>1, <2>3 DEF Nowhere, Var
<1>3. Len(src) \in Nat \ {0}
  BY <1>1
<1>4. \A k \in Nat \ {0} : k # 1 => k > 1
  OBVIOUS
<1> QED BY <1>2, <1>3, <1>4

LEMMA DeclareTypes ==
  ASSUME Typed, NEW n \in Name, Declare(n) PROVE Typed'
<1>1. Len(name) < MaxVars /\ Reads /\ UNCHANGED <<out, declared, pointer, seen, errors>>
      /\ name' = Append(name, n) /\ src' = BindTop(src, n, Len(name) + 1)
      /\ Meets(NameFeatures(n))
  BY DEF Declare
<1>2. Writes(Text)
  BY <1>1 DEF Writes, Text
<1>3. src' \in Seq(SrcType) /\ Len(src') = Len(src)
  BY <1>1, NameGrows, SourceTypes, BindSrc
<1>4. name' \in Seq(Name) /\ Len(name') <= MaxVars
  BY <1>1, NameGrows, ScopesAssumption
<1>5. Len(src') \in 1 .. MaxOpen + 1 /\ pointer' = Len(src')
  BY <1>1, <1>3 DEF Typed, TypeOK
<1> QED BY <1>1, <1>2, <1>3, <1>4, <1>5, CountTypes, TextTypes, NextTyped

\* A declaration with an initialiser, of a temporary or not.
LEMMA DeclareInitTypes ==
  ASSUME Typed, NEW n \in Name, DeclareInit(n) \/ DeclareConst(n) PROVE Typed'
<1> DEFINE storage == IF DeclareInit(n) THEN "EvqTemporary" ELSE "EvqConstReadOnly"
           txt == VisitSymbol(Text, Len(name) + 1, n, storage, "statement")
<1>1. Len(name) < MaxVars /\ Reads /\ UNCHANGED pointer
      /\ name' = Append(name, n) /\ src' = BindTop(src, n, Len(name) + 1)
      /\ (\E f : Meets(f)) /\ Writes(txt)
  BY DEF DeclareInit, DeclareConst, SingleAssignment, VisitTemporary
<1>2. txt \in TextType
  BY <1>1, NameGrows, TextTypes, SymbolSteps
<1>3. src' \in Seq(SrcType) /\ Len(src') = Len(src)
  BY <1>1, NameGrows, SourceTypes, BindSrc
<1>4. name' \in Seq(Name) /\ Len(name') <= MaxVars
  BY <1>1, NameGrows, ScopesAssumption
<1>5. Len(src') \in 1 .. MaxOpen + 1 /\ pointer' = Len(src')
  BY <1>1, <1>3 DEF Typed, TypeOK
<1> HIDE DEF txt
<1> QED BY <1>1, <1>2, <1>3, <1>4, <1>5, CountTypes, NextTyped

LEMMA DeclareTwoTypes ==
  ASSUME Typed, NEW m \in Name, NEW n \in Name, DeclareTwo(m, n) PROVE Typed'
<1> DEFINE v   == Len(name) + 1
           one == VisitTemporary(Opened(Text), v, m, "statement")
           two == VisitTemporary(one, v + 1, n, "statement")
           txt == InBraces(two)
           f   == Deep \cup NameFeatures(m) \cup NameFeatures(n) \cup {"multi"}
<1>1. v < MaxVars /\ Reads /\ UNCHANGED pointer /\ name' = name \o <<m, n>>
      /\ src' = BindTop(BindTop(src, m, v), n, v + 1) /\ Meets(f) /\ Writes(txt)
  BY DEF DeclareTwo
<1>2. name \in Seq(Name) /\ Len(name) \in Nat /\ <<m, n>> \in Seq(Name) /\ Len(<<m, n>>) = 2
  BY SourceTypes, LenProperties
<1>3. v \in Var /\ v + 1 \in Var
  BY <1>1, <1>2, ScopesAssumption DEF Var
<1>4. txt \in TextType
  <2>1. Opened(Text) \in TextType
    BY TextTypes, OpenedSteps
  <2>2. one \in TextType
    BY <1>3, <2>1, VisitSteps
  <2> HIDE DEF one
  <2>3. two \in TextType
    BY <1>3, <2>2, VisitSteps
  <2> HIDE DEF two
  <2> QED BY <2>3, InBracesSteps
<1>5. name' \in Seq(Name) /\ Len(name') <= MaxVars
  <2>1. name' \in Seq(Name) /\ Len(name') = Len(name) + 2
    BY <1>1, <1>2, ConcatProperties
  <2> QED BY <1>1, <1>2, <2>1, ScopesAssumption
<1>6. src' \in Seq(SrcType) /\ Len(src') = Len(src)
  <2> DEFINE b == BindTop(src, m, v)
  <2>1. b \in Seq(SrcType) /\ Len(b) = Len(src)
    BY <1>3, SourceTypes, BindSrc
  <2> HIDE DEF b
  <2>2. BindTop(b, n, v + 1) \in Seq(SrcType) /\ Len(BindTop(b, n, v + 1)) = Len(b)
    BY <1>3, <2>1, BindSrc
  <2> QED BY <1>1, <2>1, <2>2 DEF b
<1>7. Len(src') \in 1 .. MaxOpen + 1 /\ pointer' = Len(src')
  BY <1>1, <1>6 DEF Typed, TypeOK
<1>8. features' \in SUBSET Features /\ stmts' \in 0 .. MaxStmts
  BY <1>1, CountTypes
<1> HIDE DEF txt
<1> QED BY <1>1, <1>4, <1>5, <1>6, <1>7, <1>8, NextTyped

\* A statement that declares nothing: what it names is visited.
LEMMA VisitTypes ==
  ASSUME Typed, NEW v \in DOMAIN name, NEW place, NEW f,
         Reads, Meets(f), Writes(VisitTemporary(Text, v, name[v], place)),
         UNCHANGED <<name, src, pointer>>
  PROVE  Typed'
<1> DEFINE txt == VisitTemporary(Text, v, name[v], place)
<1>1. txt \in TextType
  BY SourceTypes, TextTypes, VisitSteps
<1>2. name' \in Seq(Name) /\ Len(name') <= MaxVars /\ src' \in Seq(SrcType)
      /\ Len(src') \in 1 .. MaxOpen + 1 /\ pointer' = Len(src')
  BY DEF Typed, TypeOK, SrcType
<1> HIDE DEF txt
<1>3. Writes(txt)
  BY DEF txt
<1> QED BY <1>1, <1>2, <1>3, CountTypes, NextTyped

\* A scope is opened after what txt has.
LEMMA OpenTypes ==
  ASSUME Typed, NEW txt \in TextType, NEW s \in SrcType, NEW f,
         Reads, Meets(f), Writes(Opened(txt)), Len(src) <= MaxOpen,
         src' = Append(src, s), pointer' = PushedPointer(pointer),
         name' \in Seq(Name), Len(name') <= MaxVars
  PROVE  Typed'
<1> DEFINE o == Opened(txt)
<1>1. o \in TextType
  BY OpenedSteps
<1> HIDE DEF o
<1>2. Writes(o)
  BY DEF o
<1> QED BY <1>1, <1>2, ScopeOpens, CountTypes, NextTyped

LEMMA HeadedTypes ==
  ASSUME Typed, NEW v \in DOMAIN name, Headed(v) PROVE Typed'
<1> DEFINE txt == VisitTemporary(Text, v, name[v], "inside")
<1>1. txt \in TextType
  BY SourceTypes, TextTypes, VisitSteps
<1>2. Reads /\ Meets(Deep \cup UseFeatures(v, "inside")) /\ Writes(Opened(txt)) /\ Len(src) <= MaxOpen
      /\ src' = Append(src, SourceScope) /\ pointer' = PushedPointer(pointer) /\ name' = name
  BY DEF Headed
<1>3. name' \in Seq(Name) /\ Len(name') <= MaxVars
  BY <1>2 DEF Typed, TypeOK
<1> HIDE DEF txt
<1> QED BY <1>1, <1>2, <1>3, BraceTypes, OpenTypes

LEMMA OpenBlockTypes ==
  ASSUME Typed, OpenBlock \/ OpenDo PROVE Typed'
<1> DEFINE s == IF OpenBlock THEN SourceScope ELSE [SourceScope EXCEPT !.do = TRUE]
<1>1. s \in SrcType
  BY BraceTypes DEF SrcType
<1>2. Reads /\ Meets(Deep) /\ Writes(Opened(Text)) /\ Len(src) <= MaxOpen
      /\ src' = Append(src, s) /\ pointer' = PushedPointer(pointer) /\ name' = name
  BY DEF OpenBlock, OpenDo
<1>3. name' \in Seq(Name) /\ Len(name') <= MaxVars
  BY <1>2 DEF Typed, TypeOK
<1> HIDE DEF s
<1> QED BY <1>1, <1>2, <1>3, TextTypes, OpenTypes

LEMMA OpenForOverTypes ==
  ASSUME Typed, NEW v \in DOMAIN name, OpenForOver(v) PROVE Typed'
<1> DEFINE txt == VisitTemporary(InHeader, v, name[v], "statement")
<1>1. txt \in TextType
  BY SourceTypes, HeaderTypes, VisitSteps
<1>2. Reads /\ Meets(Deep \cup UseFeatures(v, "header")) /\ Writes(Opened(txt)) /\ Len(src) <= MaxOpen
      /\ src' = Append(src, SourceScope) /\ pointer' = PushedPointer(pointer) /\ name' = name
  BY DEF OpenForOver
<1>3. name' \in Seq(Name) /\ Len(name') <= MaxVars
  BY <1>2 DEF Typed, TypeOK
<1> HIDE DEF txt
<1> QED BY <1>1, <1>2, <1>3, BraceTypes, OpenTypes

\* What the loop header of a for changes in the source: the loops of the scope it
\* is in, and the scope of its body.
ForsAfter(n) == [src EXCEPT ![Len(src)].fors = @ \cup {n}]

LEMMA ForsGrow ==
  ASSUME Typed, NEW n \in Name
  PROVE  /\ ForsAfter(n) \in Seq(SrcType) /\ Len(ForsAfter(n)) = Len(src)
         /\ \A k \in 1 .. Len(src) :
              /\ ForsAfter(n)[k].vars = src[k].vars /\ ForsAfter(n)[k].do = src[k].do
              /\ ForsAfter(n)[k].fors = IF k = Len(src) THEN src[k].fors \cup {n} ELSE src[k].fors
<1>1. src \in Seq(SrcType) /\ Len(src) \in 1 .. Len(src)
  BY SourceTypes
<1>2. src[Len(src)] \in SrcType
  BY <1>1, ElementOfSeq
<1> DEFINE g == src[Len(src)].fors \cup {n}
           e == [src[Len(src)] EXCEPT !.fors = g]
<1>3. g \in SUBSET Name
  BY <1>2 DEF SrcType
<1>4. ForsAfter(n) = [src EXCEPT ![Len(src)] = e]
  BY DEF ForsAfter
<1> HIDE DEF g
<1>5. e \in SrcType /\ e.vars = src[Len(src)].vars /\ e.do = src[Len(src)].do /\ e.fors = g
  BY <1>2, <1>3 DEF SrcType
<1> HIDE DEF e
<1>6. /\ ForsAfter(n) \in Seq(SrcType) /\ Len(ForsAfter(n)) = Len(src)
      /\ \A k \in 1 .. Len(src) : ForsAfter(n)[k] = IF k = Len(src) THEN e ELSE src[k]
  BY <1>1, <1>4, <1>5, ExceptSeq
<1> QED BY <1>5, <1>6 DEF g

\* The source after for (int n = ...) {
LEMMA ForOpens ==
  ASSUME Typed, NEW n \in Name, NEW v \in Var, Len(src) <= MaxOpen,
         src' = BindTop(Append(ForsAfter(n), SourceScope), n, v),
         pointer' = PushedPointer(pointer)
  PROVE  /\ src' \in Seq(SrcType) /\ Len(src') = Len(src) + 1
         /\ Len(src') \in 1 .. MaxOpen + 1 /\ pointer' = Len(src')
         /\ \A k \in 1 .. Len(src) :
              /\ src'[k].vars = src[k].vars /\ src'[k].do = src[k].do
              /\ src'[k].fors = IF k = Len(src) THEN src[k].fors \cup {n} ELSE src[k].fors
         /\ ~src'[Len(src) + 1].do /\ src'[Len(src) + 1].fors = {}
         /\ \A m \in Name : src'[Len(src) + 1].vars[m] = IF m = n THEN v ELSE Nowhere
<1> DEFINE l == Len(src)
           a == Append(ForsAfter(n), SourceScope)
<1>1. l \in Nat \ {0} /\ pointer = l
  BY SourceTypes DEF Typed
<1>2. a \in Seq(SrcType) /\ Len(a) = l + 1 /\ a[l + 1] = SourceScope
      /\ \A k \in 1 .. l : a[k] = ForsAfter(n)[k]
  BY ForsGrow, BraceTypes, AppendProperties
<1> HIDE DEF a
<1>3. src' = BindTop(a, n, v)
  BY DEF a
<1>4. /\ src' \in Seq(SrcType) /\ Len(src') = l + 1
      /\ \A i \in 1 .. l + 1 :
           /\ src'[i].fors = a[i].fors /\ src'[i].do = a[i].do
           /\ \A m \in Name : src'[i].vars[m] = IF i = l + 1 /\ m = n THEN v ELSE a[i].vars[m]
  BY <1>2, <1>3, BindSrc
<1>5. Len(src') \in 1 .. MaxOpen + 1 /\ pointer' = Len(src')
  BY <1>1, <1>4, ScopesAssumption DEF PushedPointer
<1>6. ASSUME NEW k \in 1 .. l
      PROVE  /\ src'[k].vars = src[k].vars /\ src'[k].do = src[k].do
             /\ src'[k].fors = IF k = l THEN src[k].fors \cup {n} ELSE src[k].fors
  <2>1. k \in 1 .. l + 1 /\ k # l + 1
    BY <1>1
  <2>2. src'[k].fors = a[k].fors /\ src'[k].do = a[k].do /\ \A m \in Name : src'[k].vars[m] = a[k].vars[m]
    BY <1>4, <2>1
  <2>3. src'[k] \in SrcType /\ a[k] \in SrcType
    BY <1>2, <1>4, <2>1, ElementOfSeq
  <2>4. src'[k].vars = a[k].vars
    BY <2>2, <2>3 DEF SrcType, Scope
  <2>5. a[k] = ForsAfter(n)[k]
    BY <1>2
  <2> QED BY <2>2, <2>4, <2>5, ForsGrow
<1>7. l + 1 \in 1 .. l + 1
  BY <1>1
<1>8. ~SourceScope.do /\ SourceScope.fors = {} /\ \A m \in Name : SourceScope.vars[m] = Nowhere
  BY DEF SourceScope, Fresh
<1> QED BY <1>2, <1>4, <1>5, <1>6, <1>7, <1>8

LEMMA OpenForTypes ==
  ASSUME Typed, NEW n \in Name, OpenFor(n) PROVE Typed'
<1> DEFINE v == Len(name) + 1
           txt == VisitTemporary(InHeader, v, n, "statement")
<1>1. Reads /\ Meets(Deep \cup NameFeatures(n)) /\ Writes(Opened(txt)) /\ Len(src) <= MaxOpen
      /\ src' = BindTop(Append(ForsAfter(n), SourceScope), n, v)
      /\ pointer' = PushedPointer(pointer) /\ name' = Append(name, n) /\ v <= MaxVars
  BY DEF OpenFor, ForsAfter
<1>2. Len(name) \in Nat /\ Len(name) < MaxVars /\ v \in Var
  <2>1. Len(name) \in Nat
    BY SourceTypes, LenProperties
  <2> QED BY <1>1, <2>1, ScopesAssumption DEF Var
<1>3. name' \in Seq(Name) /\ Len(name') <= MaxVars
  BY <1>1, <1>2, NameGrows, ScopesAssumption
<1>4. Opened(txt) \in TextType
  <2>1. txt \in TextType
    BY <1>2, HeaderTypes, VisitSteps
  <2> HIDE DEF txt
  <2> QED BY <2>1, OpenedSteps
<1>5. src' \in Seq(SrcType) /\ Len(src') \in 1 .. MaxOpen + 1 /\ pointer' = Len(src')
  BY <1>1, <1>2, ForOpens
<1>6. features' \in SUBSET Features /\ stmts' \in 0 .. MaxStmts
  BY <1>1, CountTypes
<1> DEFINE o == Opened(txt)
<1>7. o \in TextType /\ Writes(o)
  BY <1>1, <1>4
<1> HIDE DEF o
<1> QED BY <1>3, <1>5, <1>6, <1>7, NextTyped

\* The text after the brace that ends a block or a loop with its header.
Closed == [Text EXCEPT !.out = AfterBrace(out), !.declared = PopDepth(declared),
                       !.errors = @ \cup Underflow(declared)]

LEMMA ClosedTypes ==
  ASSUME Typed
  PROVE  /\ Closed \in TextType
         /\ Closed.out = AfterBrace(out) /\ Closed.declared = PopDepth(declared)
         /\ Closed.seen = seen /\ Closed.errors = errors \cup Underflow(declared)
<1>1. /\ out \in Seq(OutType) /\ declared \in Seq(SUBSET Name)
      /\ seen \in SUBSET Var /\ errors \in SUBSET Error
  BY DEF Typed, TypeOK, OutType
<1> DEFINE o == AfterBrace(out)
           d == PopDepth(declared)
           e == errors \cup Underflow(declared)
<1>2. o \in Seq(OutType)
  <2>1. Front(out) \in Seq(OutType)
    BY <1>1, FrontOf
  <2>2. Front(Front(out)) \in Seq(OutType)
    BY <2>1, FrontOf
  <2> QED BY <2>1, <2>2 DEF AfterBrace
<1>3. d \in Seq(SUBSET Name)
  BY <1>1, FrontOf, EmptySeq DEF PopDepth
<1>4. Closed = [[out |-> out, declared |-> declared, seen |-> seen, errors |-> errors]
                  EXCEPT !.out = o, !.declared = d, !.errors = e]
  BY DEF Closed, Text
<1>6. e \in SUBSET Error
  BY <1>1 DEF Underflow, Error
<1> HIDE DEF o, d, e
<1>5. Closed \in TextType /\ Closed.out = o /\ Closed.declared = d
      /\ Closed.seen = seen /\ Closed.errors = e
  BY <1>1, <1>2, <1>3, <1>4, <1>6 DEF TextType
<1> QED BY <1>5 DEF o, d, e

LEMMA CloseSteps ==
  ASSUME Typed, Close
  PROVE  /\ Len(src) > 1 /\ src' = Front(src) /\ Writes(Closed) /\ pointer' = pointer - 1
         /\ UNCHANGED <<name, features, stmts>>
<1>1. Len(src) > 1 /\ src' = Front(src) /\ UNCHANGED <<name, seen, features, stmts>>
      /\ out' = AfterBrace(out)
      /\ (pointer # 0 => declared' = PopDepth(declared) /\ pointer' = pointer - 1
                         /\ errors' = errors \cup Underflow(declared))
  BY DEF Close
<1>2. pointer # 0
  BY <1>1, ScopeCloses
<1> QED BY <1>1, <1>2, ClosedTypes DEF Writes

LEMMA CloseTypes == ASSUME Typed, Close PROVE Typed'
<1>1. /\ Len(src) > 1 /\ src' = Front(src) /\ Writes(Closed) /\ pointer' = pointer - 1
      /\ UNCHANGED <<name, features, stmts>>
  BY CloseSteps
<1>2. src' \in Seq(SrcType) /\ Len(src') \in 1 .. MaxOpen + 1 /\ pointer' = Len(src')
  BY <1>1, ScopeCloses
<1>3. name' \in Seq(Name) /\ Len(name') <= MaxVars
      /\ features' \in SUBSET Features /\ stmts' \in 0 .. MaxStmts
  BY <1>1 DEF Typed, TypeOK
<1> QED BY <1>1, <1>2, <1>3, ClosedTypes, NextTyped

LEMMA CloseDoTypes == ASSUME Typed, NEW v \in DOMAIN name, CloseDo(v) PROVE Typed'
<1> DEFINE txt == VisitTemporary(InBraces(Text), v, name[v], "inside")
<1>1. /\ src' = Front(src) /\ Writes(txt) /\ pointer' = IF pointer = 0 THEN 0 ELSE pointer - 1
      /\ UNCHANGED <<name, stmts>> /\ LookUp(Front(src), name[v]) = v
      /\ Meets(IF v \in seen THEN {} ELSE {"late"})
  BY DEF CloseDo
<1>2. src' \in Seq(SrcType) /\ Len(src') \in 1 .. MaxOpen + 1 /\ pointer' = Len(src')
  BY <1>1, DoIsInside, ScopeCloses
<1>3. name' \in Seq(Name) /\ Len(name') <= MaxVars /\ stmts' \in 0 .. MaxStmts
  BY <1>1 DEF Typed, TypeOK
<1>4. txt \in TextType
  BY SourceTypes, TextTypes, InBracesSteps, VisitSteps
<1>5. features' \in SUBSET Features
  BY <1>1, CountTypes
<1> HIDE DEF txt
<1> QED BY <1>1, <1>2, <1>3, <1>4, <1>5, NextTyped

LEMMA TypeStep == ASSUME Typed, [Next]_vars PROVE Typed'
<1>1. CASE UNCHANGED vars
  BY <1>1 DEF vars, Typed, TypeOK
<1>2. ASSUME NEW n \in Name, Declare(n) \/ DeclareInit(n) \/ DeclareConst(n) \/ OpenFor(n) PROVE Typed'
  BY <1>2, DeclareTypes, DeclareInitTypes, OpenForTypes
<1>3. ASSUME NEW m \in Name, NEW n \in Name, DeclareTwo(m, n) PROVE Typed'
  BY <1>3, DeclareTwoTypes
<1>4. ASSUME NEW v \in DOMAIN name, Assign(v) \/ Use(v) PROVE Typed'
  BY <1>4, VisitTypes DEF Assign, Use
<1>5. ASSUME NEW v \in DOMAIN name,
             OpenForOver(v) \/ OpenIf(v) \/ OpenWhile(v) \/ OpenSwitch(v) \/ CloseDo(v)
      PROVE  Typed'
  BY <1>5, OpenForOverTypes, HeadedTypes, CloseDoTypes DEF OpenIf, OpenWhile, OpenSwitch
<1>6. CASE OpenBlock \/ OpenDo \/ Close
  BY <1>6, OpenBlockTypes, CloseTypes
<1> QED BY <1>1, <1>2, <1>3, <1>4, <1>5, <1>6 DEF Next

LEMMA TypeInit == ASSUME Init PROVE Typed
<1>1. <<>> \in Seq(Name) /\ Len(<<>>) = 0 /\ Len(<<>>) <= MaxVars
  BY ScopesAssumption
<1>2. SourceScope \in SrcType /\ Brace(1) \in OutType
  BY BraceTypes
<1>3. <<SourceScope>> \in Seq(SrcType) /\ <<Brace(1)>> \in Seq(OutType)
      /\ <<{}>> \in Seq(SUBSET Name) /\ Len(<<SourceScope>>) = 1 /\ <<SourceScope>> # <<>>
  BY <1>2
<1>4. 1 \in 1 .. MaxOpen + 1 /\ 0 \in 0 .. MaxStmts
  BY ScopesAssumption
<1> QED BY <1>1, <1>3, <1>4 DEF Init, Typed, TypeOK, SrcType, OutType

LEMMA TypedHolds == Spec => []Typed
BY TypeInit, TypeStep, PTL DEF Spec

\* Every reachable state has the declared types, whatever the names, the bounds,
\* the limit and the features of the source.
THEOREM TypeCorrect == Spec => []TypeOK
BY TypedHolds, PTL DEF Typed

-----------------------------------------------------------------------------
(* The lists of declaredVars mirror the open braces.  A brace that opens has *)
(* the next list and a loop header the list of the brace it is in, so that   *)
(* the lists of the open scopes never fall; closing a brace takes the last   *)
(* list away, which no scope that stays open has.                           *)

Lists(o, d) ==
  /\ o # <<>> /\ o[Len(o)].list = Len(d)
  /\ \A i \in 1 .. Len(o) :
       o[i].list = IF i = 1 THEN 1 ELSE o[i - 1].list + (IF o[i].kind = "brace" THEN 1 ELSE 0)
  /\ \A i, j \in 1 .. Len(o) : i <= j => o[i].list <= o[j].list
  /\ \A i \in 1 .. Len(o), n \in Name : o[i].vars[n] # Nowhere => n \in d[o[i].list]

\* After a loop header comes the brace of its body, which is no do's.
Heads(o, s) ==
  \A i \in 1 .. Len(o) : o[i].kind = "for" =>
    i > 1 /\ (i < Len(o) => o[i + 1].kind = "brace" /\ ~s[o[i + 1].list].do)

Mirrors(o, d, s) == Lists(o, d) /\ Heads(o, s) /\ o[Len(o)].kind = "brace" /\ Len(d) = Len(s)

MirrorInv == "deep" \notin features => Mirrors(out, declared, src)

LEMMA ListsRange ==
  ASSUME NEW o \in Seq(OutType), NEW d \in Seq(SUBSET Name), Lists(o, d)
  PROVE  /\ Len(o) \in Nat \ {0} /\ Len(d) \in Nat \ {0}
         /\ \A i \in 1 .. Len(o) : o[i] \in OutType /\ o[i].list \in 1 .. Len(d)
<1>1. Len(o) \in Nat \ {0} /\ Len(d) \in Nat
  BY EmptySeq, LenProperties DEF Lists
<1>2. \A i \in 1 .. Len(o) : o[i] \in OutType /\ o[i].list \in Nat
  <2>1. \A i \in 1 .. Len(o) : o[i] \in OutType
    BY ElementOfSeq
  <2> QED BY <2>1 DEF OutType
<1>3. 1 \in 1 .. Len(o) /\ Len(o) \in 1 .. Len(o)
  BY <1>1
<1>4. o[1].list = 1 /\ o[Len(o)].list = Len(d)
  BY <1>3 DEF Lists
<1>5. \A i \in 1 .. Len(o) : o[1].list <= o[i].list /\ o[i].list <= o[Len(o)].list
  BY <1>1, <1>3 DEF Lists
<1>6. \A i \in 1 .. Len(o) : o[i].list \in 1 .. Len(d)
  BY <1>1, <1>2, <1>4, <1>5
<1> QED BY <1>1, <1>2, <1>3, <1>4, <1>6

LEMMA ListsVisit ==
  ASSUME NEW txt \in TextType, Lists(txt.out, txt.declared),
         NEW v \in Var, NEW n \in Name, NEW r \in TextType,
         Leaves(txt, r) \/ Declares(txt, r, v, n)
  PROVE  /\ Lists(r.out, r.declared)
         /\ Len(r.out) = Len(txt.out) /\ Len(r.declared) = Len(txt.declared)
         /\ \A i \in 1 .. Len(txt.out) :
              r.out[i].kind = txt.out[i].kind /\ r.out[i].list = txt.out[i].list
<1>1. CASE Leaves(txt, r)
  BY <1>1 DEF Leaves
<1>2. CASE Declares(txt, r, v, n)
  <2> DEFINE o == txt.out
             d == txt.declared
             b == r.out
             c == r.declared
  <2>1. o \in Seq(OutType) /\ d \in Seq(SUBSET Name)
    BY DEF TextType
  <2>2. Len(o) \in Nat \ {0} /\ Len(d) \in Nat \ {0} /\ \A i \in 1 .. Len(o) : o[i].list \in 1 .. Len(d)
    BY <2>1, ListsRange
  <2>3. /\ Len(b) = Len(o)
        /\ \A i \in 1 .. Len(o) :
             /\ b[i].kind = o[i].kind /\ b[i].list = o[i].list
             /\ \A m \in Name : b[i].vars[m] = IF i = Len(o) /\ m = n THEN v ELSE o[i].vars[m]
    BY <1>2, <2>1, BindOut DEF Declares
  <2>4. Len(d) \in 1 .. Len(d)
    BY <2>2
  <2>5. d[Len(d)] \cup {n} \in SUBSET Name
    BY <2>1, <2>4, ElementOfSeq
  <2>6. Len(c) = Len(d) /\ \A k \in 1 .. Len(d) : c[k] = IF k = Len(d) THEN d[Len(d)] \cup {n} ELSE d[k]
    BY <1>2, <2>1, <2>4, <2>5, ExceptSeq DEF Declares
  <2>7. b # <<>>
    BY <2>2, <2>3, EmptySeq
  <2>8. b[Len(b)].list = Len(c)
    BY <2>2, <2>3, <2>6 DEF Lists
  <2>9. \A i \in 1 .. Len(b) :
          b[i].list = IF i = 1 THEN 1 ELSE b[i - 1].list + (IF b[i].kind = "brace" THEN 1 ELSE 0)
    <3>1. \A i \in 1 .. Len(o) : i # 1 => i - 1 \in 1 .. Len(o)
      BY <2>2
    <3> QED BY <2>3, <3>1 DEF Lists
  <2>10. \A i, j \in 1 .. Len(b) : i <= j => b[i].list <= b[j].list
    BY <2>3 DEF Lists
  <2>11. ASSUME NEW i \in 1 .. Len(b), NEW m \in Name, b[i].vars[m] # Nowhere
         PROVE  m \in c[b[i].list]
    <3>1. b[i].list = o[i].list /\ o[i].list \in 1 .. Len(d)
      BY <2>2, <2>3
    <3>2. CASE i = Len(o) /\ m = n
      <4>1. b[i].list = Len(d)
        BY <2>3, <2>6, <2>8, <3>2
      <4> QED BY <2>4, <2>6, <3>2, <4>1
    <3>3. CASE ~(i = Len(o) /\ m = n)
      <4>1. o[i].vars[m] # Nowhere
        BY <2>3, <2>11, <3>3
      <4>2. m \in d[o[i].list]
        BY <2>3, <4>1 DEF Lists
      <4> QED BY <2>6, <3>1, <4>2
    <3> QED BY <3>2, <3>3
  <2>12. Lists(b, c)
    BY <2>7, <2>8, <2>9, <2>10, <2>11 DEF Lists
  <2> QED BY <2>3, <2>6, <2>12
<1> QED BY <1>1, <1>2

\* A scope that opens: a brace with a list of its own, or a header without.
LEMMA ListsOpen ==
  ASSUME NEW o \in Seq(OutType), NEW d \in Seq(SUBSET Name), Lists(o, d),
         NEW c \in Seq(SUBSET Name), NEW e \in OutType, e.vars = Fresh,
         e.list = Len(c),
         \/ e.kind = "brace" /\ c = Append(d, {})
         \/ e.kind = "for" /\ c = d
  PROVE  Lists(Append(o, e), c)
<1> DEFINE b == Append(o, e)
           l == Len(o)
<1>1. l \in Nat \ {0} /\ Len(d) \in Nat \ {0}
      /\ \A i \in 1 .. l : o[i] \in OutType /\ o[i].list \in 1 .. Len(d)
  BY ListsRange
<1>2. b # <<>> /\ Len(b) = l + 1 /\ b[l + 1] = e /\ \A i \in 1 .. l : b[i] = o[i]
  BY AppendProperties
<1>3. /\ Len(c) = Len(d) + (IF e.kind = "brace" THEN 1 ELSE 0)
      /\ \A k \in 1 .. Len(d) : c[k] = d[k]
  <2>1. CASE e.kind = "brace" /\ c = Append(d, {})
    <3>1. {} \in SUBSET Name
      OBVIOUS
    <3>2. /\ Len(Append(d, {})) = Len(d) + 1
          /\ \A k \in 1 .. Len(d) : Append(d, {})[k] = d[k]
      BY <3>1, AppendProperties
    <3> QED BY <2>1, <3>2
  <2>2. CASE e.kind = "for" /\ c = d
    <3>1. Len(d) + 0 = Len(d) /\ "for" # "brace"
      BY <1>1
    <3> QED BY <2>2, <3>1
  <2> QED BY <2>1, <2>2
<1> HIDE DEF b
<1>4. b[Len(b)].list = Len(c)
  BY <1>2
<1>5. o[l].list = Len(d) /\ l \in 1 .. l
  BY <1>1 DEF Lists
<1>6. ASSUME NEW i \in 1 .. l + 1
      PROVE  b[i].list = IF i = 1 THEN 1 ELSE b[i - 1].list + (IF b[i].kind = "brace" THEN 1 ELSE 0)
  <2>1. CASE i = l + 1
    <3>1. i # 1 /\ i - 1 = l
      BY <1>1, <2>1
    <3> QED BY <1>2, <1>3, <1>5, <2>1, <3>1
  <2>2. CASE i # l + 1
    <3>1. i \in 1 .. l /\ (i # 1 => i - 1 \in 1 .. l)
      BY <1>1, <2>2
    <3> QED BY <1>2, <3>1 DEF Lists
  <2> QED BY <2>1, <2>2
<1>7. ASSUME NEW i \in 1 .. l + 1, NEW j \in 1 .. l + 1, i <= j PROVE b[i].list <= b[j].list
  <2>1. CASE j \in 1 .. l
    <3>1. i \in 1 .. l
      BY <1>1, <1>7, <2>1
    <3> QED BY <1>2, <1>7, <2>1, <3>1 DEF Lists
  <2>2. CASE j = l + 1 /\ i \in 1 .. l
    <3>1. b[i].list \in 1 .. Len(d) /\ b[j].list = Len(c)
      BY <1>1, <1>2, <2>2
    <3> QED BY <1>1, <1>3, <3>1
  <2>3. CASE j = l + 1 /\ i = l + 1
    BY <1>2, <2>3 DEF OutType
  <2> QED BY <1>1, <2>1, <2>2, <2>3
<1>8. ASSUME NEW i \in 1 .. l + 1, NEW n \in Name, b[i].vars[n] # Nowhere PROVE n \in c[b[i].list]
  <2>1. i # l + 1
    BY <1>2, <1>8 DEF Fresh
  <2>2. i \in 1 .. l
    BY <1>1, <2>1
  <2>3. n \in d[o[i].list] /\ o[i].list \in 1 .. Len(d)
    BY <1>1, <1>2, <1>8, <2>2 DEF Lists
  <2> QED BY <1>2, <1>3, <2>2, <2>3
<1>9. Lists(b, c)
  BY <1>2, <1>4, <1>6, <1>7, <1>8 DEF Lists
<1> QED BY <1>9 DEF b

\* The innermost scope closes, a brace with its list or a header without.
LEMMA ListsClose ==
  ASSUME NEW o \in Seq(OutType), NEW d \in Seq(SUBSET Name), Lists(o, d), Len(o) > 1,
         NEW c \in Seq(SUBSET Name),
         \/ o[Len(o)].kind = "brace" /\ c = PopDepth(d)
         \/ o[Len(o)].kind = "for" /\ c = d
  PROVE  Lists(Front(o), c)
<1> DEFINE b == Front(o)
           l == Len(o) - 1
<1>1. Len(o) \in Nat \ {0} /\ Len(d) \in Nat \ {0}
      /\ \A i \in 1 .. Len(o) : o[i] \in OutType /\ o[i].list \in 1 .. Len(d)
  BY ListsRange
<1>2. l \in Nat \ {0} /\ Len(o) = l + 1
  BY <1>1
<1>3. b \in Seq(OutType) /\ Len(b) = l /\ \A i \in 1 .. l : b[i] = o[i]
  BY FrontOf DEF Lists
<1> HIDE DEF b
<1>4. b # <<>>
  BY <1>2, <1>3, EmptySeq
<1>5. /\ Len(c) = Len(d) - (IF o[l + 1].kind = "brace" THEN 1 ELSE 0)
      /\ \A k \in 1 .. Len(c) : c[k] = d[k]
  <2>1. CASE o[Len(o)].kind = "for" /\ c = d
    BY <1>1, <1>2, <2>1
  <2>2. CASE o[Len(o)].kind = "brace" /\ c = PopDepth(d)
    <3>1. d # <<>>
      BY <1>1, EmptySeq
    <3>2. c = Front(d)
      BY <2>2, <3>1 DEF PopDepth
    <3> QED BY <1>2, <2>2, <3>1, <3>2, FrontOf
  <2> QED BY <2>1, <2>2
<1>6. o[l + 1].list = Len(d)
      /\ o[l + 1].list = o[l].list + (IF o[l + 1].kind = "brace" THEN 1 ELSE 0)
  <2>1. l + 1 \in 1 .. Len(o) /\ l + 1 # 1 /\ l + 1 - 1 = l
    BY <1>2
  <2> QED BY <1>2, <2>1 DEF Lists
<1>7. l \in 1 .. Len(o) /\ o[l].list \in Nat
  BY <1>1, <1>2
<1>8. o[l].list = Len(c)
  BY <1>1, <1>5, <1>6, <1>7
<1>9. b[Len(b)].list = Len(c)
  BY <1>2, <1>3, <1>8
<1>10. \A i \in 1 .. l : i \in 1 .. Len(o) /\ (i # 1 => i - 1 \in 1 .. l)
  BY <1>2
<1>11. \A i \in 1 .. Len(b) :
         b[i].list = IF i = 1 THEN 1 ELSE b[i - 1].list + (IF b[i].kind = "brace" THEN 1 ELSE 0)
  BY <1>3, <1>10 DEF Lists
<1>12. \A i, j \in 1 .. Len(b) : i <= j => b[i].list <= b[j].list
  BY <1>3, <1>10 DEF Lists
<1>13. ASSUME NEW i \in 1 .. Len(b), NEW n \in Name, b[i].vars[n] # Nowhere PROVE n \in c[b[i].list]
  <2>1. i \in 1 .. Len(o) /\ i <= l /\ b[i] = o[i]
    BY <1>3, <1>10
  <2>2. o[i].list <= Len(c)
    BY <1>7, <1>8, <2>1 DEF Lists
  <2>3. o[i].list \in 1 .. Len(c)
    BY <1>1, <1>7, <1>8, <2>1, <2>2
  <2>4. n \in d[o[i].list]
    BY <1>13, <2>1 DEF Lists
  <2> QED BY <1>5, <2>1, <2>3, <2>4
<1>14. Lists(b, c)
  BY <1>4, <1>9, <1>11, <1>12, <1>13 DEF Lists
<1> QED BY <1>14 DEF b

LEMMA HeadsSame ==
  ASSUME NEW o \in Seq(OutType), NEW d \in Seq(SUBSET Name), Lists(o, d), NEW s, Heads(o, s),
         NEW b, Len(b) = Len(o), \A i \in 1 .. Len(o) : b[i].kind = o[i].kind /\ b[i].list = o[i].list,
         NEW t, \A k \in 1 .. Len(d) : t[k].do = s[k].do
  PROVE  Heads(b, t)
<1>1. Len(o) \in Nat \ {0} /\ \A i \in 1 .. Len(o) : o[i].list \in 1 .. Len(d)
  BY ListsRange
<1> SUFFICES ASSUME NEW i \in 1 .. Len(b), b[i].kind = "for"
             PROVE  i > 1 /\ (i < Len(b) => b[i + 1].kind = "brace" /\ ~t[b[i + 1].list].do)
  BY DEF Heads
<1>2. i > 1 /\ (i < Len(o) => o[i + 1].kind = "brace" /\ ~s[o[i + 1].list].do)
  BY DEF Heads
<1>3. i < Len(o) => i + 1 \in 1 .. Len(o)
  BY <1>1
<1> QED BY <1>1, <1>2, <1>3

LEMMA HeadsOpen ==
  ASSUME NEW o \in Seq(OutType), NEW d \in Seq(SUBSET Name), Lists(o, d), NEW s, Heads(o, s),
         NEW e \in OutType, NEW t, \A k \in 1 .. Len(d) : t[k].do = s[k].do,
         o[Len(o)].kind = "for" => e.kind = "brace" /\ ~t[e.list].do
  PROVE  Heads(Append(o, e), t)
<1> DEFINE b == Append(o, e)
           l == Len(o)
<1>1. l \in Nat \ {0} /\ \A i \in 1 .. l : o[i].list \in 1 .. Len(d)
  BY ListsRange
<1>2. Len(b) = l + 1 /\ b[l + 1] = e /\ \A i \in 1 .. l : b[i] = o[i]
  BY AppendProperties
<1> HIDE DEF b
<1>3. ASSUME NEW i \in 1 .. l + 1, b[i].kind = "for"
      PROVE  i > 1 /\ (i < l + 1 => b[i + 1].kind = "brace" /\ ~t[b[i + 1].list].do)
  <2>1. CASE i = l + 1
    BY <1>1, <2>1
  <2>2. CASE i = l
    <3>1. o[l].kind = "for" /\ l \in 1 .. l
      BY <1>1, <1>2, <1>3, <2>2
    <3>2. e.kind = "brace" /\ ~t[e.list].do /\ b[i + 1] = e
      BY <1>2, <2>2, <3>1
    <3>3. l > 1
      BY <3>1 DEF Heads
    <3> QED BY <2>2, <3>2, <3>3
  <2>3. CASE i # l /\ i # l + 1
    <3>1. i \in 1 .. l /\ i + 1 \in 1 .. l /\ i < l
      BY <1>1, <2>3
    <3>2. i > 1 /\ o[i + 1].kind = "brace" /\ ~s[o[i + 1].list].do
      BY <1>2, <1>3, <3>1 DEF Heads
    <3> QED BY <1>1, <1>2, <3>1, <3>2
  <2> QED BY <2>1, <2>2, <2>3
<1>4. Heads(b, t)
  BY <1>2, <1>3 DEF Heads
<1> QED BY <1>4 DEF b

LEMMA HeadsClose ==
  ASSUME NEW o \in Seq(OutType), Len(o) > 1, NEW s, Heads(o, s),
         NEW c \in Seq(SUBSET Name), Lists(Front(o), c),
         NEW t, \A k \in 1 .. Len(c) : t[k].do = s[k].do
  PROVE  Heads(Front(o), t)
<1> DEFINE b == Front(o)
           l == Len(o) - 1
<1>1. Len(o) \in Nat /\ o # <<>>
  BY LenProperties, EmptySeq
<1>2. l \in Nat \ {0} /\ Len(o) = l + 1
  <2>1. \A k \in Nat : k > 1 => k - 1 \in Nat \ {0} /\ k = k - 1 + 1
    OBVIOUS
  <2> QED BY <1>1, <2>1
<1>3. b \in Seq(OutType) /\ Len(b) = l /\ \A i \in 1 .. l : b[i] = o[i]
  BY <1>1, FrontOf
<1>4. \A i \in 1 .. l : b[i].list \in 1 .. Len(c)
  BY <1>3, ListsRange
<1> HIDE DEF b
<1>5. ASSUME NEW i \in 1 .. l, b[i].kind = "for"
      PROVE  i > 1 /\ (i < l => b[i + 1].kind = "brace" /\ ~t[b[i + 1].list].do)
  <2>1. i \in 1 .. Len(o) /\ i < Len(o) /\ (i < l => i + 1 \in 1 .. l)
    BY <1>2
  <2>2. i > 1 /\ o[i + 1].kind = "brace" /\ ~s[o[i + 1].list].do
    BY <1>3, <1>5, <2>1 DEF Heads
  <2> QED BY <1>3, <1>4, <2>1, <2>2
<1>6. Heads(b, t)
  BY <1>3, <1>5 DEF Heads
<1> QED BY <1>6 DEF b

-----------------------------------------------------------------------------
(* The mirror in one step.                                                 *)

\* What the steps below the limit start from.
LEMMA MirrorNow ==
  ASSUME Typed, MirrorInv, "deep" \notin features
  PROVE  /\ out \in Seq(OutType) /\ declared \in Seq(SUBSET Name) /\ Mirrors(out, declared, src)
         /\ Text \in TextType /\ Text.out = out /\ Text.declared = declared /\ Text.seen = seen
         /\ Len(out) \in Nat \ {0} /\ Len(src) \in Nat \ {0} /\ pointer = Len(declared)
         /\ Len(declared) = Len(src) /\ src \in Seq(SrcType)
<1>1. out \in Seq(OutType) /\ declared \in Seq(SUBSET Name) /\ Mirrors(out, declared, src)
  BY DEF Typed, TypeOK, OutType, MirrorInv
<1>2. Len(out) \in Nat \ {0}
  BY <1>1, ListsRange DEF Mirrors
<1>3. Text \in TextType /\ Text.out = out /\ Text.declared = declared /\ Text.seen = seen
  BY TextTypes DEF Text
<1> QED BY <1>1, <1>2, <1>3, SourceTypes DEF Typed, Mirrors

LEMMA FeaturesGrow == ASSUME NEW f, Meets(f) PROVE features \subseteq features' /\ f \subseteq features'
BY DEF Meets

\* A symbol is met, and perhaps declared in the source.
LEMMA MirrorSymbol ==
  ASSUME NEW txt \in TextType, NEW s, Mirrors(txt.out, txt.declared, s),
         NEW v \in Var, NEW n \in Name, NEW storage, NEW place,
         NEW t, Len(t) = Len(s), \A k \in 1 .. Len(s) : t[k].do = s[k].do
  PROVE  LET r == VisitSymbol(txt, v, n, storage, place) IN Mirrors(r.out, r.declared, t)
<1> DEFINE r == VisitSymbol(txt, v, n, storage, place)
<1>1. r \in TextType /\ (Leaves(txt, r) \/ Declares(txt, r, v, n))
  BY SymbolSteps
<1> HIDE DEF r
<1>2. txt.out \in Seq(OutType) /\ txt.declared \in Seq(SUBSET Name)
  BY DEF TextType
<1>3. /\ Lists(r.out, r.declared)
      /\ Len(r.out) = Len(txt.out) /\ Len(r.declared) = Len(txt.declared)
      /\ \A i \in 1 .. Len(txt.out) :
           r.out[i].kind = txt.out[i].kind /\ r.out[i].list = txt.out[i].list
  BY <1>1, ListsVisit DEF Mirrors
<1>4. Heads(r.out, t)
  <2>1. Lists(txt.out, txt.declared) /\ Heads(txt.out, s) /\ Len(txt.declared) = Len(s)
    BY DEF Mirrors
  <2>2. \A k \in 1 .. Len(txt.declared) : t[k].do = s[k].do
    BY <2>1
  <2> QED BY <1>2, <1>3, <2>1, <2>2, HeadsSame
<1>5. Len(txt.out) \in 1 .. Len(txt.out)
  BY <1>2, ListsRange DEF Mirrors
<1>6. r.out[Len(r.out)].kind = "brace" /\ Len(r.declared) = Len(t)
  BY <1>3, <1>5 DEF Mirrors
<1>7. Mirrors(r.out, r.declared, t)
  BY <1>3, <1>4, <1>6 DEF Mirrors
<1> QED BY <1>7 DEF r

LEMMA MirrorVisits ==
  ASSUME NEW txt \in TextType, NEW s, Mirrors(txt.out, txt.declared, s),
         NEW v \in Var, NEW n \in Name, NEW place,
         NEW t, Len(t) = Len(s), \A k \in 1 .. Len(s) : t[k].do = s[k].do
  PROVE  LET r == VisitTemporary(txt, v, n, place) IN Mirrors(r.out, r.declared, t)
<1> DEFINE r == VisitSymbol(txt, v, n, "EvqTemporary", place)
<1>1. Mirrors(r.out, r.declared, t)
  BY MirrorSymbol
<1> HIDE DEF r
<1>2. VisitTemporary(txt, v, n, place) = r
  BY DEF VisitTemporary, r
<1> QED BY <1>1, <1>2

\* A brace opens below the limit, after another or after a loop header.
LEMMA MirrorOpens ==
  ASSUME NEW txt \in TextType, NEW s, Lists(txt.out, txt.declared), Heads(txt.out, s),
         Len(txt.declared) = Len(s), pointer = Len(s), pointer + 1 < MaxDepth,
         NEW t, Len(t) = Len(s) + 1, \A k \in 1 .. Len(s) : t[k].do = s[k].do,
         txt.out[Len(txt.out)].kind = "for" => ~t[Len(s) + 1].do
  PROVE  /\ Mirrors(Opened(txt).out, Opened(txt).declared, t)
         /\ Opened(txt).out = Append(txt.out, Brace(Len(s) + 1))
         /\ Opened(txt).declared = Append(txt.declared, {})
<1> DEFINE d == Append(txt.declared, {})
           e == Brace(Len(s) + 1)
<1>1. txt.out \in Seq(OutType) /\ txt.declared \in Seq(SUBSET Name)
  BY DEF TextType
<1>2. Len(s) \in Nat
  BY <1>1, LenProperties
<1>3. MaxDepth \in Nat
  BY ScopesAssumption
<1>4. ~(pointer + 1 >= MaxDepth)
  BY <1>2, <1>3
<1>5. PushDepth(txt.declared) = d
  BY <1>4 DEF PushDepth
<1>6. d \in Seq(SUBSET Name) /\ Len(d) = Len(s) + 1
  BY <1>1, AppendProperties
<1>7. Opened(txt).out = Append(txt.out, e) /\ Opened(txt).declared = d
  BY <1>5, <1>6, OpenedSteps
<1>8. e \in OutType /\ e.kind = "brace" /\ e.list = Len(s) + 1 /\ e.vars = Fresh
  BY <1>2, BraceTypes DEF Brace
<1>9. Lists(Append(txt.out, e), d)
  BY <1>1, <1>6, <1>8, ListsOpen
<1>10. Heads(Append(txt.out, e), t)
  BY <1>1, <1>8, HeadsOpen
<1>11. Append(txt.out, e)[Len(Append(txt.out, e))] = e
  BY <1>1, <1>8, AppendProperties
<1>12. Mirrors(Append(txt.out, e), d, t)
  BY <1>6, <1>8, <1>9, <1>10, <1>11 DEF Mirrors
<1> QED BY <1>7, <1>12

\* A loop header is written, and a symbol in it met.
LEMMA MirrorHeads ==
  ASSUME Typed, MirrorInv, "deep" \notin features, NEW v \in Var, NEW n \in Name
  PROVE  LET r == VisitTemporary(InHeader, v, n, "statement") IN
         /\ r \in TextType /\ Lists(r.out, r.declared) /\ Heads(r.out, src)
         /\ Len(r.declared) = Len(src)
<1> DEFINE r == VisitTemporary(InHeader, v, n, "statement")
           e == Header(Len(declared))
<1>1. r \in TextType /\ (Leaves(InHeader, r) \/ Declares(InHeader, r, v, n))
  BY HeaderTypes, VisitSteps
<1> HIDE DEF r
<1>2. out \in Seq(OutType) /\ declared \in Seq(SUBSET Name) /\ Mirrors(out, declared, src)
      /\ Len(declared) \in Nat
  BY MirrorNow, LenProperties
<1>3. e \in OutType /\ e.kind = "for" /\ e.list = Len(declared) /\ e.vars = Fresh
  BY <1>2, BraceTypes DEF Header
<1>4. Lists(Append(out, e), declared)
  BY <1>2, <1>3, ListsOpen DEF Mirrors
<1>5. Heads(Append(out, e), src)
  BY <1>2, HeadsOpen, <1>3 DEF Mirrors
<1>6. InHeader.out = Append(out, e) /\ InHeader.declared = declared /\ InHeader \in TextType
  BY HeaderTypes
<1>7. /\ Lists(r.out, r.declared)
      /\ Len(r.out) = Len(InHeader.out) /\ Len(r.declared) = Len(declared)
      /\ \A i \in 1 .. Len(InHeader.out) :
           r.out[i].kind = InHeader.out[i].kind /\ r.out[i].list = InHeader.out[i].list
  BY <1>1, <1>4, <1>6, ListsVisit
<1>8. InHeader.out \in Seq(OutType)
  BY <1>6 DEF TextType
<1>9. Heads(r.out, src)
  BY <1>2, <1>4, <1>5, <1>6, <1>7, <1>8, HeadsSame
<1>10. Len(r.declared) = Len(src)
  BY <1>2, <1>7 DEF Mirrors
<1> QED BY <1>1, <1>7, <1>9, <1>10 DEF r

\* Braces without a header close.
LEMMA MirrorCloses ==
  ASSUME Typed, MirrorInv, "deep" \notin features, Len(src) > 1
  PROVE  /\ Lists(Front(out), PopDepth(declared)) /\ Heads(Front(out), Front(src))
         /\ Len(PopDepth(declared)) = Len(Front(src)) /\ Len(out) > 1
         /\ Front(out) \in Seq(OutType) /\ PopDepth(declared) \in Seq(SUBSET Name)
         /\ Len(Front(out)) = Len(out) - 1 /\ \A i \in 1 .. Len(out) - 1 : Front(out)[i] = out[i]
         /\ \A k \in 1 .. Len(Front(src)) : Front(src)[k] = src[k]
<1>1. /\ out \in Seq(OutType) /\ declared \in Seq(SUBSET Name) /\ Mirrors(out, declared, src)
      /\ Len(out) \in Nat \ {0} /\ Len(src) \in Nat \ {0} /\ src \in Seq(SrcType)
  BY MirrorNow
<1>2. Lists(out, declared) /\ Heads(out, src) /\ out[Len(out)].kind = "brace"
      /\ Len(declared) = Len(src)
  BY <1>1 DEF Mirrors
<1>3. Len(out) > 1
  <2>1. 1 \in 1 .. Len(out) /\ out[1].list = 1 /\ out[Len(out)].list = Len(src)
    BY <1>1, <1>2 DEF Lists
  <2>2. Len(out) # 1
    BY <2>1
  <2>3. \A k \in Nat \ {0} : k # 1 => k > 1
    OBVIOUS
  <2> QED BY <1>1, <2>2, <2>3
<1>4. declared # <<>> /\ src # <<>>
  BY <1>1, <1>2, EmptySeq
<1>5. PopDepth(declared) = Front(declared)
  BY <1>4 DEF PopDepth
<1>6. /\ Front(declared) \in Seq(SUBSET Name) /\ Len(Front(declared)) = Len(declared) - 1
      /\ Front(src) \in Seq(SrcType) /\ Len(Front(src)) = Len(src) - 1
      /\ \A k \in 1 .. Len(src) - 1 : Front(src)[k] = src[k]
  BY <1>1, <1>4, FrontOf
<1>7. Lists(Front(out), PopDepth(declared))
  BY <1>1, <1>2, <1>3, <1>5, <1>6, ListsClose
<1>8. \A k \in 1 .. Len(PopDepth(declared)) : Front(src)[k].do = src[k].do
  BY <1>2, <1>5, <1>6
<1>9. Heads(Front(out), Front(src))
  BY <1>1, <1>2, <1>3, <1>5, <1>6, <1>7, <1>8, HeadsClose
<1>10. out # <<>>
  BY <1>1, EmptySeq
<1>11. /\ Front(out) \in Seq(OutType) /\ Len(Front(out)) = Len(out) - 1
       /\ \A i \in 1 .. Len(out) - 1 : Front(out)[i] = out[i]
  BY <1>1, <1>10, FrontOf
<1> QED BY <1>2, <1>3, <1>5, <1>6, <1>7, <1>9, <1>11

\* What a step that ends below the limit did not meet.
LEMMA NotDeep ==
  ASSUME Typed, NEW f, Meets(f), "deep" \notin features'
  PROVE  "deep" \notin features /\ (Deep \subseteq f => pointer + 1 < MaxDepth)
<1>1. features \subseteq features' /\ f \subseteq features'
  BY FeaturesGrow
<1>2. ASSUME Deep \subseteq f PROVE pointer + 1 < MaxDepth
  <2>1. ~(pointer + 1 >= MaxDepth)
    BY <1>1, <1>2 DEF Deep
  <2>2. pointer \in Nat /\ MaxDepth \in Nat
    BY SourceTypes, ScopesAssumption DEF Typed
  <2> QED BY <2>1, <2>2
<1> QED BY <1>1, <1>2

\* The next state, when its text and source mirror each other.
LEMMA NextMirrors ==
  ASSUME NEW txt, NEW s, Mirrors(txt.out, txt.declared, s), Writes(txt), src' = s
  PROVE  MirrorInv'
BY DEF Writes, MirrorInv

\* Declarations of one variable.
LEMMA MirrorDeclares ==
  ASSUME Typed, MirrorInv, NEW n \in Name,
         Declare(n) \/ DeclareInit(n) \/ DeclareConst(n)
  PROVE  MirrorInv'
<1> SUFFICES ASSUME "deep" \notin features' PROVE MirrorInv'
  BY DEF MirrorInv
<1> DEFINE v == Len(name) + 1
           s == BindTop(src, n, v)
           storage == IF DeclareInit(n) THEN "EvqTemporary" ELSE "EvqConstReadOnly"
           txt == VisitSymbol(Text, v, n, storage, "statement")
<1>1. Len(name) < MaxVars /\ src' = s /\ (\E f : Meets(f))
      /\ (Writes(Text) \/ Writes(txt))
  <2>1. CASE Declare(n)
    BY <2>1 DEF Declare, Writes, Text
  <2>2. CASE DeclareInit(n) \/ DeclareConst(n)
    BY <2>2 DEF DeclareInit, DeclareConst, SingleAssignment, VisitTemporary
  <2> QED BY <2>1, <2>2
<1>2. "deep" \notin features
  BY <1>1, NotDeep
<1>3. v \in Var
  BY <1>1, NameGrows
<1>4. Text \in TextType /\ Mirrors(Text.out, Text.declared, src) /\ src \in Seq(SrcType)
  BY <1>2, MirrorNow
<1>5. Len(s) = Len(src) /\ \A k \in 1 .. Len(src) : s[k].do = src[k].do
  BY <1>3, <1>4, BindSrc
<1> HIDE DEF s
<1>6. Mirrors(txt.out, txt.declared, s)
  BY <1>3, <1>4, <1>5, MirrorSymbol
<1>7. Mirrors(Text.out, Text.declared, s)
  <2>1. Lists(Text.out, Text.declared) /\ Heads(Text.out, src) /\ Len(Text.declared) = Len(src)
        /\ Text.out[Len(Text.out)].kind = "brace"
    BY <1>4 DEF Mirrors
  <2>2. Text.out \in Seq(OutType) /\ Text.declared \in Seq(SUBSET Name)
    BY <1>4 DEF TextType
  <2>3. \A k \in 1 .. Len(Text.declared) : s[k].do = src[k].do
    BY <1>5, <2>1
  <2>4. Heads(Text.out, s)
    BY <2>1, <2>2, <2>3, HeadsSame
  <2> QED BY <1>5, <2>1, <2>4 DEF Mirrors
<1> HIDE DEF txt
<1> QED BY <1>1, <1>6, <1>7, NextMirrors

\* Statements that declare nothing.
LEMMA MirrorUses ==
  ASSUME Typed, MirrorInv, NEW v \in DOMAIN name, Assign(v) \/ Use(v) PROVE MirrorInv'
<1> SUFFICES ASSUME "deep" \notin features' PROVE MirrorInv'
  BY DEF MirrorInv
<1>1. PICK place : \E f : Meets(f) /\ Writes(VisitTemporary(Text, v, name[v], place)) /\ src' = src
  BY DEF Assign, Use
<1>2. "deep" \notin features
  BY <1>1, NotDeep
<1>3. Text \in TextType /\ Mirrors(Text.out, Text.declared, src)
  BY <1>2, MirrorNow
<1>4. v \in Var /\ name[v] \in Name
  BY SourceTypes
<1> DEFINE txt == VisitTemporary(Text, v, name[v], place)
<1>5. Mirrors(txt.out, txt.declared, src)
  BY <1>3, <1>4, MirrorVisits
<1>6. Writes(txt) /\ src' = src
  BY <1>1
<1> HIDE DEF txt
<1> QED BY <1>5, <1>6, NextMirrors

\* A declaration of two: the braces it opens are closed again.
LEMMA MirrorDeclaresTwo ==
  ASSUME Typed, MirrorInv, NEW m \in Name, NEW n \in Name, DeclareTwo(m, n) PROVE MirrorInv'
<1> SUFFICES ASSUME "deep" \notin features' PROVE MirrorInv'
  BY DEF MirrorInv
<1> DEFINE v   == Len(name) + 1
           t   == Append(src, SourceScope)
           b   == BindTop(src, m, v)
           s   == BindTop(b, n, v + 1)
           op  == Opened(Text)
           one == VisitTemporary(op, v, m, "statement")
           two == VisitTemporary(one, v + 1, n, "statement")
           txt == InBraces(two)
           f   == Deep \cup NameFeatures(m) \cup NameFeatures(n) \cup {"multi"}
<1>1. v < MaxVars /\ src' = s /\ Meets(f) /\ Writes(txt)
  BY DEF DeclareTwo
<1>2. "deep" \notin features /\ pointer + 1 < MaxDepth
  BY <1>1, NotDeep
<1>3. v \in Var /\ v + 1 \in Var
  <2>1. Len(name) \in Nat
    BY SourceTypes, LenProperties
  <2> QED BY <1>1, <2>1, ScopesAssumption DEF Var
<1>4. /\ out \in Seq(OutType) /\ Mirrors(out, declared, src) /\ Text \in TextType
      /\ Text.out = out /\ Text.declared = declared /\ pointer = Len(src) /\ src \in Seq(SrcType)
      /\ Len(src) \in Nat \ {0} /\ Len(out) \in Nat \ {0}
  BY <1>2, MirrorNow DEF Typed
<1>5. Len(t) = Len(src) + 1 /\ \A k \in 1 .. Len(src) : t[k] = src[k]
  BY <1>4, BraceTypes, AppendProperties
<1> HIDE DEF t
<1>6. /\ Mirrors(op.out, op.declared, t) /\ op.out = Append(out, Brace(Len(src) + 1))
      /\ op \in TextType
  <2>1. Lists(Text.out, Text.declared) /\ Heads(Text.out, src)
        /\ Len(Text.declared) = Len(src) /\ Text.out[Len(Text.out)].kind # "for"
    BY <1>4 DEF Mirrors
  <2>2. op \in TextType
    BY <1>4, OpenedSteps
  <2>3. pointer + 1 < MaxDepth /\ pointer = Len(src)
    BY <1>2, <1>4
  <2>4. Text \in TextType /\ Text.out = out
    BY <1>4
  <2>5. Len(t) = Len(src) + 1 /\ \A k \in 1 .. Len(src) : t[k].do = src[k].do
    BY <1>5
  <2>6. Mirrors(op.out, op.declared, t) /\ op.out = Append(Text.out, Brace(Len(src) + 1))
    BY <2>1, <2>3, <2>4, <2>5, MirrorOpens
  <2> QED BY <2>2, <2>4, <2>6
<1> HIDE DEF op
<1>7. one \in TextType /\ Mirrors(one.out, one.declared, t)
  BY <1>3, <1>6, MirrorVisits, VisitSteps
<1>8. Len(one.out) = Len(op.out)
      /\ \A i \in 1 .. Len(op.out) : one.out[i].kind = op.out[i].kind /\ one.out[i].list = op.out[i].list
  <2>1. one \in TextType /\ (Leaves(op, one) \/ Declares(op, one, v, m))
    BY <1>3, <1>6, VisitSteps
  <2>2. Lists(op.out, op.declared)
    BY <1>6 DEF Mirrors
  <2> HIDE DEF one
  <2> QED BY <1>3, <1>6, <2>1, <2>2, ListsVisit
<1> HIDE DEF one
<1>9. two \in TextType /\ Mirrors(two.out, two.declared, t)
  BY <1>3, <1>7, MirrorVisits, VisitSteps
<1>10. Len(two.out) = Len(one.out)
       /\ \A i \in 1 .. Len(one.out) : two.out[i].kind = one.out[i].kind /\ two.out[i].list = one.out[i].list
  <2>1. two \in TextType /\ (Leaves(one, two) \/ Declares(one, two, v + 1, n))
    BY <1>3, <1>7, VisitSteps
  <2>2. Lists(one.out, one.declared)
    BY <1>7 DEF Mirrors
  <2> HIDE DEF two
  <2> QED BY <1>3, <1>7, <2>1, <2>2, ListsVisit
<1> HIDE DEF two
<1>11. /\ txt.out = Front(two.out) /\ txt.declared = PopDepth(two.declared) /\ txt \in TextType
       /\ two.out \in Seq(OutType) /\ two.declared \in Seq(SUBSET Name)
  BY <1>9, InBracesSteps DEF TextType
<1> HIDE DEF txt
<1>12. /\ Len(two.out) = Len(out) + 1
       /\ \A i \in 1 .. Len(out) : two.out[i].kind = out[i].kind /\ two.out[i].list = out[i].list
  <2>1. Len(op.out) = Len(out) + 1 /\ \A i \in 1 .. Len(out) : op.out[i] = out[i]
    <3>1. Brace(Len(src) + 1) \in OutType
      BY <1>4, BraceTypes
    <3> QED BY <1>4, <1>6, <3>1, AppendProperties
  <2>2. \A i \in 1 .. Len(out) : i \in 1 .. Len(out) + 1
    BY <1>4
  <2> QED BY <1>8, <1>10, <2>1, <2>2
<1>13. /\ Lists(two.out, two.declared) /\ two.out[Len(two.out)].kind = "brace"
       /\ Len(two.declared) = Len(src) + 1
  BY <1>5, <1>9 DEF Mirrors
<1>14. two.out # <<>> /\ two.declared # <<>> /\ Len(two.out) > 1
  <2>1. Len(out) + 1 > 1 /\ Len(out) + 1 # 0 /\ Len(src) + 1 # 0
    BY <1>4
  <2>2. Len(<<>>) = 0
    OBVIOUS
  <2> QED BY <1>12, <1>13, <2>1, <2>2
<1>15. /\ Len(txt.out) = Len(out) /\ Len(txt.declared) = Len(src)
       /\ \A i \in 1 .. Len(out) : txt.out[i] = two.out[i]
  <2>1. Len(Front(two.out)) = Len(two.out) - 1 /\ Len(Front(two.declared)) = Len(two.declared) - 1
        /\ \A i \in 1 .. Len(two.out) - 1 : Front(two.out)[i] = two.out[i]
    BY <1>11, <1>14, FrontOf
  <2>2. Len(out) + 1 - 1 = Len(out) /\ Len(src) + 1 - 1 = Len(src)
    BY <1>4
  <2> QED BY <1>11, <1>12, <1>13, <1>14, <2>1, <2>2 DEF PopDepth
<1>16. Lists(txt.out, txt.declared)
  <2>1. txt.declared \in Seq(SUBSET Name)
    BY <1>11 DEF TextType
  <2> QED BY <1>11, <1>13, <1>14, <2>1, ListsClose
<1>17. Len(s) = Len(src) /\ \A k \in 1 .. Len(src) : s[k].do = src[k].do
  <2>1. b \in Seq(SrcType) /\ Len(b) = Len(src) /\ \A k \in 1 .. Len(src) : b[k].do = src[k].do
    BY <1>3, <1>4, BindSrc
  <2> HIDE DEF b
  <2>2. Len(s) = Len(b) /\ \A k \in 1 .. Len(b) : s[k].do = b[k].do
    BY <1>3, <2>1, BindSrc
  <2> QED BY <2>1, <2>2
<1> HIDE DEF s
<1>18. Mirrors(txt.out, txt.declared, s)
  <2>1. /\ Lists(out, declared) /\ Heads(out, src) /\ Len(declared) = Len(src)
        /\ out[Len(out)].kind = "brace" /\ declared \in Seq(SUBSET Name)
    BY <1>2, MirrorNow DEF Mirrors
  <2>2. \A i \in 1 .. Len(out) : txt.out[i].kind = out[i].kind /\ txt.out[i].list = out[i].list
    BY <1>12, <1>15
  <2>3. \A k \in 1 .. Len(declared) : s[k].do = src[k].do
    BY <1>17, <2>1
  <2>4. Heads(txt.out, s)
    <3>1. out \in Seq(OutType)
      BY <1>4
    <3>2. Len(txt.out) = Len(out)
      BY <1>15
    <3>3. Lists(out, declared) /\ Heads(out, src) /\ declared \in Seq(SUBSET Name)
      BY <2>1
    <3> QED BY <2>2, <2>3, <3>1, <3>2, <3>3, HeadsSame
  <2>5. Len(out) \in 1 .. Len(out)
    BY <1>4
  <2> QED BY <1>15, <1>16, <1>17, <2>1, <2>2, <2>4, <2>5 DEF Mirrors
<1> QED BY <1>1, <1>18, NextMirrors

\* A scope opens after what txt has: in the source s.
LEMMA MirrorGrows ==
  ASSUME Typed, MirrorInv, NEW f, Meets(f), Deep \subseteq f, "deep" \notin features',
         NEW txt \in TextType, Lists(txt.out, txt.declared), Heads(txt.out, src),
         Len(txt.declared) = Len(src), Writes(Opened(txt)),
         Len(src') = Len(src) + 1, \A k \in 1 .. Len(src) : src'[k].do = src[k].do,
         txt.out[Len(txt.out)].kind = "for" => ~src'[Len(src) + 1].do
  PROVE  MirrorInv'
<1>1. pointer + 1 < MaxDepth /\ pointer = Len(src)
  BY NotDeep DEF Typed
<1> DEFINE o == Opened(txt)
<1>2. Mirrors(o.out, o.declared, src')
  BY <1>1, MirrorOpens
<1>3. Writes(o)
  OBVIOUS
<1> HIDE DEF o
<1> QED BY <1>2, <1>3, NextMirrors

LEMMA MirrorBlocks ==
  ASSUME Typed, MirrorInv, OpenBlock \/ OpenDo \/ \E v \in DOMAIN name : Headed(v)
  PROVE  MirrorInv'
<1> SUFFICES ASSUME "deep" \notin features' PROVE MirrorInv'
  BY DEF MirrorInv
<1>1. ASSUME NEW f, Meets(f), Deep \subseteq f, NEW txt \in TextType,
             Mirrors(txt.out, txt.declared, src), Writes(Opened(txt)),
             NEW s \in SrcType, src' = Append(src, s)
      PROVE  MirrorInv'
  <2>1. src \in Seq(SrcType)
    BY SourceTypes
  <2>2. Len(src') = Len(src) + 1 /\ \A k \in 1 .. Len(src) : src'[k] = src[k]
    BY <1>1, <2>1, AppendProperties
  <2>3. Lists(txt.out, txt.declared) /\ Heads(txt.out, src) /\ Len(txt.declared) = Len(src)
        /\ txt.out[Len(txt.out)].kind # "for"
    BY <1>1 DEF Mirrors
  <2> QED BY <1>1, <2>2, <2>3, MirrorGrows
<1>2. "deep" \notin features
  BY NotDeep DEF OpenBlock, OpenDo, Headed
<1>3. Text \in TextType /\ Mirrors(Text.out, Text.declared, src)
  BY <1>2, MirrorNow
<1>4. ASSUME OpenBlock \/ OpenDo PROVE MirrorInv'
  <2> DEFINE s == IF OpenBlock THEN SourceScope ELSE [SourceScope EXCEPT !.do = TRUE]
  <2>1. s \in SrcType
    BY BraceTypes DEF SrcType
  <2>2. Meets(Deep) /\ Writes(Opened(Text)) /\ src' = Append(src, s)
    BY <1>4 DEF OpenBlock, OpenDo
  <2> HIDE DEF s
  <2> QED BY <1>1, <1>3, <2>1, <2>2
<1>5. ASSUME NEW v \in DOMAIN name, Headed(v) PROVE MirrorInv'
  <2> DEFINE txt == VisitTemporary(Text, v, name[v], "inside")
             f   == Deep \cup UseFeatures(v, "inside")
  <2>1. v \in Var /\ name[v] \in Name
    BY SourceTypes
  <2>2. txt \in TextType /\ Mirrors(txt.out, txt.declared, src)
    BY <1>3, <2>1, MirrorVisits, VisitSteps
  <2>3. Meets(f) /\ Writes(Opened(txt)) /\ src' = Append(src, SourceScope)
    BY <1>5 DEF Headed
  <2>4. Deep \subseteq f /\ SourceScope \in SrcType
    BY BraceTypes
  <2> HIDE DEF txt, f
  <2> QED BY <1>1, <2>2, <2>3, <2>4
<1> QED BY <1>4, <1>5

LEMMA MirrorFors ==
  ASSUME Typed, MirrorInv,
         (\E n \in Name : OpenFor(n)) \/ (\E v \in DOMAIN name : OpenForOver(v))
  PROVE  MirrorInv'
<1> SUFFICES ASSUME "deep" \notin features' PROVE MirrorInv'
  BY DEF MirrorInv
<1>1. ASSUME NEW f, Meets(f), Deep \subseteq f, NEW v \in Var, NEW n \in Name,
             Writes(Opened(VisitTemporary(InHeader, v, n, "statement"))),
             Len(src') = Len(src) + 1, \A k \in 1 .. Len(src) : src'[k].do = src[k].do,
             ~src'[Len(src) + 1].do
      PROVE  MirrorInv'
  <2> DEFINE txt == VisitTemporary(InHeader, v, n, "statement")
  <2>1. "deep" \notin features
    BY <1>1, NotDeep
  <2>2. txt \in TextType /\ Lists(txt.out, txt.declared) /\ Heads(txt.out, src)
        /\ Len(txt.declared) = Len(src)
    BY <2>1, MirrorHeads
  <2>3. Writes(Opened(txt))
    BY <1>1
  <2> HIDE DEF txt
  <2> QED BY <1>1, <2>2, <2>3, MirrorGrows
<1>2. ASSUME NEW n \in Name, OpenFor(n) PROVE MirrorInv'
  <2> DEFINE v == Len(name) + 1
             f == Deep \cup NameFeatures(n)
  <2>1. Meets(f) /\ Writes(Opened(VisitTemporary(InHeader, v, n, "statement"))) /\ Len(src) <= MaxOpen
        /\ src' = BindTop(Append(ForsAfter(n), SourceScope), n, v)
        /\ pointer' = PushedPointer(pointer) /\ v <= MaxVars
    BY <1>2 DEF OpenFor, ForsAfter
  <2>2. v \in Var
    <3>1. Len(name) \in Nat
      BY SourceTypes, LenProperties
    <3> QED BY <2>1, <3>1, ScopesAssumption DEF Var
  <2>3. Deep \subseteq f
    OBVIOUS
  <2> HIDE DEF v, f
  <2>4. Len(src') = Len(src) + 1 /\ ~src'[Len(src) + 1].do
        /\ \A k \in 1 .. Len(src) : src'[k].do = src[k].do
    BY <2>1, <2>2, ForOpens
  <2> QED BY <1>1, <2>1, <2>2, <2>3, <2>4
<1>3. ASSUME NEW v \in DOMAIN name, OpenForOver(v) PROVE MirrorInv'
  <2> DEFINE f == Deep \cup UseFeatures(v, "header")
  <2>1. Meets(f) /\ Writes(Opened(VisitTemporary(InHeader, v, name[v], "statement")))
        /\ src' = Append(src, SourceScope)
    BY <1>3 DEF OpenForOver
  <2>2. Deep \subseteq f
    OBVIOUS
  <2> HIDE DEF f
  <2>3. v \in Var /\ name[v] \in Name /\ src \in Seq(SrcType)
    BY SourceTypes
  <2>4. Len(src') = Len(src) + 1 /\ src'[Len(src) + 1] = SourceScope
        /\ \A k \in 1 .. Len(src) : src'[k] = src[k]
    BY <2>1, <2>3, BraceTypes, AppendProperties
  <2>5. ~SourceScope.do
    BY DEF SourceScope
  <2> QED BY <1>1, <2>1, <2>2, <2>3, <2>4, <2>5
<1> QED BY <1>2, <1>3

LEMMA MirrorCloseStep == ASSUME Typed, MirrorInv, Close PROVE MirrorInv'
<1> SUFFICES ASSUME "deep" \notin features' PROVE MirrorInv'
  BY DEF MirrorInv
<1>1. /\ Len(src) > 1 /\ src' = Front(src) /\ Writes(Closed)
      /\ features' = features
  BY CloseSteps
<1>2. "deep" \notin features
  BY <1>1
<1> DEFINE o == Front(out)
           d == PopDepth(declared)
           s == Front(src)
<1>3. /\ Lists(o, d) /\ Heads(o, s) /\ Len(d) = Len(s) /\ Len(out) > 1
      /\ o \in Seq(OutType) /\ d \in Seq(SUBSET Name) /\ Len(o) = Len(out) - 1
  BY <1>1, <1>2, MirrorCloses
<1>4. Closed.out = AfterBrace(out) /\ Closed.declared = d
  BY ClosedTypes
<1>5. AfterBrace(out) = IF o # <<>> /\ o[Len(o)].kind = "for" THEN Front(o) ELSE o
  BY DEF AfterBrace, Last
<1> HIDE DEF o, d, s
<1>6. Len(o) \in Nat \ {0} /\ o # <<>> /\ Len(o) \in 1 .. Len(o)
  BY <1>3, ListsRange, EmptySeq
<1>7. o[Len(o)] \in OutType
  BY <1>3, <1>6, ElementOfSeq
<1>8. CASE o[Len(o)].kind = "brace"
  <2>1. Mirrors(o, d, s)
    BY <1>3, <1>8 DEF Mirrors
  <2>2. Closed.out = o
    BY <1>4, <1>5, <1>8
  <2>3. src' = s
    BY <1>1 DEF s
  <2> QED BY <1>1, <1>4, <2>1, <2>2, <2>3, NextMirrors
<1>9. CASE o[Len(o)].kind = "for"
  <2>1. Len(o) > 1
    BY <1>3, <1>6, <1>9 DEF Heads
  <2>2. Lists(Front(o), d)
    BY <1>3, <1>9, <2>1, ListsClose
  <2>3. Heads(Front(o), s)
    BY <1>3, <2>1, <2>2, HeadsClose
  <2>4. Len(Front(o)) = Len(o) - 1 /\ \A i \in 1 .. Len(o) - 1 : Front(o)[i] = o[i]
    BY <1>3, <1>6, FrontOf
  <2>5. Len(o) - 1 \in 1 .. Len(o) /\ Len(o) - 1 \in 1 .. Len(o) - 1
        /\ Len(o) - 1 < Len(o) /\ Len(o) - 1 + 1 = Len(o)
    <3>1. \A k \in Nat : k > 1 => k - 1 \in 1 .. k /\ k - 1 \in 1 .. k - 1 /\ k - 1 < k /\ k - 1 + 1 = k
      OBVIOUS
    <3> QED BY <1>6, <2>1, <3>1
  <2>6. o[Len(o) - 1].kind # "for"
    BY <1>3, <1>9, <2>5 DEF Heads
  <2>7. o[Len(o) - 1] \in OutType
    BY <1>3, <2>5, ElementOfSeq
  <2>8. o[Len(o) - 1].kind = "brace"
    BY <2>6, <2>7 DEF OutType
  <2>9. Mirrors(Front(o), d, s)
    BY <1>3, <2>2, <2>3, <2>4, <2>5, <2>8 DEF Mirrors
  <2>10. Closed.out = Front(o) /\ src' = s
    BY <1>1, <1>4, <1>5, <1>6, <1>9 DEF s
  <2> QED BY <1>1, <1>4, <2>9, <2>10, NextMirrors
<1> QED BY <1>7, <1>8, <1>9 DEF OutType

\* The braces of a do close, and the text and the source mirror each other again.
LEMMA DoCloses ==
  ASSUME Typed, MirrorInv, "deep" \notin features, NEW v \in DOMAIN name, CloseDo(v)
  PROVE  /\ InBraces(Text) \in TextType /\ InBraces(Text).out = Front(out)
         /\ InBraces(Text).seen = seen
         /\ Mirrors(InBraces(Text).out, InBraces(Text).declared, Front(src))
         /\ Len(src) > 1 /\ Len(Front(out)) = Len(out) - 1
         /\ \A i \in 1 .. Len(out) - 1 : Front(out)[i] = out[i]
<1> DEFINE in  == InBraces(Text)
           s   == Front(src)
<1>1. Last(src).do /\ LookUp(Front(src), name[v]) = v
  BY DEF CloseDo
<1>2. Len(src) > 1
  BY <1>1, DoIsInside
<1>4. /\ Lists(Front(out), PopDepth(declared)) /\ Heads(Front(out), s)
      /\ Len(PopDepth(declared)) = Len(s) /\ Len(out) > 1
      /\ Front(out) \in Seq(OutType)
      /\ Len(Front(out)) = Len(out) - 1 /\ \A i \in 1 .. Len(out) - 1 : Front(out)[i] = out[i]
  BY <1>2, MirrorCloses
<1>5. in \in TextType /\ in.out = Front(out) /\ in.declared = PopDepth(declared) /\ in.seen = seen
  BY MirrorNow, InBracesSteps
<1> HIDE DEF in
<1>6. /\ out \in Seq(OutType) /\ Mirrors(out, declared, src) /\ Len(out) \in Nat
  BY MirrorNow
<1>7. Len(out) - 1 \in 1 .. Len(out) /\ Len(out) - 1 \in 1 .. Len(out) - 1
      /\ Len(out) - 1 < Len(out) /\ Len(out) - 1 + 1 = Len(out)
  <2>1. \A k \in Nat : k > 1 => k - 1 \in 1 .. k /\ k - 1 \in 1 .. k - 1 /\ k - 1 < k /\ k - 1 + 1 = k
    OBVIOUS
  <2> QED BY <1>4, <1>6, <2>1
<1>8. src[Len(src)].do
  BY <1>1 DEF Last
<1>9. out[Len(out)].list = Len(src)
  BY <1>6 DEF Mirrors, Lists
<1>10. out[Len(out) - 1].kind # "for"
  BY <1>6, <1>7, <1>8, <1>9 DEF Mirrors, Heads
<1>11. out[Len(out) - 1] \in OutType
  BY <1>6, <1>7, ElementOfSeq
<1>12. in.out[Len(in.out)].kind = "brace"
  BY <1>4, <1>5, <1>7, <1>10, <1>11 DEF OutType
<1>13. Mirrors(in.out, in.declared, s)
  BY <1>4, <1>5, <1>12 DEF Mirrors
<1> QED BY <1>2, <1>4, <1>5, <1>13 DEF in

LEMMA MirrorCloseDo == ASSUME Typed, MirrorInv, NEW v \in DOMAIN name, CloseDo(v) PROVE MirrorInv'
<1> SUFFICES ASSUME "deep" \notin features' PROVE MirrorInv'
  BY DEF MirrorInv
<1> DEFINE in  == InBraces(Text)
           txt == VisitTemporary(in, v, name[v], "inside")
           f   == IF v \in seen THEN {} ELSE {"late"}
           s   == Front(src)
<1>1. src' = s /\ Writes(txt) /\ Meets(f)
  BY DEF CloseDo
<1>2. "deep" \notin features /\ v \in Var /\ name[v] \in Name
  BY <1>1, NotDeep, SourceTypes
<1>3. in \in TextType /\ Mirrors(in.out, in.declared, s)
  BY <1>2, DoCloses
<1> HIDE DEF in
<1>4. Mirrors(txt.out, txt.declared, s)
  BY <1>2, <1>3, MirrorVisits
<1> HIDE DEF txt, s
<1> QED BY <1>1, <1>4, NextMirrors

LEMMA MirrorStep == ASSUME Typed, MirrorInv, [Next]_vars PROVE MirrorInv'
<1>1. CASE UNCHANGED vars
  BY <1>1 DEF vars, MirrorInv
<1>2. ASSUME NEW n \in Name, Declare(n) \/ DeclareInit(n) \/ DeclareConst(n) \/ OpenFor(n)
      PROVE  MirrorInv'
  BY <1>2, MirrorDeclares, MirrorFors
<1>3. ASSUME NEW m \in Name, NEW n \in Name, DeclareTwo(m, n) PROVE MirrorInv'
  BY <1>3, MirrorDeclaresTwo
<1>4. ASSUME NEW v \in DOMAIN name, Assign(v) \/ Use(v) PROVE MirrorInv'
  BY <1>4, MirrorUses
<1>5. ASSUME NEW v \in DOMAIN name,
             OpenForOver(v) \/ OpenIf(v) \/ OpenWhile(v) \/ OpenSwitch(v) \/ CloseDo(v)
      PROVE  MirrorInv'
  BY <1>5, MirrorFors, MirrorBlocks, MirrorCloseDo DEF OpenIf, OpenWhile, OpenSwitch
<1>6. CASE OpenBlock \/ OpenDo \/ Close
  BY <1>6, MirrorBlocks, MirrorCloseStep
<1> QED BY <1>1, <1>2, <1>3, <1>4, <1>5, <1>6 DEF Next

LEMMA MirrorInit == ASSUME Init PROVE MirrorInv
<1>1. out = <<Brace(1)>> /\ declared = <<{}>> /\ src = <<SourceScope>>
  BY DEF Init
<1>2. Len(out) = 1 /\ out[1] = Brace(1) /\ Len(declared) = 1 /\ Len(src) = 1 /\ out # <<>>
  BY <1>1
<1>3. Brace(1).list = 1 /\ Brace(1).kind = "brace" /\ \A n \in Name : Brace(1).vars[n] = Nowhere
  BY DEF Brace, Fresh
<1>4. Lists(out, declared) /\ Heads(out, src)
  BY <1>2, <1>3 DEF Lists, Heads
<1> QED BY <1>2, <1>3, <1>4 DEF MirrorInv, Mirrors

LEMMA MirrorHolds == Spec => [](Typed /\ MirrorInv)
<1>1. Typed /\ MirrorInv /\ [Next]_vars => MirrorInv'
  BY MirrorStep
<1> QED BY <1>1, MirrorInit, TypedHolds, PTL DEF Spec

\* At any depth below the limit, pushDepth and popDepth keep one list for each open
\* brace, and what an open scope declares is in its list: isVarDeclared never takes a
\* name that the text declares for a new one.
THEOREM ListsMirror == Spec => []ScopesMirror
<1>1. Typed /\ MirrorInv => ScopesMirror
  <2> SUFFICES ASSUME Typed, MirrorInv, "deep" \notin features
               PROVE  /\ pointer = Len(declared) /\ Last(out).list = Len(declared)
                      /\ \A d \in DOMAIN out :
                           /\ out[d].list = IF d = 1 THEN 1
                                ELSE out[d - 1].list + (IF out[d].kind = "brace" THEN 1 ELSE 0)
                           /\ \A n \in Name : out[d].vars[n] # Nowhere => n \in declared[out[d].list]
    BY DEF ScopesMirror
  <2>1. out \in Seq(OutType) /\ Mirrors(out, declared, src) /\ pointer = Len(declared)
    BY MirrorNow
  <2>2. DOMAIN out = 1 .. Len(out)
    BY <2>1, LenProperties
  <2> QED BY <2>1, <2>2 DEF Mirrors, Lists, Last
<1> QED BY <1>1, MirrorHolds, PTL
-----------------------------------------------------------------------------
(* What is visible.  Without the features a name is bound in one scope of the *)
(* source at a time, and in one of the text; each scope of the text belongs  *)
(* to a scope of the source, a loop header's to the one of the loop's body.  *)
(* What a scope of the text declares is what its source scope declares, so   *)
(* that both close together.                                                *)

Home(e) == IF e.kind = "brace" THEN e.list ELSE e.list + 1

Single(stack) ==
  \A i, j \in 1 .. Len(stack), n \in Name :
    stack[i].vars[n] # Nowhere /\ stack[j].vars[n] # Nowhere => i = j

\* The text o declares exactly the variables x of the open scopes s, each at home.
Reach(o, s, x) ==
  /\ Single(o)
  /\ \A i \in 1 .. Len(o), n \in Name : o[i].vars[n] # Nowhere =>
       o[i].vars[n] \in x /\ Home(o[i]) \in 1 .. Len(s) /\ s[Home(o[i])].vars[n] = o[i].vars[n]
  /\ \A k \in 1 .. Len(s), n \in Name : s[k].vars[n] \in x =>
       \E i \in 1 .. Len(o) : o[i].vars[n] = s[k].vars[n]

\* The open scopes s of the source bind names to variables of those names.
Named(s, nm, x) ==
  /\ Single(s)
  /\ x \subseteq 1 .. Len(nm)
  /\ \A k \in 1 .. Len(s), n \in Name : s[k].vars[n] # Nowhere =>
       s[k].vars[n] \in 1 .. Len(nm) /\ nm[s[k].vars[n]] = n

VisInv == features = {} => Reach(out, src, seen) /\ Named(src, name, seen)

LEMMA OneBinding ==
  ASSUME NEW stack, Len(stack) \in Nat, DOMAIN stack = 1 .. Len(stack), Single(stack), NEW n \in Name
  PROVE  /\ \A i \in 1 .. Len(stack) : stack[i].vars[n] # Nowhere => LookUp(stack, n) = stack[i].vars[n]
         /\ LookUp(stack, n) # Nowhere => \E i \in 1 .. Len(stack) : stack[i].vars[n] = LookUp(stack, n)
<1> DEFINE D == {d \in DOMAIN stack : stack[d].vars[n] # Nowhere}
<1>1. BindingDepth(stack, n) = IF D = {} THEN 0 ELSE CHOOSE d \in D : \A e \in D : e <= d
  BY DEF BindingDepth
<1>2. CASE D = {}
  <2>1. LookUp(stack, n) = Nowhere
    BY <1>1, <1>2 DEF LookUp
  <2> QED BY <1>2, <2>1
<1>3. ASSUME NEW i \in D
      PROVE  LookUp(stack, n) = stack[i].vars[n] /\ \A j \in D : j = i
  <2>1. D = {i}
    BY <1>3 DEF Single
  <2>2. i <= i /\ i # 0
    OBVIOUS
  <2> HIDE DEF D
  <2>3. BindingDepth(stack, n) = i
    BY <1>1, <2>1, <2>2
  <2>4. LookUp(stack, n) = stack[i].vars[n]
    BY <2>2, <2>3 DEF LookUp
  <2> QED BY <2>1, <2>4
<1>4. CASE D # {}
  <2>1. PICK i \in D : TRUE
    BY <1>4
  <2> QED BY <1>3, <2>1
<1> QED BY <1>2, <1>4

\* A variable in scope whose type is written is not declared again.
LEMMA KnownStays ==
  ASSUME NEW txt \in TextType, Lists(txt.out, txt.declared), NEW s \in Seq(SrcType), Single(s),
         Reach(txt.out, s, txt.seen), NEW v \in txt.seen, NEW n \in Name, LookUp(s, n) = v, NEW place
  PROVE  Leaves(txt, VisitTemporary(txt, v, n, place))
<1>1. v \in Var /\ txt.out \in Seq(OutType) /\ txt.declared \in Seq(SUBSET Name)
  BY DEF TextType
<1>2. v # Nowhere
  BY <1>1, ScopesAssumption DEF Var, Nowhere
<1>3. PICK k \in 1 .. Len(s) : s[k].vars[n] = v
  BY <1>2, OneBinding, LenProperties
<1>4. PICK i \in 1 .. Len(txt.out) : txt.out[i].vars[n] = v
  BY <1>3 DEF Reach
<1>5. n \in txt.declared[txt.out[i].list]
  BY <1>2, <1>4 DEF Lists
<1>6. txt.out[i].list \in DOMAIN txt.declared
  BY <1>1, ListsRange, LenProperties
<1>7. IsVarDeclared(txt.declared, n)
  BY <1>5, <1>6 DEF IsVarDeclared
<1> DEFINE r == VisitTemporary(txt, v, n, place)
<1>8. Leaves(txt, r) \/ Declares(txt, r, v, n)
  BY <1>1, VisitSteps
<1> HIDE DEF r
<1>9. ~Declares(txt, r, v, n)
  BY <1>7 DEF Declares
<1> QED BY <1>8, <1>9 DEF r

\* A symbol is met; if it is declared, then in the scope of the text whose home is
\* the scope that declares it in the source.
LEMMA ReachVisits ==
  ASSUME NEW txt \in TextType, Lists(txt.out, txt.declared), NEW s, NEW nm,
         Reach(txt.out, s, txt.seen), Named(s, nm, txt.seen),
         NEW v \in Var, NEW n \in Name, NEW r \in TextType,
         \/ Leaves(txt, r)
         \/ /\ Declares(txt, r, v, n) /\ Home(txt.out[Len(txt.out)]) \in 1 .. Len(s)
            /\ s[Home(txt.out[Len(txt.out)])].vars[n] = v
  PROVE  Reach(r.out, s, r.seen) /\ Named(s, nm, r.seen)
<1>1. CASE Leaves(txt, r)
  BY <1>1 DEF Leaves
<1>2. CASE /\ Declares(txt, r, v, n) /\ Home(txt.out[Len(txt.out)]) \in 1 .. Len(s)
           /\ s[Home(txt.out[Len(txt.out)])].vars[n] = v
  <2> DEFINE o == txt.out
             d == txt.declared
             x == txt.seen
             b == r.out
             l == Len(o)
             h == Home(o[l])
  <2>1. o \in Seq(OutType) /\ d \in Seq(SUBSET Name) /\ x \subseteq Var
    BY DEF TextType
  <2>2. l \in 1 .. l /\ DOMAIN d = 1 .. Len(d) /\ \A i \in 1 .. l : o[i].list \in 1 .. Len(d)
    BY <2>1, ListsRange, LenProperties
  <2>3. v # Nowhere /\ \A w \in x : w # Nowhere
    BY <2>1, ScopesAssumption DEF Var, Nowhere
  <2>4. \A i \in 1 .. l : o[i].vars[n] = Nowhere
    BY <1>2, <2>2 DEF Lists, Declares, IsVarDeclared
  <2>5. /\ Len(b) = l
        /\ \A i \in 1 .. l :
             /\ b[i].kind = o[i].kind /\ b[i].list = o[i].list
             /\ \A m \in Name : b[i].vars[m] = IF i = l /\ m = n THEN v ELSE o[i].vars[m]
    BY <1>2, <2>1, BindOut DEF Declares
  <2>6. r.seen = x \cup {v} /\ h \in 1 .. Len(s) /\ s[h].vars[n] = v
    BY <1>2 DEF Declares
  <2>7. \A i \in 1 .. l : Home(b[i]) = Home(o[i])
    BY <2>5 DEF Home
  <2>8. /\ Single(o) /\ Single(s)
        /\ \A i \in 1 .. l, m \in Name : o[i].vars[m] # Nowhere =>
             o[i].vars[m] \in x /\ Home(o[i]) \in 1 .. Len(s) /\ s[Home(o[i])].vars[m] = o[i].vars[m]
        /\ \A k \in 1 .. Len(s), m \in Name : s[k].vars[m] \in x =>
             \E i \in 1 .. l : o[i].vars[m] = s[k].vars[m]
        /\ x \subseteq 1 .. Len(nm)
        /\ \A k \in 1 .. Len(s), m \in Name : s[k].vars[m] # Nowhere =>
             s[k].vars[m] \in 1 .. Len(nm) /\ nm[s[k].vars[m]] = m
    BY DEF Reach, Named
  <2> HIDE DEF o, d, x, b, l, h
  <2>9. Single(b)
    <3>1. \A i, j \in 1 .. l, m \in Name : o[i].vars[m] # Nowhere /\ o[j].vars[m] # Nowhere => i = j
      BY <2>8 DEF Single, l
    <3>2. \A i \in 1 .. l : b[i].vars[n] # Nowhere => i = l
      BY <2>4, <2>5
    <3>3. \A i \in 1 .. l, m \in Name : m # n => b[i].vars[m] = o[i].vars[m]
      BY <2>5
    <3>4. ASSUME NEW i \in 1 .. l, NEW j \in 1 .. l, NEW m \in Name,
                 b[i].vars[m] # Nowhere, b[j].vars[m] # Nowhere
          PROVE  i = j
      BY <3>1, <3>2, <3>3, <3>4
    <3> QED BY <2>5, <3>4 DEF Single
  <2>10. ASSUME NEW i \in 1 .. l, NEW m \in Name, b[i].vars[m] # Nowhere
         PROVE  b[i].vars[m] \in r.seen /\ Home(b[i]) \in 1 .. Len(s)
                /\ s[Home(b[i])].vars[m] = b[i].vars[m]
    <3>1. CASE i = l /\ m = n
      <4>1. b[i].vars[m] = v /\ Home(b[i]) = h
        BY <2>5, <2>7, <3>1 DEF h
      <4> QED BY <2>6, <3>1, <4>1
    <3>2. CASE ~(i = l /\ m = n)
      <4>1. b[i].vars[m] = o[i].vars[m]
        BY <2>5, <3>2
      <4> QED BY <2>6, <2>7, <2>8, <2>10, <4>1
    <3> QED BY <3>1, <3>2
  <2>11. ASSUME NEW k \in 1 .. Len(s), NEW m \in Name, s[k].vars[m] \in r.seen
         PROVE  \E i \in 1 .. l : b[i].vars[m] = s[k].vars[m]
    <3>1. CASE s[k].vars[m] \in x
      <4>1. PICK i \in 1 .. l : o[i].vars[m] = s[k].vars[m]
        BY <2>8, <3>1
      <4>2. o[i].vars[m] # Nowhere
        BY <2>3, <3>1, <4>1
      <4>3. m # n
        BY <2>4, <4>2
      <4> QED BY <2>5, <4>1, <4>3
    <3>2. CASE s[k].vars[m] = v
      <4>1. m = n
        BY <2>3, <2>6, <2>8, <3>2
      <4> QED BY <2>2, <2>5, <3>2, <4>1
    <3> QED BY <2>6, <2>11, <3>1, <3>2
  <2>12. Reach(b, s, r.seen)
    BY <2>5, <2>9, <2>10, <2>11 DEF Reach
  <2>13. v \in 1 .. Len(nm)
    BY <2>3, <2>6, <2>8
  <2>14. Named(s, nm, r.seen)
    BY <2>6, <2>8, <2>13 DEF Named
  <2> QED BY <2>12, <2>14 DEF b
<1> QED BY <1>1, <1>2

\* A scope of the text opens, with nothing in it.
LEMMA ReachOpens ==
  ASSUME NEW o \in Seq(OutType), NEW s, NEW x, Reach(o, s, x), NEW e \in OutType, e.vars = Fresh
  PROVE  Reach(Append(o, e), s, x)
<1> DEFINE b == Append(o, e)
           l == Len(o)
<1>1. l \in Nat /\ Len(b) = l + 1 /\ b[l + 1] = e /\ \A i \in 1 .. l : b[i] = o[i]
  BY AppendProperties, LenProperties
<1>2. \A n \in Name : e.vars[n] = Nowhere
  BY DEF Fresh
<1> HIDE DEF b
<1>3. \A i \in 1 .. l + 1, n \in Name : b[i].vars[n] # Nowhere => i \in 1 .. l
  <2>1. \A i \in 1 .. l + 1 : i = l + 1 \/ i \in 1 .. l
    BY <1>1
  <2> QED BY <1>1, <1>2, <2>1
<1>4. \A i \in 1 .. l : i \in 1 .. l + 1
  BY <1>1
<1>5. Single(b)
  BY <1>1, <1>3 DEF Single, Reach
<1>6. \A i \in 1 .. Len(b), n \in Name : b[i].vars[n] # Nowhere =>
        b[i].vars[n] \in x /\ Home(b[i]) \in 1 .. Len(s) /\ s[Home(b[i])].vars[n] = b[i].vars[n]
  BY <1>1, <1>3 DEF Reach
<1>7. \A k \in 1 .. Len(s), n \in Name : s[k].vars[n] \in x =>
        \E i \in 1 .. Len(b) : b[i].vars[n] = s[k].vars[n]
  BY <1>1, <1>4 DEF Reach
<1>8. Reach(b, s, x)
  BY <1>5, <1>6, <1>7 DEF Reach
<1> QED BY <1>8 DEF b

\* The source keeps the variables it has, and those that come have no type yet.
LEMMA ReachSource ==
  ASSUME NEW o, NEW s, NEW t, NEW x, Reach(o, s, x),
         \A k \in 1 .. Len(s), n \in Name : s[k].vars[n] # Nowhere =>
           k \in 1 .. Len(t) /\ t[k].vars[n] = s[k].vars[n],
         \A k \in 1 .. Len(t), n \in Name : t[k].vars[n] \in x =>
           k \in 1 .. Len(s) /\ t[k].vars[n] = s[k].vars[n]
  PROVE  Reach(o, t, x)
<1>1. \A i \in 1 .. Len(o), n \in Name : o[i].vars[n] # Nowhere =>
        o[i].vars[n] \in x /\ Home(o[i]) \in 1 .. Len(t) /\ t[Home(o[i])].vars[n] = o[i].vars[n]
  BY DEF Reach
<1>2. \A k \in 1 .. Len(t), n \in Name : t[k].vars[n] \in x =>
        \E i \in 1 .. Len(o) : o[i].vars[n] = t[k].vars[n]
  BY DEF Reach
<1> QED BY <1>1, <1>2 DEF Reach

\* Scopes of the text close with the scope of the source that is their home.
LEMMA ReachCloses ==
  ASSUME NEW o, NEW s, NEW x, Reach(o, s, x), Single(s), Nowhere \notin x,
         NEW b, Len(b) \in Nat, Len(o) \in Nat, Len(b) <= Len(o), \A i \in 1 .. Len(b) : b[i] = o[i],
         NEW t, Len(t) \in Nat, Len(s) = Len(t) + 1, \A k \in 1 .. Len(t) : t[k] = s[k],
         \A i \in 1 .. Len(b) : Home(b[i]) \in 1 .. Len(t),
         \A i \in 1 .. Len(o) : i > Len(b) => Home(o[i]) = Len(s)
  PROVE  Reach(b, t, x)
<1>1. \A i \in 1 .. Len(b) : i \in 1 .. Len(o)
  OBVIOUS
<1>2. \A k \in 1 .. Len(t) : k \in 1 .. Len(s) /\ k # Len(s)
  OBVIOUS
<1>3. Single(b)
  BY <1>1 DEF Single, Reach
<1>4. \A i \in 1 .. Len(b), n \in Name : b[i].vars[n] # Nowhere =>
        b[i].vars[n] \in x /\ Home(b[i]) \in 1 .. Len(t) /\ t[Home(b[i])].vars[n] = b[i].vars[n]
  BY <1>1 DEF Reach
<1>5. ASSUME NEW k \in 1 .. Len(t), NEW n \in Name, t[k].vars[n] \in x
      PROVE  \E i \in 1 .. Len(b) : b[i].vars[n] = t[k].vars[n]
  <2>1. PICK i \in 1 .. Len(o) : o[i].vars[n] = s[k].vars[n]
    BY <1>2, <1>5 DEF Reach
  <2>2. o[i].vars[n] # Nowhere /\ s[k].vars[n] # Nowhere
    BY <1>5, <2>1
  <2>3. Home(o[i]) \in 1 .. Len(s) /\ s[Home(o[i])].vars[n] # Nowhere
    BY <2>2 DEF Reach
  <2>4. Home(o[i]) = k
    BY <1>2, <2>2, <2>3 DEF Single
  <2>5. ~(i > Len(b))
    BY <1>2, <2>4
  <2>6. i \in 1 .. Len(b)
    BY <2>5
  <2> QED BY <2>1, <2>6
<1> QED BY <1>3, <1>4, <1>5 DEF Reach
LEMMA NamedSame ==
  ASSUME NEW s, NEW t, NEW nm, NEW x, Named(s, nm, x),
         \A k \in 1 .. Len(t), n \in Name : t[k].vars[n] # Nowhere =>
           k \in 1 .. Len(s) /\ s[k].vars[n] = t[k].vars[n]
  PROVE  Named(t, nm, x)
<1>1. Single(t)
  BY DEF Single, Named
<1> QED BY <1>1 DEF Named

\* What the scopes t bind is what s binds, and perhaps m to v in scope h.
BindsMore(s, t, h, m, v) ==
  \A k \in 1 .. Len(t), n \in Name : t[k].vars[n] # Nowhere =>
    \/ k \in 1 .. Len(s) /\ s[k].vars[n] = t[k].vars[n]
    \/ k = h /\ n = m /\ t[k].vars[n] = v

\* A declaration in scope h of a name that no open scope binds.
LEMMA NamedDeclares ==
  ASSUME NEW s, NEW nm \in Seq(Name), NEW x, Named(s, nm, x), NEW m \in Name,
         \A k \in 1 .. Len(s) : s[k].vars[m] = Nowhere,
         NEW t, NEW h, BindsMore(s, t, h, m, Len(nm) + 1)
  PROVE  Named(t, Append(nm, m), x)
<1> DEFINE a == Append(nm, m)
<1>1. Len(nm) \in Nat /\ Len(a) = Len(nm) + 1 /\ a[Len(nm) + 1] = m
      /\ \A v \in 1 .. Len(nm) : a[v] = nm[v]
  BY AppendProperties, LenProperties
<1> HIDE DEF a
<1>2. \A v \in 1 .. Len(nm) : v \in 1 .. Len(a)
  BY <1>1
<1>3. Len(nm) + 1 \in 1 .. Len(a)
  BY <1>1
<1>4. Single(t)
  <2> SUFFICES ASSUME NEW i \in 1 .. Len(t), NEW j \in 1 .. Len(t), NEW n \in Name,
                      t[i].vars[n] # Nowhere, t[j].vars[n] # Nowhere
               PROVE  i = j
    BY DEF Single
  <2>1. CASE n = m
    BY <2>1 DEF BindsMore
  <2>2. CASE n # m
    BY <2>2 DEF Single, Named, BindsMore
  <2> QED BY <2>1, <2>2
<1>5. x \subseteq 1 .. Len(a)
  BY <1>2 DEF Named
<1>6. ASSUME NEW k \in 1 .. Len(t), NEW n \in Name, t[k].vars[n] # Nowhere
      PROVE  t[k].vars[n] \in 1 .. Len(a) /\ a[t[k].vars[n]] = n
  <2>1. CASE k \in 1 .. Len(s) /\ s[k].vars[n] = t[k].vars[n]
    <3>1. t[k].vars[n] \in 1 .. Len(nm) /\ nm[t[k].vars[n]] = n
      BY <1>6, <2>1 DEF Named
    <3> QED BY <1>1, <1>2, <3>1
  <2>2. CASE k = h /\ n = m /\ t[k].vars[n] = Len(nm) + 1
    BY <1>1, <1>3, <2>2
  <2> QED BY <1>6, <2>1, <2>2 DEF BindsMore
<1>7. Named(t, a, x)
  BY <1>4, <1>5, <1>6 DEF Named
<1> QED BY <1>7 DEF a

-----------------------------------------------------------------------------
(* What is visible, in one step.                                           *)

\* What the steps on a source without the features start from.
LEMMA VisNow ==
  ASSUME Typed, MirrorInv, VisInv, features = {}
  PROVE  /\ Reach(out, src, seen) /\ Named(src, name, seen)
         /\ Lists(out, declared) /\ out \in Seq(OutType) /\ declared \in Seq(SUBSET Name)
         /\ Text \in TextType /\ Text.out = out /\ Text.declared = declared /\ Text.seen = seen
         /\ Len(declared) = Len(src) /\ Len(src) \in Nat \ {0} /\ Len(out) \in Nat \ {0}
         /\ Nowhere \notin seen /\ src \in Seq(SrcType) /\ Single(src) /\ name \in Seq(Name)
         /\ out[Len(out)].kind = "brace" /\ out[Len(out)].list = Len(src)
<1>1. "deep" \notin features
  OBVIOUS
<1>2. Reach(out, src, seen) /\ Named(src, name, seen)
  BY DEF VisInv
<1>3. Lists(out, declared) /\ Len(declared) = Len(src) /\ out[Len(out)].kind = "brace"
      /\ out[Len(out)].list = Len(src)
  BY <1>1, MirrorNow DEF Mirrors, Lists
<1>4. Nowhere \notin seen
  <2>1. seen \subseteq Var
    BY DEF Typed, TypeOK
  <2> QED BY <2>1, ScopesAssumption DEF Var, Nowhere
<1>5. Single(src)
  BY <1>2 DEF Named
<1>6. name \in Seq(Name)
  BY SourceTypes
<1> QED BY <1>1, <1>2, <1>3, <1>4, <1>5, <1>6, MirrorNow

\* A step that ends on a source without the features met none.
LEMMA NoFeatures ==
  ASSUME NEW f, Meets(f), features' = {} PROVE features = {} /\ f = {}
BY FeaturesGrow

LEMMA NextVisible ==
  ASSUME NEW txt, Writes(txt), Reach(txt.out, src', txt.seen), Named(src', name', txt.seen)
  PROVE  VisInv'
BY DEF Writes, VisInv

\* A name without another variable in scope is bound in no open scope.
LEMMA NameIsFree ==
  ASSUME NEW s \in Seq(SrcType), s = src, Single(s), NEW n \in Name, NameFeatures(n) = {}
  PROVE  \A k \in 1 .. Len(s) : s[k].vars[n] = Nowhere
<1>1. LookUp(s, n) = Nowhere
  BY DEF NameFeatures
<1> QED BY <1>1, OneBinding, LenProperties

\* The scope of the text that is last is at home in the last of the source.
LEMMA LastHome ==
  ASSUME Typed, MirrorInv, VisInv, features = {}
  PROVE  Home(out[Len(out)]) = Len(src)
BY VisNow DEF Home

LEMMA VisDeclares ==
  ASSUME Typed, MirrorInv, VisInv, NEW n \in Name, Declare(n) \/ DeclareInit(n) PROVE VisInv'
<1> SUFFICES ASSUME features' = {} PROVE VisInv'
  BY DEF VisInv
<1> DEFINE v == Len(name) + 1
           s == BindTop(src, n, v)
           txt == VisitTemporary(Text, v, n, "statement")
<1>1. Len(name) < MaxVars /\ src' = s /\ name' = Append(name, n) /\ Meets(NameFeatures(n))
      /\ (Writes(Text) \/ Writes(txt))
  BY DEF Declare, DeclareInit, SingleAssignment, Writes, Text
<1>2. features = {} /\ NameFeatures(n) = {}
  BY <1>1, NoFeatures
<1>3. v \in Var /\ Len(name) \in Nat
  BY <1>1, NameGrows
<1>4. /\ Reach(out, src, seen) /\ Named(src, name, seen) /\ Lists(Text.out, Text.declared)
      /\ Text \in TextType /\ Text.out = out /\ Text.seen = seen /\ src \in Seq(SrcType)
      /\ Single(src) /\ Len(src) \in Nat \ {0} /\ name \in Seq(Name) /\ Nowhere \notin seen
  BY <1>2, VisNow
<1>5. \A k \in 1 .. Len(src) : src[k].vars[n] = Nowhere
  BY <1>2, <1>4, NameIsFree
<1>6. Len(s) = Len(src) /\ \A k \in 1 .. Len(src), m \in Name :
        s[k].vars[m] = IF k = Len(src) /\ m = n THEN v ELSE src[k].vars[m]
  BY <1>3, <1>4, BindSrc
<1>7. Home(Text.out[Len(Text.out)]) = Len(src) /\ Len(src) \in 1 .. Len(src)
  BY <1>2, <1>4, LastHome
<1>8. v \notin seen
  BY <1>3, <1>4 DEF Named
<1> HIDE DEF s, v
<1>9. Reach(out, s, seen)
  <2>1. \A k \in 1 .. Len(src), m \in Name : src[k].vars[m] # Nowhere =>
          k \in 1 .. Len(s) /\ s[k].vars[m] = src[k].vars[m]
    BY <1>5, <1>6
  <2>2. \A k \in 1 .. Len(s), m \in Name : s[k].vars[m] \in seen =>
          k \in 1 .. Len(src) /\ s[k].vars[m] = src[k].vars[m]
    BY <1>6, <1>8
  <2> QED BY <1>4, <2>1, <2>2, ReachSource
<1>10. Named(s, name', seen)
  <2>1. BindsMore(src, s, Len(src), n, Len(name) + 1)
    BY <1>6 DEF v, BindsMore
  <2>2. name' = Append(name, n) /\ name \in Seq(Name) /\ Named(src, name, seen)
    BY <1>1, <1>4
  <2>3. Named(s, Append(name, n), seen)
    BY <1>5, <2>1, <2>2, NamedDeclares
  <2> QED BY <2>2, <2>3
<1>11. CASE Writes(Text)
  BY <1>1, <1>4, <1>9, <1>10, <1>11, NextVisible
<1>12. CASE Writes(txt)
  <2>1. txt \in TextType /\ (Leaves(Text, txt) \/ Declares(Text, txt, v, n))
    BY <1>3, <1>4, VisitSteps
  <2> HIDE DEF txt
  <2>2. Len(src) \in 1 .. Len(s) /\ s[Len(src)].vars[n] = v
    BY <1>6, <1>7
  <2>3. Reach(Text.out, s, Text.seen) /\ Named(s, name', Text.seen)
    BY <1>4, <1>9, <1>10
  <2>4. Reach(txt.out, s, txt.seen) /\ Named(s, name', txt.seen)
    BY <1>3, <1>4, <1>7, <2>1, <2>2, <2>3, ReachVisits
  <2> QED BY <1>1, <1>12, <2>4, NextVisible
<1> QED BY <1>1, <1>11, <1>12

\* A use of a variable whose type is written.
LEMMA UseOfSeen ==
  ASSUME Typed, MirrorInv, VisInv, features = {}, NEW v \in DOMAIN name, InSource(v),
         NEW place, UseFeatures(v, place) = {}, place # "statement"
  PROVE  v \in seen /\ Leaves(Text, VisitTemporary(Text, v, name[v], place))
<1>1. v \in seen
  BY DEF UseFeatures
<1>2. LookUp(src, name[v]) = v /\ name[v] \in Name
  BY SourceTypes DEF InSource
<1>3. /\ Text \in TextType /\ Lists(Text.out, Text.declared) /\ src \in Seq(SrcType) /\ Single(src)
      /\ Reach(Text.out, src, Text.seen) /\ v \in Text.seen
  BY <1>1, VisNow
<1> QED BY <1>1, <1>2, <1>3, KnownStays

LEMMA VisUses ==
  ASSUME Typed, MirrorInv, VisInv, NEW v \in DOMAIN name, Assign(v) \/ Use(v) PROVE VisInv'
<1> SUFFICES ASSUME features' = {} PROVE VisInv'
  BY DEF VisInv
<1> DEFINE n == name[v]
           txt(place) == VisitTemporary(Text, v, n, place)
<1>1. PICK place \in {"statement", "inside"} :
        Meets(UseFeatures(v, place)) /\ Writes(txt(place)) /\ src' = src /\ name' = name /\ InSource(v)
  BY DEF Assign, Use
<1>2. features = {} /\ UseFeatures(v, place) = {}
  BY <1>1, NoFeatures
<1>3. v \in Var /\ n \in Name
  BY SourceTypes
<1>4. /\ Reach(Text.out, src, Text.seen) /\ Named(src, name, Text.seen) /\ Lists(Text.out, Text.declared)
      /\ Text \in TextType /\ src \in Seq(SrcType) /\ Text.seen = seen /\ Text.out = out
      /\ Single(src) /\ Len(src) \in Nat \ {0}
  BY <1>2, VisNow
<1> DEFINE r == txt(place)
<1>5. r \in TextType /\ (Leaves(Text, r) \/ Declares(Text, r, v, n))
  BY <1>3, <1>4, VisitSteps
<1>6. v \in seen => Leaves(Text, r)
  <2>1. LookUp(src, n) = v
    BY <1>1 DEF InSource
  <2>2. ASSUME v \in seen PROVE Leaves(Text, r)
    <3>1. v \in Text.seen
      BY <1>4, <2>2
    <3> QED BY <1>3, <1>4, <2>1, <3>1, KnownStays
  <2> QED BY <2>2
<1>7. v \notin seen => src[Len(src)].vars[n] = v
  BY <1>2 DEF UseFeatures, Last
<1>8. Home(Text.out[Len(Text.out)]) = Len(src) /\ Len(src) \in 1 .. Len(src)
  BY <1>2, <1>4, LastHome
<1>9. Writes(r) /\ src' = src /\ name' = name
  BY <1>1
<1> HIDE DEF r, n
<1>10. Reach(r.out, src, r.seen) /\ Named(src, name, r.seen)
  BY <1>3, <1>4, <1>5, <1>6, <1>7, <1>8, ReachVisits
<1> QED BY <1>9, <1>10, NextVisible
\* A scope of the source opens, with nothing in it.
LEMMA SourceOpens ==
  ASSUME NEW s \in Seq(SrcType), NEW e \in SrcType, e.vars = Fresh, NEW t, t = Append(s, e),
         NEW o, NEW nm, NEW x, Nowhere \notin x, Reach(o, s, x), Named(s, nm, x)
  PROVE  Reach(o, t, x) /\ Named(t, nm, x)
<1>1. Len(s) \in Nat /\ Len(t) = Len(s) + 1 /\ t[Len(s) + 1] = e
      /\ \A k \in 1 .. Len(s) : t[k] = s[k]
  BY AppendProperties, LenProperties
<1>2. \A n \in Name : e.vars[n] = Nowhere
  BY DEF Fresh
<1>3. \A k \in 1 .. Len(t) : k \in 1 .. Len(s) \/ k = Len(s) + 1
  BY <1>1
<1>4. \A k \in 1 .. Len(s) : k \in 1 .. Len(t)
  BY <1>1
<1>5. \A k \in 1 .. Len(t), n \in Name : t[k].vars[n] # Nowhere =>
        k \in 1 .. Len(s) /\ s[k].vars[n] = t[k].vars[n]
  BY <1>1, <1>2, <1>3
<1>6. Named(t, nm, x)
  BY <1>5, NamedSame
<1>7. \A k \in 1 .. Len(s), n \in Name : s[k].vars[n] # Nowhere =>
        k \in 1 .. Len(t) /\ t[k].vars[n] = s[k].vars[n]
  BY <1>1, <1>4
<1>8. \A k \in 1 .. Len(t), n \in Name : t[k].vars[n] \in x =>
        k \in 1 .. Len(s) /\ t[k].vars[n] = s[k].vars[n]
  BY <1>5
<1>9. Reach(o, t, x)
  BY <1>7, <1>8, ReachSource
<1> QED BY <1>6, <1>9

\* A brace opens after what txt has.
LEMMA VisOpens ==
  ASSUME NEW txt \in TextType, Reach(txt.out, src', txt.seen), Named(src', name', txt.seen),
         Writes(Opened(txt))
  PROVE  VisInv'
<1> DEFINE r == Opened(txt)
           d == PushDepth(txt.declared)
<1>1. r \in TextType /\ r.out = Append(txt.out, Brace(Len(d))) /\ r.declared = d /\ r.seen = txt.seen
  BY OpenedSteps
<1> HIDE DEF d
<1>2. txt.out \in Seq(OutType) /\ Len(d) \in Nat
  BY <1>1, LenProperties DEF TextType
<1>3. Brace(Len(d)) \in OutType /\ Brace(Len(d)).vars = Fresh
  BY <1>2, BraceTypes DEF Brace
<1>4. Reach(r.out, src', r.seen)
  BY <1>1, <1>2, <1>3, ReachOpens
<1>5. Writes(r) /\ Named(src', name', r.seen)
  BY <1>1
<1> HIDE DEF r
<1> QED BY <1>4, <1>5, NextVisible

LEMMA VisBlocks ==
  ASSUME Typed, MirrorInv, VisInv, OpenBlock \/ OpenDo \/ \E v \in DOMAIN name : Headed(v)
  PROVE  VisInv'
<1> SUFFICES ASSUME features' = {} PROVE VisInv'
  BY DEF VisInv
<1>1. features = {}
  BY NoFeatures DEF OpenBlock, OpenDo, Headed
<1>2. /\ Reach(out, src, seen) /\ Named(src, name, seen) /\ Text \in TextType
      /\ Text.out = out /\ Text.seen = seen /\ src \in Seq(SrcType) /\ Nowhere \notin seen
  BY <1>1, VisNow
<1>3. ASSUME NEW txt \in TextType, Leaves(Text, txt), Writes(Opened(txt)),
             NEW s \in SrcType, s.vars = Fresh, src' = Append(src, s), name' = name
      PROVE  VisInv'
  <2>1. Reach(out, src', seen) /\ Named(src', name', seen)
    BY <1>2, <1>3, SourceOpens
  <2>2. txt.out = out /\ txt.seen = seen
    BY <1>2, <1>3 DEF Leaves
  <2> QED BY <1>3, <2>1, <2>2, VisOpens
<1>4. ASSUME OpenBlock \/ OpenDo PROVE VisInv'
  <2> DEFINE s == IF OpenBlock THEN SourceScope ELSE [SourceScope EXCEPT !.do = TRUE]
  <2>1. s \in SrcType /\ s.vars = Fresh
    BY BraceTypes DEF SrcType, SourceScope
  <2>2. Writes(Opened(Text)) /\ src' = Append(src, s) /\ name' = name
    BY <1>4 DEF OpenBlock, OpenDo
  <2>3. Leaves(Text, Text)
    BY DEF Leaves
  <2> HIDE DEF s
  <2> QED BY <1>2, <1>3, <2>1, <2>2, <2>3
<1>5. ASSUME NEW v \in DOMAIN name, Headed(v) PROVE VisInv'
  <2> DEFINE txt == VisitTemporary(Text, v, name[v], "inside")
  <2>1. v \in Var /\ name[v] \in Name
    BY SourceTypes
  <2>2. /\ Meets(Deep \cup UseFeatures(v, "inside")) /\ Writes(Opened(txt)) /\ InSource(v)
        /\ src' = Append(src, SourceScope) /\ name' = name
    BY <1>5 DEF Headed
  <2>3. UseFeatures(v, "inside") = {}
    BY <2>2, NoFeatures
  <2>4. Leaves(Text, txt) /\ txt \in TextType
    BY <1>1, <1>2, <2>1, <2>2, <2>3, UseOfSeen, VisitSteps
  <2>5. SourceScope \in SrcType /\ SourceScope.vars = Fresh
    BY BraceTypes DEF SourceScope
  <2> HIDE DEF txt
  <2> QED BY <1>3, <2>2, <2>4, <2>5
<1> QED BY <1>4, <1>5

\* A loop header opens: it is at home in the scope that comes.
LEMMA VisHeader ==
  ASSUME Typed, MirrorInv, VisInv, features = {}
  PROVE  /\ InHeader \in TextType /\ InHeader.seen = seen /\ Lists(InHeader.out, InHeader.declared)
         /\ \A s : Reach(out, s, seen) => Reach(InHeader.out, s, seen)
         /\ Home(InHeader.out[Len(InHeader.out)]) = Len(src) + 1
<1> DEFINE e == Header(Len(declared))
<1>1. /\ out \in Seq(OutType) /\ declared \in Seq(SUBSET Name) /\ Lists(out, declared)
      /\ Len(declared) = Len(src) /\ Len(src) \in Nat
  BY VisNow
<1>2. e \in OutType /\ e.kind = "for" /\ e.list = Len(declared) /\ e.vars = Fresh
  BY <1>1, BraceTypes DEF Header
<1>3. InHeader.out = Append(out, e) /\ InHeader.declared = declared /\ InHeader \in TextType
      /\ InHeader.seen = seen
  BY HeaderTypes
<1> HIDE DEF e
<1>4. Lists(InHeader.out, InHeader.declared)
  BY <1>1, <1>2, <1>3, ListsOpen
<1>5. InHeader.out[Len(InHeader.out)] = e
  BY <1>1, <1>2, <1>3, AppendProperties
<1>6. Home(e) = Len(src) + 1
  BY <1>1, <1>2 DEF Home
<1>7. \A s : Reach(out, s, seen) => Reach(InHeader.out, s, seen)
  BY <1>1, <1>2, <1>3, ReachOpens
<1> QED BY <1>3, <1>4, <1>5, <1>6, <1>7

LEMMA VisOpensOver ==
  ASSUME Typed, MirrorInv, VisInv, NEW v \in DOMAIN name, OpenForOver(v) PROVE VisInv'
<1> SUFFICES ASSUME features' = {} PROVE VisInv'
  BY DEF VisInv
<1> DEFINE n == name[v]
           txt == VisitTemporary(InHeader, v, n, "statement")
<1>1. /\ Meets(Deep \cup UseFeatures(v, "header")) /\ Writes(Opened(txt)) /\ InSource(v)
      /\ src' = Append(src, SourceScope) /\ name' = name
  BY DEF OpenForOver
<1>2. features = {} /\ UseFeatures(v, "header") = {}
  BY <1>1, NoFeatures
<1>3. v \in Var /\ n \in Name
  BY SourceTypes
<1>4. v \in seen /\ LookUp(src, n) = v
  BY <1>1, <1>2 DEF UseFeatures, InSource
<1>5. /\ Reach(out, src, seen) /\ Named(src, name, seen) /\ src \in Seq(SrcType) /\ Single(src)
      /\ Nowhere \notin seen
  BY <1>2, VisNow
<1>6. InHeader \in TextType /\ InHeader.seen = seen /\ Lists(InHeader.out, InHeader.declared)
      /\ \A s : Reach(out, s, seen) => Reach(InHeader.out, s, seen)
  BY <1>2, VisHeader
<1>7. Leaves(InHeader, txt) /\ txt \in TextType
  <2>1. Reach(InHeader.out, src, InHeader.seen) /\ v \in InHeader.seen
    BY <1>4, <1>5, <1>6
  <2> QED BY <1>3, <1>4, <1>5, <1>6, <2>1, KnownStays, VisitSteps
<1>8. SourceScope \in SrcType /\ SourceScope.vars = Fresh
  BY BraceTypes DEF SourceScope
<1>9. Reach(out, src', seen) /\ Named(src', name', seen)
  BY <1>1, <1>5, <1>8, SourceOpens
<1> HIDE DEF txt
<1>10. txt.out = InHeader.out /\ txt.seen = seen
  BY <1>6, <1>7 DEF Leaves
<1>11. Reach(txt.out, src', txt.seen) /\ Named(src', name', txt.seen)
  BY <1>6, <1>9, <1>10
<1> QED BY <1>1, <1>7, <1>11, VisOpens

LEMMA VisOpensFor ==
  ASSUME Typed, MirrorInv, VisInv, NEW n \in Name, OpenFor(n) PROVE VisInv'
<1> SUFFICES ASSUME features' = {} PROVE VisInv'
  BY DEF VisInv
<1> DEFINE v == Len(name) + 1
           txt == VisitTemporary(InHeader, v, n, "statement")
           l == Len(src)
<1>1. /\ Meets(Deep \cup NameFeatures(n)) /\ Writes(Opened(txt)) /\ name' = Append(name, n)
      /\ src' = BindTop(Append(ForsAfter(n), SourceScope), n, v) /\ l <= MaxOpen
      /\ pointer' = PushedPointer(pointer) /\ v <= MaxVars
  BY DEF OpenFor, ForsAfter
<1>2. features = {} /\ NameFeatures(n) = {}
  BY <1>1, NoFeatures
<1>3. v \in Var /\ Len(name) \in Nat
  <2>1. Len(name) \in Nat
    BY SourceTypes, LenProperties
  <2> QED BY <1>1, <2>1, ScopesAssumption DEF Var
<1>4. /\ Reach(out, src, seen) /\ Named(src, name, seen) /\ src \in Seq(SrcType) /\ Single(src)
      /\ Nowhere \notin seen /\ name \in Seq(Name) /\ l \in Nat
  BY <1>2, VisNow
<1>5. InHeader \in TextType /\ InHeader.seen = seen /\ Lists(InHeader.out, InHeader.declared)
      /\ (\A s : Reach(out, s, seen) => Reach(InHeader.out, s, seen))
      /\ Home(InHeader.out[Len(InHeader.out)]) = l + 1
  BY <1>2, VisHeader
<1>6. \A k \in 1 .. l : src[k].vars[n] = Nowhere
  BY <1>2, <1>4, NameIsFree
<1>7. /\ Len(src') = l + 1
      /\ \A k \in 1 .. l : src'[k].vars = src[k].vars
      /\ \A m \in Name : src'[l + 1].vars[m] = IF m = n THEN v ELSE Nowhere
  BY <1>1, <1>3, ForOpens
<1>8. v \notin seen
  BY <1>3, <1>4 DEF Named
<1>9. txt \in TextType /\ (Leaves(InHeader, txt) \/ Declares(InHeader, txt, v, n))
  BY <1>3, <1>5, VisitSteps
<1>10. \A k \in 1 .. Len(src') : k \in 1 .. l \/ k = l + 1
  BY <1>4, <1>7
<1>11. \A k \in 1 .. l : k \in 1 .. Len(src')
  BY <1>4, <1>7
<1> HIDE DEF txt
<1>12. Named(src', name', seen)
  <2>1. BindsMore(src, src', l + 1, n, Len(name) + 1)
    BY <1>7, <1>10 DEF BindsMore
  <2>2. Named(src', Append(name, n), seen)
    BY <1>4, <1>6, <2>1, NamedDeclares
  <2> QED BY <1>1, <2>2
<1> HIDE DEF v
<1>13. Reach(out, src', seen)
  <2>1. \A k \in 1 .. l, m \in Name : src[k].vars[m] # Nowhere =>
          k \in 1 .. Len(src') /\ src'[k].vars[m] = src[k].vars[m]
    BY <1>7, <1>11
  <2>2. \A k \in 1 .. Len(src'), m \in Name : src'[k].vars[m] \in seen =>
          k \in 1 .. l /\ src'[k].vars[m] = src[k].vars[m]
    BY <1>4, <1>7, <1>8, <1>10
  <2> QED BY <1>4, <2>1, <2>2, ReachSource
<1>14. Reach(InHeader.out, src', InHeader.seen) /\ Named(src', name', InHeader.seen)
  BY <1>5, <1>12, <1>13
<1>15. Home(InHeader.out[Len(InHeader.out)]) \in 1 .. Len(src')
       /\ src'[Home(InHeader.out[Len(InHeader.out)])].vars[n] = v
  BY <1>4, <1>5, <1>7
<1>16. Reach(txt.out, src', txt.seen) /\ Named(src', name', txt.seen)
  BY <1>3, <1>5, <1>9, <1>14, <1>15, ReachVisits
<1> QED BY <1>1, <1>9, <1>16, VisOpens DEF txt
\* Every scope of the text is at home in an open scope of the source.
LEMMA HomesInside ==
  ASSUME NEW o \in Seq(OutType), NEW d \in Seq(SUBSET Name), NEW s, Mirrors(o, d, s)
  PROVE  \A i \in 1 .. Len(o) : Home(o[i]) \in 1 .. Len(s)
<1>1. /\ Lists(o, d) /\ Heads(o, s) /\ o[Len(o)].kind = "brace" /\ Len(d) = Len(s)
      /\ Len(o) \in Nat \ {0} /\ Len(d) \in Nat \ {0}
      /\ \A i \in 1 .. Len(o) : o[i] \in OutType /\ o[i].list \in 1 .. Len(d)
  BY ListsRange DEF Mirrors
<1> SUFFICES ASSUME NEW i \in 1 .. Len(o) PROVE Home(o[i]) \in 1 .. Len(s)
  OBVIOUS
<1>2. CASE o[i].kind = "brace"
  BY <1>1, <1>2 DEF Home
<1>3. CASE o[i].kind = "for"
  <2>1. i # Len(o)
    BY <1>1, <1>3
  <2>2. i < Len(o) /\ i + 1 \in 1 .. Len(o) /\ i + 1 # 1 /\ i + 1 - 1 = i
    BY <1>1, <2>1
  <2>3. o[i + 1].kind = "brace"
    BY <1>1, <1>3, <2>2 DEF Heads
  <2>4. o[i + 1].list = o[i].list + 1
    BY <1>1, <2>2, <2>3 DEF Lists
  <2>5. Home(o[i]) = o[i + 1].list
    BY <1>3, <2>4 DEF Home
  <2> QED BY <1>1, <2>2, <2>5
<1>4. o[i].kind \in {"brace", "for"}
  BY <1>1 DEF OutType
<1> QED BY <1>2, <1>3, <1>4

\* What a closing brace leaves of the text and of the source.
LEMMA VisCloses ==
  ASSUME Typed, MirrorInv, VisInv, features = {}, Len(src) > 1, NEW b, NEW d, NEW s,
         s = Front(src), b \in Seq(OutType), d \in Seq(SUBSET Name), Mirrors(b, d, s),
         Len(b) <= Len(out), \A i \in 1 .. Len(b) : b[i] = out[i],
         \A i \in 1 .. Len(out) : i > Len(b) => Home(out[i]) = Len(src)
  PROVE  Reach(b, s, seen) /\ Named(s, name, seen)
<1>1. /\ Reach(out, src, seen) /\ Named(src, name, seen) /\ src \in Seq(SrcType) /\ Single(src)
      /\ Nowhere \notin seen /\ Len(src) \in Nat \ {0} /\ Len(out) \in Nat \ {0}
  BY VisNow
<1>2. src # <<>>
  BY <1>1, EmptySeq
<1>3. s \in Seq(SrcType) /\ Len(s) = Len(src) - 1 /\ \A k \in 1 .. Len(src) - 1 : s[k] = src[k]
  BY <1>1, <1>2, FrontOf
<1>4. Len(s) \in Nat /\ Len(src) = Len(s) + 1 /\ \A k \in 1 .. Len(s) : s[k] = src[k]
  <2>1. \A k \in Nat \ {0} : k - 1 \in Nat /\ k = k - 1 + 1
    OBVIOUS
  <2> QED BY <1>1, <1>3, <2>1
<1>5. \A i \in 1 .. Len(b) : Home(b[i]) \in 1 .. Len(s)
  BY HomesInside
<1>6. Len(b) \in Nat
  BY LenProperties
<1>7. Reach(b, s, seen)
  BY <1>1, <1>4, <1>5, <1>6, ReachCloses
<1>8. \A k \in 1 .. Len(s) : k \in 1 .. Len(src)
  BY <1>4
<1>9. Named(s, name, seen)
  BY <1>1, <1>4, <1>8, NamedSame
<1> QED BY <1>7, <1>9

LEMMA VisCloseStep ==
  ASSUME Typed, MirrorInv, VisInv, Close, MirrorInv' PROVE VisInv'
<1> SUFFICES ASSUME features' = {} PROVE VisInv'
  BY DEF VisInv
<1>1. /\ Len(src) > 1 /\ src' = Front(src) /\ Writes(Closed) /\ features' = features /\ name' = name
  BY CloseSteps
<1>2. features = {} /\ "deep" \notin features /\ "deep" \notin features'
  BY <1>1
<1> DEFINE o == Front(out)
           b == AfterBrace(out)
           d == PopDepth(declared)
           s == Front(src)
<1>3. /\ Lists(o, d) /\ Heads(o, s) /\ Len(d) = Len(s) /\ Len(out) > 1
      /\ o \in Seq(OutType) /\ d \in Seq(SUBSET Name)
      /\ Len(o) = Len(out) - 1 /\ \A i \in 1 .. Len(out) - 1 : o[i] = out[i]
  BY <1>1, <1>2, MirrorCloses
<1>4. Closed \in TextType /\ Closed.out = b /\ Closed.declared = d /\ Closed.seen = seen
  BY ClosedTypes
<1>5. b = IF o # <<>> /\ o[Len(o)].kind = "for" THEN Front(o) ELSE o
  BY DEF AfterBrace, Last
<1>6. Len(out) \in Nat \ {0} /\ Home(out[Len(out)]) = Len(src) /\ Len(src) \in Nat \ {0}
  BY <1>2, VisNow, LastHome
<1>7. Len(s) = Len(src) - 1
  <2>1. src \in Seq(SrcType) /\ src # <<>>
    BY SourceTypes, EmptySeq
  <2> QED BY <2>1, FrontOf
<1>8. Mirrors(b, d, s)
  <2>1. Mirrors(out', declared', src')
    BY <1>2 DEF MirrorInv
  <2>2. out' = b /\ declared' = d
    BY <1>1, <1>4 DEF Writes
  <2> QED BY <1>1, <2>1, <2>2
<1>9. b \in Seq(OutType)
  BY <1>4 DEF TextType
<1> HIDE DEF o, b, d
<1>10. /\ Len(b) <= Len(out) /\ \A i \in 1 .. Len(b) : b[i] = out[i]
       /\ \A i \in 1 .. Len(out) : i > Len(b) => Home(out[i]) = Len(src)
  <2>1. CASE o # <<>> /\ o[Len(o)].kind = "for"
    <3>1. Len(o) \in Nat \ {0} /\ o[Len(o)].list = Len(d)
      BY <1>3, <2>1, EmptySeq DEF Lists
    <3>2. Len(b) = Len(o) - 1 /\ \A i \in 1 .. Len(o) - 1 : b[i] = o[i]
      BY <1>3, <1>5, <2>1, FrontOf
    <3>3. Home(o[Len(o)]) = Len(s) + 1
      BY <1>3, <2>1, <3>1 DEF Home
    <3>4. Home(o[Len(o)]) = Len(src)
      <4>1. \A k \in Nat \ {0} : k - 1 + 1 = k
        OBVIOUS
      <4> QED BY <1>6, <1>7, <3>3, <4>1
    <3>5. Len(o) \in 1 .. Len(out) - 1
      BY <1>3, <3>1
    <3>6. \A k \in Nat, i \in Nat : i <= k /\ i > k - 1 - 1 => i = k \/ i = k - 1
      OBVIOUS
    <3>7. ASSUME NEW i \in 1 .. Len(out), i > Len(b) PROVE Home(out[i]) = Len(src)
      <4>1. i = Len(out) \/ i = Len(o)
        BY <1>3, <1>6, <3>2, <3>6, <3>7
      <4> QED BY <1>3, <1>6, <3>4, <3>5, <4>1
    <3>8. \A k \in Nat \ {0} : k - 1 - 1 <= k /\ \A i \in 1 .. k - 1 - 1 : i \in 1 .. k - 1
      OBVIOUS
    <3> QED BY <1>3, <1>6, <3>2, <3>7, <3>8
  <2>2. CASE ~(o # <<>> /\ o[Len(o)].kind = "for")
    <3>1. b = o
      BY <1>5, <2>2
    <3>2. \A k \in Nat \ {0} : k - 1 <= k /\ \A i \in 1 .. k : i > k - 1 => i = k
      OBVIOUS
    <3> QED BY <1>3, <1>6, <3>1, <3>2
  <2> QED BY <2>1, <2>2
<1>11. Reach(b, s, seen) /\ Named(s, name, seen)
  BY <1>1, <1>2, <1>3, <1>8, <1>9, <1>10, VisCloses
<1> QED BY <1>1, <1>4, <1>11, NextVisible

LEMMA VisCloseDo ==
  ASSUME Typed, MirrorInv, VisInv, NEW v \in DOMAIN name, CloseDo(v) PROVE VisInv'
<1> SUFFICES ASSUME features' = {} PROVE VisInv'
  BY DEF VisInv
<1> DEFINE in  == InBraces(Text)
           txt == VisitTemporary(in, v, name[v], "inside")
           f   == IF v \in seen THEN {} ELSE {"late"}
           s   == Front(src)
<1>1. src' = s /\ Writes(txt) /\ Meets(f) /\ name' = name /\ LookUp(s, name[v]) = v
  BY DEF CloseDo
<1>2. features = {} /\ "deep" \notin features /\ v \in seen /\ v \in Var /\ name[v] \in Name
  BY <1>1, NoFeatures, SourceTypes
<1>3. /\ in \in TextType /\ in.out = Front(out) /\ in.seen = seen /\ Mirrors(in.out, in.declared, s)
      /\ Len(src) > 1 /\ Len(Front(out)) = Len(out) - 1
      /\ \A i \in 1 .. Len(out) - 1 : Front(out)[i] = out[i]
  BY <1>2, DoCloses
<1> HIDE DEF in
<1>4. Len(out) \in Nat \ {0} /\ Home(out[Len(out)]) = Len(src) /\ src \in Seq(SrcType)
  BY <1>2, VisNow, LastHome
<1>5. in.out \in Seq(OutType) /\ in.declared \in Seq(SUBSET Name)
  BY <1>3 DEF TextType
<1>6. /\ Len(in.out) <= Len(out) /\ \A i \in 1 .. Len(in.out) : in.out[i] = out[i]
      /\ \A i \in 1 .. Len(out) : i > Len(in.out) => Home(out[i]) = Len(src)
  <2>1. \A k \in Nat \ {0} : k - 1 <= k /\ \A i \in 1 .. k : i > k - 1 => i = k
    OBVIOUS
  <2> QED BY <1>3, <1>4, <2>1
<1>7. Reach(in.out, s, seen) /\ Named(s, name, seen)
  BY <1>2, <1>3, <1>5, <1>6, VisCloses
<1>8. Leaves(in, txt)
  <2>1. s \in Seq(SrcType)
    BY <1>4, FrontOf
  <2>2. Lists(in.out, in.declared) /\ Single(s) /\ Reach(in.out, s, in.seen) /\ v \in in.seen
    BY <1>2, <1>3, <1>7 DEF Mirrors, Named
  <2> HIDE DEF s
  <2> QED BY <1>1, <1>2, <1>3, <2>1, <2>2, KnownStays
<1> HIDE DEF txt
<1>9. Reach(txt.out, s, txt.seen) /\ Named(s, name, txt.seen)
  BY <1>3, <1>7, <1>8 DEF Leaves
<1> QED BY <1>1, <1>9, NextVisible

LEMMA VisStep ==
  ASSUME Typed, MirrorInv, VisInv, MirrorInv', [Next]_vars PROVE VisInv'
<1>1. CASE UNCHANGED vars
  BY <1>1 DEF vars, VisInv
<1>2. ASSUME NEW n \in Name, Declare(n) \/ DeclareInit(n) \/ OpenFor(n) PROVE VisInv'
  BY <1>2, VisDeclares, VisOpensFor
<1>3. ASSUME NEW m \in Name, NEW n \in Name, DeclareTwo(m, n) PROVE VisInv'
  <2> DEFINE f == Deep \cup NameFeatures(m) \cup NameFeatures(n) \cup {"multi"}
  <2>2. Meets(f) /\ "multi" \in f
    BY <1>3 DEF DeclareTwo
  <2> HIDE DEF f
  <2>1. "multi" \in features'
    BY <2>2, FeaturesGrow
  <2> QED BY <2>1 DEF VisInv
<1>7. ASSUME NEW n \in Name, DeclareConst(n) PROVE VisInv'
  <2> DEFINE f == NameFeatures(n) \cup {"const"}
  <2>2. Meets(f) /\ "const" \in f
    BY <1>7 DEF DeclareConst
  <2> HIDE DEF f
  <2>1. "const" \in features'
    BY <2>2, FeaturesGrow
  <2> QED BY <2>1 DEF VisInv
<1>4. ASSUME NEW v \in DOMAIN name, Assign(v) \/ Use(v) PROVE VisInv'
  BY <1>4, VisUses
<1>5. ASSUME NEW v \in DOMAIN name,
             OpenForOver(v) \/ OpenIf(v) \/ OpenWhile(v) \/ OpenSwitch(v) \/ CloseDo(v)
      PROVE  VisInv'
  BY <1>5, VisOpensOver, VisBlocks, VisCloseDo DEF OpenIf, OpenWhile, OpenSwitch
<1>6. CASE OpenBlock \/ OpenDo \/ Close
  BY <1>6, VisBlocks, VisCloseStep
<1> QED BY <1>1, <1>2, <1>3, <1>4, <1>5, <1>6, <1>7 DEF Next

LEMMA VisInit == ASSUME Init PROVE VisInv
<1>1. out = <<Brace(1)>> /\ src = <<SourceScope>> /\ seen = {} /\ name = <<>>
  BY DEF Init
<1>2. Len(out) = 1 /\ out[1] = Brace(1) /\ Len(src) = 1 /\ src[1] = SourceScope
  BY <1>1
<1>3. \A n \in Name : Brace(1).vars[n] = Nowhere /\ SourceScope.vars[n] = Nowhere
  BY DEF Brace, SourceScope, Fresh
<1>4. \A i \in 1 .. 1 : i = 1
  OBVIOUS
<1>5. \A i \in 1 .. Len(out), n \in Name : out[i].vars[n] = Nowhere
  BY <1>2, <1>3, <1>4
<1>6. \A k \in 1 .. Len(src), n \in Name : src[k].vars[n] = Nowhere
  BY <1>2, <1>3, <1>4
<1>7. Reach(out, src, seen)
  BY <1>1, <1>5 DEF Reach, Single
<1>8. Named(src, name, seen)
  BY <1>1, <1>6 DEF Named, Single
<1> QED BY <1>7, <1>8 DEF VisInv

\* For a source without shadowing, without a loop's variable named again, without
\* declarations of several, whose locals' first use is in place and whose nesting is
\* below the limit, a variable in scope whose type the text has is the one its name
\* reaches in the text: visitSymbol never hides one behind a brace that closed.
THEOREM StaysVisible == Spec => []VisibleWhileInScope
<1>1. Typed /\ MirrorInv /\ (Typed /\ MirrorInv)' /\ VisInv /\ [Next]_vars => VisInv'
  BY VisStep
<1>2. Spec => [](Typed /\ MirrorInv /\ VisInv)
  BY <1>1, VisInit, MirrorHolds, PTL DEF Spec
<1>3. Typed /\ MirrorInv /\ VisInv => VisibleWhileInScope
  <2> SUFFICES ASSUME Typed, MirrorInv, VisInv, features = {}, NEW v \in seen, InSource(v)
               PROVE  LookUp(out, name[v]) = v
    BY DEF VisibleWhileInScope
  <2>1. /\ Reach(out, src, seen) /\ Named(src, name, seen) /\ src \in Seq(SrcType)
        /\ out \in Seq(OutType) /\ Nowhere \notin seen /\ name \in Seq(Name)
    BY VisNow
  <2>2. v \in DOMAIN name
    BY <2>1, LenProperties DEF Named
  <2>3. name[v] \in Name /\ LookUp(src, name[v]) = v /\ v # Nowhere
    BY <2>1, <2>2, SourceTypes DEF InSource
  <2> DEFINE n == name[v]
  <2>4. PICK k \in 1 .. Len(src) : src[k].vars[n] = v
    BY <2>1, <2>3, OneBinding, LenProperties DEF Named
  <2>5. n \in Name
    BY <2>3
  <2> HIDE DEF n
  <2>6. PICK i \in 1 .. Len(out) : out[i].vars[n] = v
    BY <2>1, <2>4, <2>5 DEF Reach
  <2>7. LookUp(out, n) = v
    BY <2>1, <2>3, <2>5, <2>6, OneBinding, LenProperties DEF Reach
  <2> QED BY <2>7 DEF n
<1> QED BY <1>2, <1>3, PTL
=============================================================================
