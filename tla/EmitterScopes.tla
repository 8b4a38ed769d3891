--------------------------- MODULE EmitterScopes ---------------------------
(***************************************************************************)
(* Where the emitter puts the declarations of a function's local           *)
(* variables.                                                              *)
(*                                                                         *)
(* The tree glslang hands over has no declarations: only an initialiser is *)
(* left of one.  The emitter writes a local's type where it first meets    *)
(* its name (visitSymbol), and decides "first" by a stack of name lists    *)
(* (declaredVars) that it pushes and pops with the braces it writes.  The  *)
(* state has the scopes of the source function being read (src), those of  *)
(* the GLSL text being written (out), and the emitter's own stack; one     *)
(* action reads one statement, or one end of a compound statement, and     *)
(* writes it.                                                              *)
(*                                                                         *)
(* A variable is the number of its declaration in the source; the type it  *)
(* is declared with is the only content the properties need.               *)
(***************************************************************************)
EXTENDS Integers, FiniteSets, Sequences, SequencesExt

CONSTANTS
  Name,       \* names of local variables
  Features,   \* source features to allow, of those in Feature
  MaxDepth,   \* MAX_TRAVERSE_DEPTH
  MaxVars,    \* bound: declarations read
  MaxOpen,    \* bound: compound statements open at once
  MaxStmts    \* bound: statements read

Feature == {"shadow", "forReuse", "late", "multi", "const", "deep"}
Error   == {"undeclared", "captured", "split", "misplaced", "overflow"}

ASSUME ScopesAssumption ==
  /\ Features \subseteq Feature
  /\ MaxDepth \in Nat \ {0, 1}
  /\ MaxVars \in Nat /\ MaxOpen \in Nat /\ MaxStmts \in Nat

Var     == 1..MaxVars
Nowhere == 0
Scope   == [Name -> Var \cup {Nowhere}]
Fresh   == [n \in Name |-> Nowhere]

VARIABLES
  name,       \* names of the variables declared so far: variable v is name[v]
  src,        \* open source scopes, innermost last: the variables of each, the names
              \* for-loops in it have used, whether it is the body of a do-while
  out,        \* open scopes of the text, innermost last, with the list of declaredVars
              \* that was last when each opened; "for" is a loop header's scope
  declared,   \* declaredVars
  pointer,    \* traverseDepthsPointer
  seen,       \* variables whose type has been written
  errors,     \* what is wrong with the text written so far
  features,   \* history: the features met in the source
  stmts       \* statements read

vars == <<name, src, out, declared, pointer, seen, errors, features, stmts>>

TypeOK ==
  /\ name \in Seq(Name) /\ Len(name) <= MaxVars
  /\ src \in Seq([vars : Scope, fors : SUBSET Name, do : BOOLEAN])
  /\ out \in Seq([kind : {"brace", "for"}, list : Nat, vars : Scope])
  /\ declared \in Seq(SUBSET Name)
  /\ pointer \in 1..MaxOpen + 1
  /\ seen \in SUBSET Var
  /\ errors \in SUBSET Error
  /\ features \in SUBSET Features
  /\ stmts \in 0..MaxStmts

SourceScope == [vars |-> Fresh, fors |-> {}, do |-> FALSE]
Brace(k)    == [kind |-> "brace", list |-> k, vars |-> Fresh]
Header(k)   == [kind |-> "for", list |-> k, vars |-> Fresh]

\* A function's opening brace has just been written.
Init ==
  /\ name = <<>>
  /\ src = <<SourceScope>>
  /\ out = <<Brace(1)>>
  /\ declared = <<{}>>
  /\ pointer = 1
  /\ seen = {} /\ errors = {} /\ features = {} /\ stmts = 0

-----------------------------------------------------------------------------
(* Name lookup, in the source and in the text: innermost scope first.      *)

BindingDepth(stack, n) ==
  LET D == {d \in DOMAIN stack : stack[d].vars[n] # Nowhere}
  IN IF D = {} THEN 0 ELSE CHOOSE d \in D : \A e \in D : e <= d

LookUp(stack, n) ==
  LET d == BindingDepth(stack, n) IN IF d = 0 THEN Nowhere ELSE stack[d].vars[n]

BindTop(stack, n, v) == [stack EXCEPT ![Len(stack)].vars[n] = v]

InSource(v) == LookUp(src, name[v]) = v

-----------------------------------------------------------------------------
(* The emitter's stack, as parts of a step.                                *)

\* Mutant: isVarDeclared looks only at the innermost list.
MutantInnermostOnly(d, n) == d # <<>> /\ n \in Last(d)

IsVarDeclared(d, n) == \E k \in DOMAIN d : n \in d[k]

\* The emitter's state as one value, for steps that meet several symbols.
Text == [out |-> out, declared |-> declared, seen |-> seen, errors |-> errors]

DeclareVar(d, nm) == [d EXCEPT ![Len(d)] = @ \cup {nm}]

\* visitSymbol on a local with nm's name, at the head of a statement (or of a loop
\* header) or inside an expression, where a type is not GLSL.  Only what glslang
\* calls a temporary is ever declared, in the last list: there must be one.
VisitSymbol(txt, v, nm, storage, place) ==
  LET declare == storage = "EvqTemporary" /\ ~IsVarDeclared(txt.declared, nm)
      b       == LookUp(txt.out, nm)
  IN
  IF ~declare
  THEN [txt EXCEPT !.errors = @ \cup (IF b = Nowhere THEN {"undeclared"}
                                      ELSE IF b # v THEN {"captured"} ELSE {})]
  ELSE IF txt.declared = <<>>
  THEN [txt EXCEPT !.errors = @ \cup {"overflow"}]
  ELSE [out      |-> BindTop(txt.out, nm, v),
        declared |-> DeclareVar(txt.declared, nm),
        seen     |-> txt.seen \cup {v},
        errors   |-> txt.errors \cup (IF v \in txt.seen THEN {"split"} ELSE {})
                                \cup (IF place = "inside" THEN {"misplaced"} ELSE {})]

VisitTemporary(txt, v, nm, place) == VisitSymbol(txt, v, nm, "EvqTemporary", place)

\* Mutant: at the limit pushDepth returns before it moves the pointer.
MutantPointerStays(p) == IF p + 1 >= MaxDepth THEN p ELSE p + 1

PushedPointer(p) == p + 1

\* pushDepth: the pointer moves in any case, the list only below the limit.
PushDepth(d) == IF pointer + 1 >= MaxDepth THEN d ELSE Append(d, {})

\* Mutant: the list is not popped.
MutantNoPop(d) == d

\* popDepth; on an empty stack it reads before the vector, which is undefined.
PopDepth(d) == IF d = <<>> THEN <<>> ELSE Front(d)
Underflow(d) == IF d = <<>> THEN {"overflow"} ELSE {}

\* Braces around what is written, with pushDepth and popDepth
Opened(txt) ==
  LET d == PushDepth(txt.declared)
  IN [txt EXCEPT !.out = Append(@, Brace(Len(d))), !.declared = d]

InBraces(txt) ==
  [txt EXCEPT !.out = Front(@), !.declared = PopDepth(@),
              !.errors = @ \cup Underflow(txt.declared)]

\* Mutant: a sequence of one assignment is written as a block.
MutantBlock(txt, v, nm) == InBraces(VisitTemporary(Opened(txt), v, nm, "statement"))

\* What is written of a sequence that isSingleAssignmentSequence
SingleAssignment(txt, v, nm) == VisitTemporary(txt, v, nm, "statement")

Writes(txt) ==
  /\ out' = txt.out /\ declared' = txt.declared
  /\ seen' = txt.seen /\ errors' = txt.errors

-----------------------------------------------------------------------------
(* The features of the source that decide whether the text is right.       *)

\* Another variable of that name is in scope, or was a for-loop's in a scope
\* that is still open.
NameFeatures(n) ==
  (IF LookUp(src, n) # Nowhere THEN {"shadow"} ELSE {}) \cup
  (IF \E d \in DOMAIN src : n \in src[d].fors THEN {"forReuse"} ELSE {})

\* The first use of a variable declared without initialiser is something else
\* than an assignment statement in the scope that declares it.
UseFeatures(v, place) ==
  IF v \notin seen /\ (place # "statement" \/ Last(src).vars[name[v]] # v)
  THEN {"late"} ELSE {}

\* The next pushDepth is at the limit.
Deep == IF pointer + 1 >= MaxDepth THEN {"deep"} ELSE {}

Meets(f) == f \subseteq Features /\ features' = features \cup f

Reads == errors = {} /\ stmts < MaxStmts /\ stmts' = stmts + 1

-----------------------------------------------------------------------------
(* Simple statements.                                                      *)

\* int n;
Declare(n) ==
  /\ Reads /\ Len(name) < MaxVars /\ Last(src).vars[n] = Nowhere
  /\ Meets(NameFeatures(n))
  /\ name' = Append(name, n)
  /\ src' = BindTop(src, n, Len(name) + 1)
  /\ UNCHANGED <<out, declared, pointer, seen, errors>>

\* int n = ...; a sequence of one assignment, written as a statement
DeclareInit(n) ==
  /\ Reads /\ Len(name) < MaxVars /\ Last(src).vars[n] = Nowhere
  /\ Meets(NameFeatures(n))
  /\ name' = Append(name, n)
  /\ src' = BindTop(src, n, Len(name) + 1)
  /\ Writes(SingleAssignment(Text, Len(name) + 1, n))
  /\ UNCHANGED pointer

\* const int n = ...; that is not a constant expression, which glslang does not keep as
\* a temporary: its type is never written.  One in a loop header, or of several, is
\* the same; the text is wrong from here on.
DeclareConst(n) ==
  /\ Reads /\ Len(name) < MaxVars /\ Last(src).vars[n] = Nowhere
  /\ Meets(NameFeatures(n) \cup {"const"})
  /\ name' = Append(name, n)
  /\ src' = BindTop(src, n, Len(name) + 1)
  /\ Writes(VisitSymbol(Text, Len(name) + 1, n, "EvqConstReadOnly", "statement"))
  /\ UNCHANGED pointer

\* int m = ..., n = ...; a sequence of two assignments, written as a block
DeclareTwo(m, n) ==
  LET v   == Len(name) + 1
      two == VisitTemporary(VisitTemporary(Opened(Text), v, m, "statement"), v + 1, n, "statement")
  IN
  /\ Reads /\ v < MaxVars /\ m # n
  /\ Last(src).vars[m] = Nowhere /\ Last(src).vars[n] = Nowhere
  /\ Meets(Deep \cup NameFeatures(m) \cup NameFeatures(n) \cup {"multi"})
  /\ name' = name \o <<m, n>>
  /\ src' = BindTop(BindTop(src, m, v), n, v + 1)
  /\ Writes(InBraces(two))
  /\ UNCHANGED pointer

\* v = ...; also alone between braces, which are not written
Assign(v) ==
  /\ Reads /\ InSource(v)
  /\ Meets(UseFeatures(v, "statement"))
  /\ Writes(VisitTemporary(Text, v, name[v], "statement"))
  /\ UNCHANGED <<name, src, pointer>>

\* A statement with v inside an expression
Use(v) ==
  /\ Reads /\ InSource(v)
  /\ Meets(UseFeatures(v, "inside"))
  /\ Writes(VisitTemporary(Text, v, name[v], "inside"))
  /\ UNCHANGED <<name, src, pointer>>

-----------------------------------------------------------------------------
(* Compound statements.                                                    *)

\* { ... } of more than an assignment
OpenBlock ==
  /\ Reads /\ Len(src) <= MaxOpen
  /\ Meets(Deep)
  /\ src' = Append(src, SourceScope)
  /\ Writes(Opened(Text))
  /\ pointer' = PushedPointer(pointer)
  /\ UNCHANGED name

\* A head with v in its expression, then the brace
Headed(v) ==
  /\ Reads /\ Len(src) <= MaxOpen /\ InSource(v)
  /\ Meets(Deep \cup UseFeatures(v, "inside"))
  /\ src' = Append(src, SourceScope)
  /\ Writes(Opened(VisitTemporary(Text, v, name[v], "inside")))
  /\ pointer' = PushedPointer(pointer)
  /\ UNCHANGED name

OpenIf(v)     == Headed(v)
OpenWhile(v)  == Headed(v)
OpenSwitch(v) == Headed(v)

\* do {
OpenDo ==
  /\ Reads /\ Len(src) <= MaxOpen
  /\ Meets(Deep)
  /\ src' = Append(src, [SourceScope EXCEPT !.do = TRUE])
  /\ Writes(Opened(Text))
  /\ pointer' = PushedPointer(pointer)
  /\ UNCHANGED name

\* The loop header is written before pushDepth: in the text it opens a scope,
\* in declaredVars it does not.
InHeader == [Text EXCEPT !.out = Append(@, Header(Len(declared)))]

\* for (int n = ...; ...; ...) {
OpenFor(n) ==
  LET v == Len(name) + 1 IN
  /\ Reads /\ Len(src) <= MaxOpen /\ v <= MaxVars
  /\ Meets(Deep \cup NameFeatures(n))
  /\ name' = Append(name, n)
  /\ src' = BindTop(Append([src EXCEPT ![Len(src)].fors = @ \cup {n}], SourceScope), n, v)
  /\ Writes(Opened(VisitTemporary(InHeader, v, n, "statement")))
  /\ pointer' = PushedPointer(pointer)

\* for (v = ...; ...; ...) {
OpenForOver(v) ==
  /\ Reads /\ Len(src) <= MaxOpen /\ InSource(v)
  /\ Meets(Deep \cup UseFeatures(v, "header"))
  /\ src' = Append(src, SourceScope)
  /\ Writes(Opened(VisitTemporary(InHeader, v, name[v], "statement")))
  /\ pointer' = PushedPointer(pointer)
  /\ UNCHANGED name

\* }, and with it a loop header's scope
AfterBrace(o) ==
  LET rest == Front(o)
  IN IF rest # <<>> /\ Last(rest).kind = "for" THEN Front(rest) ELSE rest

Close ==
  /\ errors = {} /\ Len(src) > 1 /\ ~Last(src).do
  /\ src' = Front(src)
  /\ out' = AfterBrace(out)
  /\ IF pointer = 0 THEN UNCHANGED <<declared, pointer, errors>>
     ELSE /\ declared' = PopDepth(declared) /\ pointer' = pointer - 1
          /\ errors' = errors \cup Underflow(declared)
  /\ UNCHANGED <<name, seen, features, stmts>>

\* } while (... v ...); with the test written after popDepth
CloseDo(v) ==
  /\ errors = {} /\ Last(src).do
  /\ LookUp(Front(src), name[v]) = v
  /\ Meets(IF v \in seen THEN {} ELSE {"late"})
  /\ src' = Front(src)
  /\ Writes(VisitTemporary(InBraces(Text), v, name[v], "inside"))
  /\ pointer' = IF pointer = 0 THEN 0 ELSE pointer - 1
  /\ UNCHANGED <<name, stmts>>

-----------------------------------------------------------------------------
Next ==
  \/ \E n \in Name : Declare(n) \/ DeclareInit(n) \/ DeclareConst(n) \/ OpenFor(n)
  \/ \E m, n \in Name : DeclareTwo(m, n)
  \/ \E v \in DOMAIN name : Assign(v) \/ Use(v) \/ OpenForOver(v)
       \/ OpenIf(v) \/ OpenWhile(v) \/ OpenSwitch(v) \/ CloseDo(v)
  \/ OpenBlock \/ OpenDo \/ Close

Spec == Init /\ [][Next]_vars
-----------------------------------------------------------------------------
(* Properties.                                                             *)

\* The text is wrong only for a source that has one of these features: a use of a
\* local that its text does not declare needs a name with two variables, or a
\* first use out of place, or a const; a use that reaches another variable's
\* declaration needs shadowing or a const; a variable whose type is written twice,
\* or inside an expression, needs a late first use, a declaration of several or too
\* deep a nesting; and only nesting to MAX_TRAVERSE_DEPTH runs the emitter out of
\* lists.
Explanations(e) ==
  CASE e = "undeclared" -> {"forReuse", "late", "shadow", "const"}
    [] e = "captured"   -> {"shadow", "const"}
    [] e = "split"      -> {"late", "multi", "deep"}
    [] e = "misplaced"  -> {"late", "multi", "deep"}
    [] e = "overflow"   -> {"deep"}

ErrorsExplained == \A e \in errors : Explanations(e) \cap features # {}

\* For a source without these features, a variable that is in scope in the source
\* and whose type has been written is the one its name reaches in the text.
VisibleWhileInScope ==
  features = {} => \A v \in seen : InSource(v) => LookUp(out, name[v]) = v

\* Below the depth limit declaredVars has one list per open brace of the text, and
\* a name that an open scope of the text declares is in the list of the innermost
\* brace around the declaration, a loop header counting as outside its body.
ScopesMirror ==
  "deep" \notin features =>
    /\ pointer = Len(declared) /\ Last(out).list = Len(declared)
    /\ \A d \in DOMAIN out :
         /\ out[d].list = IF d = 1 THEN 1
                          ELSE out[d - 1].list + (IF out[d].kind = "brace" THEN 1 ELSE 0)
         /\ \A n \in Name : out[d].vars[n] # Nowhere => n \in declared[out[d].list]

\* "If a sequence is SAS, we know that it actually is a declaration statement; if
\* it isn't, then it is a true sequence": no declaration is written as a block,
\* so that after a declaration its variables are visible in the text.
SequencesAreBlocks ==
  \A v \in seen : InSource(v) => LookUp(out, name[v]) = v
=============================================================================
