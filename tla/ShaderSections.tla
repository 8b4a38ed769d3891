---------------------------- MODULE ShaderSections --------------------------
(***************************************************************************)
(* The order in which EmitterTraverser::process writes a shader: after the  *)
(* structures the symbols glslang lists for the linker, the client's uniform *)
(* blocks, then the tree, which has only the functions and the sequences of *)
(* initialisers in it.  The source puts its declarations in an order of its *)
(* own, and a name must be declared before it is used in both.              *)
(*                                                                         *)
(* The source is read one declaration at a time.  A use is of one variable, *)
(* block or function; only whether it is an array is told of its type.      *)
(***************************************************************************)
EXTENDS Integers, Sequences, FiniteSets

CONSTANTS
  Globals, Uniforms, Blocks, Functions,  \* the names a source may declare
  Opaque,                                \* the uniforms that are samplers
  MaxDeclared                            \* bound: declarations of a source

ASSUME SectionsAssumption ==
  /\ "main" \in Functions /\ Opaque \subseteq Uniforms /\ MaxDeclared \in Nat
  /\ Functions \cap (Globals \cup Uniforms \cup Blocks) = {}
  /\ Blocks \cap (Globals \cup Uniforms) = {}

VARIABLES
  unit,      \* the declarations read
  inBlocks,  \* whether the client has set UNIFORM_BLOCK
  supplied   \* the uniforms the client's blocks declare

SectionsInit ==
  unit = <<>> /\ inBlocks \in BOOLEAN /\ supplied \in SUBSET (Uniforms \ Opaque)

Those(ks) == {i \in DOMAIN unit : unit[i].kind \in ks}
Known == {unit[i].is : i \in DOMAIN unit}
Named(n) == \E e \in Known : e[1] = n
Defined(f) == \E i \in Those({"function"}) : unit[i].is[1] = f

\* One thing used, or none.
Used == {{}} \cup {{e} : e \in Known}

DeclareAs(kind, is, uses) ==
  /\ Len(unit) < MaxDeclared
  /\ unit' = Append(unit, [kind |-> kind, is |-> is, uses |-> uses])
  /\ UNCHANGED <<inBlocks, supplied>>

DeclareVariable ==
  \E g \in Globals :
    /\ ~Named(g)
    /\ \/ DeclareAs("variable", <<g, FALSE>>, {})
       \/ \E uses \in Used : DeclareAs("initialised", <<g, FALSE>>, uses)

DeclareUniformName ==
  \E u \in Uniforms : ~Named(u) /\ DeclareAs("uniform", <<u, FALSE>>, {})

(* A block of uniforms or a buffer, with a member that is an array or not;  *)
(* a buffer may have no name of its own.                                    *)
DeclareBlock ==
  \E b \in Blocks, array \in BOOLEAN, kind \in {"uniform", "buffer", "anonymous"} :
    ~Named(b) /\ DeclareAs(kind, <<b, array>>, {})

DeclarePrototype ==
  \E f \in Functions \ {"main"} : ~Named(f) /\ DeclareAs("prototype", <<f, FALSE>>, {})

DefineFunction ==
  \E f \in Functions, uses \in Used :
    /\ ~Defined(f) /\ uses \cap {<<f, FALSE>>, <<"main", FALSE>>} = {}
    /\ DeclareAs("function", <<f, FALSE>>, uses)

SectionsNext ==
  DeclareVariable \/ DeclareUniformName \/ DeclareBlock \/ DeclarePrototype \/ DefineFunction

SectionsSpec == SectionsInit /\ [][SectionsNext]_<<unit, inBlocks, supplied>>

-----------------------------------------------------------------------------
(* The text, in lines: where each is, what it declares and what it uses.  A   *)
(* line's place is its section and, in it, the place in the source.          *)

Line(section, at, of, declares, uses) ==
  [section |-> section, at |-> at, of |-> of, declares |-> declares, uses |-> uses]

Before(l, m) == l.section < m.section \/ (l.section = m.section /\ l.at < m.at)

\* A block's members lose their dimensions, and glslang gives a block without a name
\* one that is no identifier.
EmitSymbol(i) ==
  LET d == unit[i] IN
  Line(1, i, "symbol", IF d.kind = "anonymous" THEN {}
                       ELSE IF d.is[1] \in Blocks THEN {<<d.is[1], FALSE>>} ELSE {d.is}, {})

\* Mutant of Listed: what is in the client's blocks is written as a symbol as well.
MutantListed(i) == TRUE

\* Which of the linker's symbols are written.
Listed(i) == ~(unit[i].kind = "uniform" /\ inBlocks)

Symbols == {i \in Those({"variable", "initialised", "uniform", "buffer", "anonymous"}) : Listed(i)}

UniformBlocks ==
  IF inBlocks THEN {Line(2, 0, "block", {<<u, FALSE>> : u \in supplied}, {})} ELSE {}

(* ArrangingTraverser: the root's last sequence.                            *)
Initialisers == Those({"initialised"})
IsInitSeq(i) == i \in Initialisers /\ \A j \in Initialisers : j <= i

\* Mutant of SkipSequence: the sequence main begins with is written in its place as well.
MutantNoSkip(i) == FALSE

(* visitAggregate passes over that one when it comes to it.                 *)
SkipSequence(i) == unit[i].kind = "initialised" /\ IsInitSeq(i)

\* What a function or initialiser uses, and main the initialisers that it begins with.
UsedBy(i) ==
  unit[i].uses \cup IF unit[i].is[1] = "main"
                    THEN UNION {unit[j].uses : j \in {k \in Initialisers : IsInitSeq(k)}} ELSE {}

(* A function, main after the initialisers it begins with, or a sequence of *)
(* initialisers outside any function, which is traversed where it is and so *)
(* writes what it uses.                                                     *)
EmitNode(i) ==
  Line(3, i, IF unit[i].kind = "initialised" THEN "loose"
             ELSE IF unit[i].is[1] = "main" /\ Initialisers # {} THEN "main" ELSE "function",
       {unit[i].is}, UsedBy(i))

Tree == {i \in Those({"initialised", "function"}) : ~SkipSequence(i)}

Process == {EmitSymbol(i) : i \in Symbols} \cup UniformBlocks \cup {EmitNode(i) : i \in Tree}

-----------------------------------------------------------------------------
(* A source all of whose functions are defined. *)
Complete == \A i \in Those({"prototype"}) : Defined(unit[i].is[1])

Place(f) == CHOOSE i \in Those({"function"}) : unit[i].is = f

Unresolved ==
  UNION {l.uses \ UNION {m.declares : m \in {k \in Process : Before(k, l)}} : l \in Process}

(* A name is declared in the text before it is used there, and as it was in  *)
(* the source, but for: a function that is defined after the function or the *)
(* loose initialiser that calls it, for prototypes are not written (the last *)
(* initialisers move to main and may call what is defined before it);        *)
(* a uniform that the client has moved to its blocks and they do not have;   *)
(* and a block without a name or with an array in it (process, emitSymbol).  *)
NamesResolve ==
  Complete =>
    Unresolved =
      UNION {{e \in UsedBy(i) :
                \/ e[1] \in Functions /\ Place(e) >= i
                \/ \E k \in DOMAIN unit : unit[k].is = e /\
                     \/ unit[k].kind = "uniform" /\ inBlocks /\ (e[2] \/ e[1] \notin supplied)
                     \/ unit[k].kind = "anonymous"
                     \/ e[1] \in Blocks /\ e[2]}
             : i \in Tree}

(* Every initialised variable is given its value once, and all of them in    *)
(* main, exactly when a single declaration has an initialiser: initSeq is    *)
(* overwritten by each, and those before the last stay outside functions.    *)
InitialisersRun ==
  LET loose == {i \in Tree : EmitNode(i).of = "loose"} IN
  Defined("main") =>
    /\ Cardinality(loose) + Cardinality({i \in Tree : EmitNode(i).of = "main"})
         = Cardinality(Initialisers)
    /\ loose = {} <=> Cardinality(Initialisers) <= 1
=============================================================================
