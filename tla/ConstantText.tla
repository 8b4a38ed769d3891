---------------------------- MODULE ConstantText ----------------------------
(***************************************************************************)
(* The text EmitterTraverser writes for a constant: nested constructors    *)
(* over the flat array of components glslang keeps.  A constructor's text   *)
(* is represented by the components GLSL makes of it.                       *)
(*                                                                         *)
(* A type is a record: its kind, the columns and rows of a scalar, vector   *)
(* or matrix, the member types of a structure, its array dimensions with    *)
(* the outermost first.  Types are numbered; a structure's members have     *)
(* types of smaller numbers.                                                *)
(***************************************************************************)
EXTENDS Integers, Sequences

CONSTANTS
  Types,         \* the types of constant to write, in a sequence
  Values,        \* the values of a component, 0 among them
  MaxArguments   \* bound: arguments of a constructor, and dimensions of an array

IsType(t, smaller) ==
  /\ t.kind \in {"scalar", "vec", "mat", "struct"}
  /\ t.cols \in Nat \ {0} /\ t.rows \in Nat \ {0}
  /\ t.kind = "mat" => t.cols > 1
  /\ t.members \in Seq(smaller) /\ Len(t.members) <= MaxArguments
  /\ t.kind # "struct" => t.members = <<>>
  /\ t.dims \in Seq(0 .. MaxArguments) /\ Len(t.dims) <= MaxArguments

ASSUME ConstantAssumption ==
  /\ 0 \in Values
  /\ MaxArguments \in Nat
  /\ DOMAIN Types = 1 .. Len(Types) /\ Len(Types) \in Nat
  /\ \A n \in DOMAIN Types : IsType(Types[n], 1 .. n - 1)

VARIABLES type, data      \* a constant's type and the components it has so far

(* Constructor <<n, d>> is that of the inner d dimensions of type n, or of   *)
(* what is not an array; part k is its k-th argument.                        *)
Constructors == UNION {{n} \X (0 .. Len(Types[n].dims)) : n \in DOMAIN Types}
Whole(n) == <<n, Len(Types[n].dims)>>
Of(c) == Types[c[1]]
IsLeaf(c) == c[2] = 0 /\ Of(c).kind # "struct"
Scalars(c) == Of(c).cols * Of(c).rows
Count(c) ==
  IF c[2] > 0 THEN Of(c).dims[Len(Of(c).dims) - c[2] + 1] ELSE Len(Of(c).members)
Part(c, k) == IF c[2] > 0 THEN <<c[1], c[2] - 1>> ELSE Whole(Of(c).members[k])

(* The loops over arguments: the constructor, the arguments done, the index *)
(* of the first component.                                                  *)
Loops == Constructors \X (0 .. MaxArguments) \X Nat

(* glslang's layout: the index after c from index, and where its matrices   *)
(* begin.                                                                   *)
Spot(index, matrices) == [index |-> index, matrices |-> matrices]

Lay(laid, c, index) ==
  IF IsLeaf(c)
  THEN Spot(index + Scalars(c), IF Of(c).kind = "mat" THEN {<<index, Scalars(c)>>} ELSE {})
  ELSE laid[<<c, Count(c), index>>]

Laid[l \in Loops] ==
  IF l[2] \in 1 .. Count(l[1])
  THEN LET before == Laid[<<l[1], l[2] - 1, l[3]>>]
           last   == Lay(Laid, Part(l[1], l[2]), before.index)
       IN  Spot(last.index, before.matrices \cup last.matrices)
  ELSE Spot(l[3], {})

Layout(n) == Lay(Laid, Whole(n), 1)
Size(n) == Layout(n).index - 1

ConstInit == type \in DOMAIN Types /\ data = <<>>

Component ==
  /\ Len(data) < Size(type) /\ \E x \in Values : data' = Append(data, x)
  /\ UNCHANGED type

ConstSpec == ConstInit /\ [][Component]_<<type, data>>

-----------------------------------------------------------------------------
(* emitConst and emitNonArrayConst: the text from the component at index,   *)
(* and the index after it.                                                  *)

Wrote(text, index) == [text |-> text, index |-> index]

(* What a constructor of GLSL makes of the components it is given.          *)
Meaning(c, given) ==
  IF Len(given) > 1 THEN given
  ELSE [i \in 1 .. Scalars(c) |->
          IF Of(c).kind = "mat" /\ (i - 1) % Of(c).rows # (i - 1) \div Of(c).rows
          THEN 0    \* a diagonal matrix
          ELSE given[1]]

\* Mutant of Shortened: index stays where the equal components begin.
MutantIndexStays(index, n) ==
  IF \A i \in 1 .. n - 1 : data[index + i] = data[index] THEN <<index, 1>> ELSE <<index, n>>

(* When all n components are equal only the last is written.                *)
Shortened(index, n) ==
  IF \A i \in 1 .. n - 1 : data[index + i] = data[index] THEN <<index + n - 1, 1>>
  ELSE <<index, n>>

EmitLeaf(c, index) ==
  LET s == Shortened(index, Scalars(c))
  IN  Wrote(Meaning(c, [k \in 1 .. s[2] |-> data[s[1] + k - 1]]), s[1] + s[2])

EmitConst(emitted, c, index) ==
  IF IsLeaf(c) THEN EmitLeaf(c, index) ELSE emitted[<<c, Count(c), index>>]

(* One more argument after those done; it starts where they ended.          *)
Emitted[l \in Loops] ==
  IF l[2] \in 1 .. Count(l[1])
  THEN LET done == Emitted[<<l[1], l[2] - 1, l[3]>>]
           arg  == EmitConst(Emitted, Part(l[1], l[2]), done.index)
       IN  Wrote(done.text \o arg.text, arg.index)
  ELSE Wrote(<<>>, l[3])

(* All n components from index are equal, and not 0.                        *)
Uniform(index, n) ==
  data[index] # 0 /\ \A i \in 1 .. n - 1 : data[index + i] = data[index]

(* A constant's text means its components exactly when it has no matrix     *)
(* whose components all have one value other than 0: such a matrix is       *)
(* written as a diagonal one.                                               *)
ConstantReadsBack ==
  Len(data) = Size(type) =>
    LET r == EmitConst(Emitted, Whole(type), 1) IN
    r.text = data /\ r.index = Len(data) + 1
      <=> ~ \E m \in Layout(type).matrices : Uniform(m[1], m[2])
=============================================================================
