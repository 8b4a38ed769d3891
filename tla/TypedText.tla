------------------------------ MODULE TypedText -----------------------------
(***************************************************************************)
(* The names EmitterTraverser writes for conversions, constructors,         *)
(* selections and some built-in functions, and the type and value that a    *)
(* GLSL compiler finds in the text.  glslang's operators do not tell a      *)
(* conversion of a scalar from one of a vector, and the emitter has the     *)
(* spelling of each operator in a table of its own.                         *)
(*                                                                         *)
(* An expression grows by one operator at a time around a variable v, as    *)
(* long as its text is right; o is a second operand.  A value is its kind   *)
(* and its components, each what it was computed by and from what.          *)
(* Matrices are left out.                                                  *)
(***************************************************************************)
EXTENDS Integers, Sequences, TLC

CONSTANTS
  Kinds,     \* kinds of component
  MaxSize,   \* components of a vector
  MaxSteps   \* bound: operators around the variable

ASSUME TypedAssumption ==
  /\ Kinds \subseteq {"bool", "int", "uint", "float", "double"}
  /\ MaxSize \in 1 .. 4 /\ MaxSteps \in Nat

VARIABLES
  node,     \* the value of the syntax tree's node
  shown,    \* that of its text
  steps,
  last      \* the operator put around it last

Value(kind, parts) == [kind |-> kind, parts |-> parts]
Wrong == Value("wrong", <<>>)
Width(v) == Len(v.parts)
Operand(name, kind, n) == Value(kind, [i \in 1 .. n |-> <<name, i>>])

TypedInit ==
  /\ \E k \in Kinds, n \in 1 .. MaxSize : node = Operand("v", k, n)
  /\ shown = node /\ steps = 0 /\ last = "none"

Visit(op, n, s) ==
  /\ shown = node /\ steps < MaxSteps /\ n # Wrong
  /\ steps' = steps + 1 /\ last' = op /\ node' = n /\ shown' = s

-----------------------------------------------------------------------------
(* What glslang's operators mean: where they may be, and what they give.    *)

Each(op, v, kind)  == Value(kind, [i \in DOMAIN v.parts |-> <<op, v.parts[i]>>])
All(op, v, kind)   == Value(kind, <<<<op, v.parts>>>>)

ConversionOf(kind, v) == IF v.kind = kind THEN v ELSE Each(kind, v, kind)

\* n components of a kind from all those there are, or from the only one.
Built(kind, n, parts) ==
  IF Len(parts) = 1 THEN Value(kind, [i \in 1 .. n |-> parts[1]])
  ELSE IF Len(parts) >= n THEN Value(kind, SubSeq(parts, 1, n)) ELSE Wrong

Bits == [EOpFloatBitsToInt |-> <<"float", "int">>, EOpFloatBitsToUint |-> <<"float", "uint">>,
         EOpIntBitsToFloat |-> <<"int", "float">>, EOpUintBitsToFloat |-> <<"uint", "float">>]

Applied(op, v) ==
  CASE op \in DOMAIN Bits /\ v.kind = Bits[op][1] -> Each(op, v, Bits[op][2])
    [] op \in {"EOpLength"} /\ v.kind \in {"float", "double"} -> All(op, v, v.kind)
    [] op = "EOpIsNan" /\ v.kind \in {"float", "double"} -> Each(op, v, "bool")
    [] op \in {"EOpAny", "EOpAll"} /\ v.kind = "bool" /\ Width(v) > 1 -> All(op, v, "bool")
    [] op \in {"EOpAnyInvocation", "EOpAllInvocations", "EOpAllInvocationsEqual"}
         /\ v.kind = "bool" /\ Width(v) = 1 -> All(op, v, "bool")
    [] op = "EOpSparseTexelsResident" /\ v.kind = "int" /\ Width(v) = 1 -> All(op, v, "bool")
    [] op = "EOpInterpolateAtCentroid" /\ v.kind = "float" /\ v = Operand("v", "float", Width(v))
         -> Each(op, v, "float")
    [] op = "EOpLogicalNot" /\ v.kind = "bool" /\ Width(v) = 1 -> Each(op, v, "bool")
    [] op = "EOpVectorLogicalNot" /\ v.kind = "bool" /\ Width(v) > 1 -> Each(op, v, "bool")
    [] OTHER -> Wrong

Compared(op, v, w) ==
  IF /\ v.kind = w.kind /\ Width(v) = Width(w) /\ Width(v) > 1
     /\ v.kind = "bool" => op \in {"EOpVectorEqual", "EOpVectorNotEqual"}
  THEN Value("bool", [i \in DOMAIN v.parts |-> <<op, v.parts[i], w.parts[i]>>]) ELSE Wrong

\* The components of a vector; a scalar has none before version 420.
Selected(v, places) ==
  IF Width(v) = 1 \/ \E i \in DOMAIN places : places[i] > Width(v) THEN Wrong
  ELSE Value(v.kind, [i \in DOMAIN places |-> v.parts[places[i]]])

-----------------------------------------------------------------------------
(* What GLSL's words mean, before version 460, with the extensions their     *)
(* suffixes name; brackets with no name before them change nothing.         *)

KindOf ==
  [bool |-> "bool", int |-> "int", uint |-> "uint", float |-> "float", double |-> "double",
   bvec |-> "bool", ivec |-> "int", uvec |-> "uint", vec |-> "float", dvec |-> "double"]

OperatorOf ==
  [length |-> "EOpLength", isnan |-> "EOpIsNan", any |-> "EOpAny", all |-> "EOpAll",
   not |-> "EOpVectorLogicalNot", interpolateAtCentroid |-> "EOpInterpolateAtCentroid",
   floatBitsToInt |-> "EOpFloatBitsToInt", floatBitsToUint |-> "EOpFloatBitsToUint",
   intBitsToFloat |-> "EOpIntBitsToFloat", uintBitsToFloat |-> "EOpUintBitsToFloat",
   anyInvocationARB |-> "EOpAnyInvocation", allInvocationsARB |-> "EOpAllInvocations",
   allInvocationsEqualARB |-> "EOpAllInvocationsEqual",
   sparseTexelsResidentARB |-> "EOpSparseTexelsResident",
   lessThan |-> "EOpLessThan", greaterThan |-> "EOpGreaterThan",
   lessThanEqual |-> "EOpLessThanEqual", greaterThanEqual |-> "EOpGreaterThanEqual",
   equal |-> "EOpVectorEqual", notEqual |-> "EOpVectorNotEqual"]

PlaceOf == [x |-> 1, y |-> 2, z |-> 3, w |-> 4]

ReadConstructor(name, v, extra) ==
  LET kind == KindOf[name[1]] IN
  Built(kind, name[2], ConversionOf(kind, v).parts \o extra)

ReadFunction(name, v) ==
  IF name = "" THEN v
  ELSE IF name \in DOMAIN OperatorOf THEN Applied(OperatorOf[name], v) ELSE Wrong

ReadComparison(name, v, w) == Compared(OperatorOf[name], v, w)
ReadPrefix(name, v) == Applied("EOpLogicalNot", v)
ReadSwizzle(v, letters) == Selected(v, [i \in DOMAIN letters |-> PlaceOf[letters[i]]])
ReadIndex(v, k) == Selected(v, <<k + 1>>)

-----------------------------------------------------------------------------
(* The emitter. *)

ScalarName == [bool |-> "bool", int |-> "int", uint |-> "uint", float |-> "float", double |-> "double"]
VectorName == [bool |-> "bvec", int |-> "ivec", uint |-> "uvec", float |-> "vec", double |-> "dvec"]

\* getTypeConstruction; a vector's name ends in its size.
Constructor(kind, n) == IF n = 1 THEN <<ScalarName[kind], 1>> ELSE <<VectorName[kind], n>>

\* visitUnary: every conversion to a kind has the name of the scalar.
Convert ==
  \E k \in Kinds \ {node.kind} :
    Visit("convert", ConversionOf(k, node), ReadConstructor(Constructor(k, 1), shown, <<>>))

(* visitAggregate: from a value of the same kind, which glslang has         *)
(* converted before, cut to its first components or repeated; or with one   *)
(* more component.                                                          *)
ConstructSize ==
  \E n \in 1 .. MaxSize, extra \in {<<>>, <<<<"o", 1>>>>} :
    /\ extra # <<>> => n = Width(node) + 1
    /\ Visit("construct", Built(node.kind, n, node.parts \o extra),
             ReadConstructor(Constructor(node.kind, n), shown, extra))

BitsName ==
  [EOpIsNan |-> "isnan", EOpFloatBitsToInt |-> "floatBitsToInt",
   EOpFloatBitsToUint |-> "floatBitsToUint", EOpIntBitsToFloat |-> "intBitsToFloat",
   EOpUintBitsToFloat |-> "uintBitsToFloat"]

ReductionName ==
  [EOpLength |-> "length", EOpInterpolateAtCentroid |-> "", EOpAny |-> "any", EOpAll |-> "all"]

VoteName ==
  [EOpAnyInvocation |-> "anyInvocationARB", EOpAllInvocations |-> "allInvocationsARB",
   EOpAllInvocationsEqual |-> "allInvocationsEqual",
   EOpSparseTexelsResident |-> "sparseTexelsResident"]

\* Mutant of FunctionName: any and all change places.
MutantFunctionName ==
  BitsName @@ [ReductionName EXCEPT !.EOpAny = "all", !.EOpAll = "any"] @@ VoteName

FunctionName == BitsName @@ ReductionName @@ VoteName

CallFunction ==
  \E op \in DOMAIN FunctionName :
    Visit(op, Applied(op, node), ReadFunction(FunctionName[op], shown))

\* EOpLogicalNot and EOpVectorLogicalNot have one sign.
LogicalNot ==
  \E op \in {"EOpLogicalNot", "EOpVectorLogicalNot"} :
    Visit(op, Applied(op, node), ReadPrefix("!", shown))

ComparisonName ==
  [EOpLessThan |-> "lessThan", EOpGreaterThan |-> "greaterThan",
   EOpLessThanEqual |-> "lessThanEqual", EOpGreaterThanEqual |-> "greaterThanEqual",
   EOpVectorEqual |-> "equal", EOpVectorNotEqual |-> "notEqual"]

Comparison ==
  \E op \in DOMAIN ComparisonName :
    LET other == Operand("o", node.kind, Width(node)) IN
    \/ Visit(op, Compared(op, node, other), ReadComparison(ComparisonName[op], shown, other))
    \/ Visit(op, Compared(op, other, node), ReadComparison(ComparisonName[op], other, shown))

\* EOpVectorSwizzle: the letter of each index, which counts from 0.
Letter(index) == CASE index = 0 -> "x" [] index = 1 -> "y" [] index = 2 -> "z" [] index = 3 -> "w"

Swizzle ==
  \E choice \in {<<2, 1>>, <<1, 1>>, <<3, 2>>, <<4, 1, 3>>} :
    Visit("swizzle", Selected(node, choice),
          ReadSwizzle(shown, [i \in DOMAIN choice |-> Letter(choice[i] - 1)]))

\* EOpIndexDirect, which is what glslang makes of a single letter too.
Index ==
  \E i \in 1 .. MaxSize : Visit("index", Selected(node, <<i>>), ReadIndex(shown, i - 1))

TypedNext ==
  Convert \/ ConstructSize \/ CallFunction \/ LogicalNot \/ Comparison \/ Swizzle \/ Index

TypedSpec == TypedInit /\ [][TypedNext]_<<node, shown, steps, last>>

(* One more operator leaves a right text right, in type and in value,        *)
(* exactly unless it is a conversion or the negation of a vector, which      *)
(* visitUnary writes as those of a scalar, or one of three functions: one    *)
(* that has no name in the text and two whose names lack their suffix.       *)
TypesKept ==
  [][shown' = node' <=>
       ~ \/ last' \in {"convert", "EOpVectorLogicalNot"} /\ Width(node) > 1
         \/ last' \in {"EOpInterpolateAtCentroid", "EOpAllInvocationsEqual",
                       "EOpSparseTexelsResident"}]_<<node, shown, steps, last>>
=============================================================================
