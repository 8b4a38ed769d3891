---------------------------- MODULE MCShaderText ----------------------------
(* The algorithms behind the emitter's text, for TLC: a behaviour exercises *)
(* one of them, over all inputs up to the bounds.                           *)
EXTENDS ExpressionText, StatementText, TypedText, ConstantText, DecimalText, StructOrder, Dialect, ShaderSections

VARIABLE part

Base(kind, cols, rows, inner, dims) ==
  [kind |-> kind, cols |-> cols, rows |-> rows, members |-> inner, dims |-> dims]
Float(dims)     == Base("scalar", 1, 1, <<>>, dims)
Vec(n, dims)    == Base("vec", 1, n, <<>>, dims)
Mat(c, r, dims) == Base("mat", c, r, <<>>, dims)
Record(ms, dims) == Base("struct", 1, 1, ms, dims)

\* A structure's members are given by their numbers in the sequence.
MCTypes ==
  <<Float(<<>>), Float(<<3>>), Float(<<2, 3>>), Float(<<2, 1, 2>>), Vec(3, <<>>),
    Vec(2, <<3>>), Vec(2, <<2, 2>>), Mat(2, 2, <<>>), Mat(2, 3, <<>>), Mat(2, 2, <<2>>),
    Vec(2, <<>>), Float(<<2, 2>>),
    Record(<<11, 8, 1>>, <<>>), Record(<<12, 11>>, <<>>), Record(<<11, 1>>, <<>>),
    Record(<<1, 15>>, <<2>>)>>
MCValues == {0, 1}
MCMinPower == -324
MCVersions == {110, 120, 130, 150, 300, 330, 400, 430}
MCCapabilities == {GLSL130, GLSL150, GLSL400, UNIFORM_BLOCK}

exprVars     == <<expr, depth>>
stmtVars     == <<stmt, nest>>
typedVars    == <<node, shown, steps, last>>
constVars    == <<type, data>>
decimalVars  == <<length, power>>
structVars   == <<members, called, order, visited, named>>
dialectVars  == <<version, capabilities, written>>
sectionsVars == <<unit, inBlocks, supplied>>
vars == <<part, exprVars, stmtVars, typedVars, constVars, decimalVars, structVars, dialectVars, sectionsVars>>

Init ==
  /\ part \in {"expression", "statement", "types", "constant", "decimal", "struct", "dialect",
              "sections"}
  /\ ExprInit
  /\ StatementInit /\ (part # "statement" => stmt = Call)
  /\ TypedInit /\ (part # "types" => node = Operand("v", "float", 1))
  /\ ConstInit /\ (part # "constant" => type = 1)
  /\ DecimalInit
  /\ StructInit /\ (part # "struct" => \A s \in Struct : members[s] = <<>> /\ called[s] = s)
  /\ DialectInit /\ (part # "dialect" => version = 110)
  /\ SectionsInit /\ (part # "sections" => ~inBlocks /\ supplied = {})

Next ==
  /\ UNCHANGED part
  /\ \/ part = "expression" /\ ExprNext
        /\ UNCHANGED <<stmtVars, typedVars, constVars, decimalVars, structVars, dialectVars, sectionsVars>>
     \/ part = "statement" /\ StatementNext
        /\ UNCHANGED <<exprVars, typedVars, constVars, decimalVars, structVars, dialectVars, sectionsVars>>
     \/ part = "types" /\ TypedNext
        /\ UNCHANGED <<exprVars, stmtVars, constVars, decimalVars, structVars, dialectVars, sectionsVars>>
     \/ part = "constant" /\ Component
        /\ UNCHANGED <<exprVars, stmtVars, typedVars, decimalVars, structVars, dialectVars, sectionsVars>>
     \/ part = "decimal" /\ DecimalNext
        /\ UNCHANGED <<exprVars, stmtVars, typedVars, constVars, structVars, dialectVars, sectionsVars>>
     \/ part = "struct" /\ StructNext
        /\ UNCHANGED <<exprVars, stmtVars, typedVars, constVars, decimalVars, dialectVars, sectionsVars>>
     \/ part = "dialect" /\ DialectNext
        /\ UNCHANGED <<exprVars, stmtVars, typedVars, constVars, decimalVars, structVars, sectionsVars>>
     \/ part = "sections" /\ SectionsNext
        /\ UNCHANGED <<exprVars, stmtVars, typedVars, constVars, decimalVars, structVars, dialectVars>>

Spec == Init /\ [][Next]_vars
=============================================================================
