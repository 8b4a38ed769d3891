SPECIFICATION Spec
CONSTANTS
  MaxDepth = 4
  MaxNest = 3
  Kinds = {"bool", "int", "uint", "float", "double"}
  MaxSize = 4
  MaxSteps = 4
  Globals = {"g", "h"}
  Uniforms = {"u", "s"}
  Opaque = {"s"}
  Blocks = {"k"}
  Functions = {"main", "f"}
  MaxDeclared = 4
  Types <- MCTypes
  Values <- MCValues
  MaxArguments = 3
  MaxDigits = 17
  MinPower <- MCMinPower
  MaxPower = 308
  MaxStruct = 4
  Builtin = {2}
  Versions <- MCVersions
  Capabilities <- MCCapabilities
INVARIANT ExpressionReadsBack
INVARIANT StatementReadsBack
INVARIANT NamesResolve
INVARIANT InitialisersRun
PROPERTY TypesKept
INVARIANT ConstantReadsBack
INVARIANT DecimalReadsBack
INVARIANT StructsDeclared
INVARIANT NoWordTooNew
 
INVARIANT QualifiersRead
CHECK_DEADLOCK FALSE
