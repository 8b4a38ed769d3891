------------------------------- MODULE Dialect -------------------------------
(***************************************************************************)
(* The dialect of GLSL a compiler writes: its default version, the         *)
(* capabilities its client has set, those a compilation takes away again   *)
(* for its own text, and the words the emitter then picks for a variable's *)
(* storage and for a texture function, beside words that are written as    *)
(* they are, whatever the version.  Extensions are left out.  The source   *)
(* has the version its own #version gives it, which may be older or newer  *)
(* than the text's.                                                        *)
(***************************************************************************)
EXTENDS Integers, Sequences, FiniteSetsExt

CONSTANTS
  Versions,     \* the versions a compiler may be made for
  Capabilities  \* the capabilities a client may set

(* The enumeration ShaderCapability, and the shader stages.                *)
GLSL130 == 0
GLSL150 == 1
GLSL400 == 2
UNIFORM_BLOCK == 6
Stages == {"vertex", "tessellation", "geometry", "fragment"}

ASSUME DialectAssumption == Versions \subseteq Nat /\ Capabilities \subseteq 0 .. 8

VARIABLES
  version,       \* ShaderCompiler.defaultVersion
  capabilities,  \* ShaderCompiler.capabilities, one bit each
  written        \* what the last compilation wrote, for what

Nothing == [word |-> "none", for |-> "nothing"]
Asked(w) == w.with   \* what the client had set when it compiled

DialectInit == version \in Versions /\ capabilities = 0 /\ written = Nothing

Has(caps, c) == (caps \div 2^c) % 2 = 1

\* Mutant of SetIn: value is not looked at.
MutantAlwaysSets(caps, c, value) == IF Has(caps, c) THEN caps ELSE caps + 2^c

SetIn(caps, c, value) ==
  IF Has(caps, c) = value THEN caps ELSE IF value THEN caps + 2^c ELSE caps - 2^c

SetShaderCapability ==
  /\ \E c \in Capabilities : capabilities' = SetIn(capabilities, c, TRUE)
  /\ UNCHANGED <<version, written>>

(* The capabilities of one compilation.                                     *)
Effective ==
  LET a == IF version < 300 THEN SetIn(capabilities, GLSL130, FALSE) ELSE capabilities
      b == IF version < 320 THEN SetIn(a, GLSL150, FALSE) ELSE a
  IN  IF version < 400 THEN SetIn(b, GLSL400, FALSE) ELSE b

(* emitQualifier: the word for an input or output, the interpolation.       *)
Storage(stage, in) ==
  IF Has(Effective, GLSL150) THEN IF in THEN "in" ELSE "out"
  ELSE IF in /\ stage = "vertex" THEN "attribute" ELSE "varying"

Interpolation(asked) == IF Has(Effective, GLSL130) THEN asked ELSE "none"

(* Bound: one text is written; a compilation leaves the capabilities alone.  *)
Writes(w) == written = Nothing /\ written' = w

(* Where GLSL has user-defined inputs and outputs, from which version.      *)
Since(stage, in) ==
  CASE stage = "tessellation" -> 400 [] stage = "geometry" -> 150
    [] stage = "fragment" /\ ~in -> 130 [] OTHER -> 110

(* Is a source that may say what GLSL has since a version newer than the     *)
(* text?  It may be, or not, or both.                                        *)
SourceNewer(since) == {source > version : source \in {s \in Versions : s >= since}}

Declare ==
  /\ \E stage \in Stages, in \in BOOLEAN, flat \in {"flat", "none"} :
     \E newer \in SourceNewer(Max({Since(stage, in), IF flat = "flat" THEN 130 ELSE 110})) :
       Writes([word |-> Storage(stage, in), for |-> "variable", with |-> capabilities,
                   newer |-> newer, stage |-> stage, in |-> in, asked |-> flat,
                   interpolation |-> Interpolation(flat)])
  /\ UNCHANGED <<version, capabilities>>

(* The qualifiers before a variable's storage; interpolation depends on the  *)
(* capabilities, and precise has a word that GLSL does not know.             *)
QualifierSince ==
  [invariant |-> 120, precise |-> 400, centroid |-> 120, flat |-> 130, sample |-> 400]
QualifierWord(q) ==
  CASE q = "precise" -> "noContraction"
    [] q = "flat" -> Interpolation("flat")
    [] OTHER -> q

\* Mutant of QualifierOrder: sample is written before the interpolation.
MutantSampleFirst == <<"invariant", "precise", "centroid", "sample", "flat">>
QualifierOrder == <<"invariant", "precise", "centroid", "flat", "sample">>

(* Each is written after the one before it, or passed over.                 *)
PutQualifier(q, asked) ==
  IF q \in asked /\ QualifierWord(q) # "none" THEN <<QualifierWord(q)>> ELSE <<>>

QualifierWords(asked) ==
  PutQualifier(QualifierOrder[1], asked) \o PutQualifier(QualifierOrder[2], asked)
    \o PutQualifier(QualifierOrder[3], asked) \o PutQualifier(QualifierOrder[4], asked)
    \o PutQualifier(QualifierOrder[5], asked)

Qualify ==
  /\ \E asked \in SUBSET DOMAIN QualifierSince :
     \E newer \in SourceNewer(Max({110} \cup {QualifierSince[q] : q \in asked})) :
       Writes([word |-> QualifierWords(asked), for |-> "qualifiers", with |-> capabilities,
                   newer |-> newer, asked |-> asked])
  /\ UNCHANGED <<version, capabilities>>

(* A uniform goes to a block, whatever the version, once the client asks.   *)
DeclareUniform ==
  /\ Writes([word |-> IF Has(Effective, UNIFORM_BLOCK) THEN "block" ELSE "uniform",
                 for |-> "uniform", with |-> capabilities])
  /\ UNCHANGED <<version, capabilities>>

(* Types, qualifiers and built-in functions that no capability changes: some *)
(* of each, with the version of GLSL that brought them.                     *)
FixedSince ==
  [uint |-> 130, location |-> 330, floatBitsToInt |-> 330, double |-> 400, patch |-> 400,
   fma |-> 400, bitfieldExtract |-> 400, buffer |-> 430, shared |-> 430,
   textureQueryLevels |-> 430]

NameFixed ==
  /\ \E w \in DOMAIN FixedSince : \E newer \in SourceNewer(FixedSince[w]) :
       Writes([word |-> w, for |-> "fixed", with |-> capabilities, newer |-> newer])
  /\ UNCHANGED <<version, capabilities>>

-----------------------------------------------------------------------------
(* getOriginTextureFunction. *)

Basic  == {"texture", "textureProj", "textureLod", "textureProjLod"}
Newer  == {"texelFetch", "textureOffset", "textureGrad", "textureGather"}
Dims   == {"1D", "2D", "3D", "Cube", "Rect"}
ShadowDims == {"1D", "2D", "Cube", "Rect"}

Suffix == [texture |-> "", textureProj |-> "Proj", textureLod |-> "Lod",
           textureProjLod |-> "ProjLod"]

\* Mutant of OldName: a shadow sampler is taken for a plain one.
MutantPlain(op, dim, shadow) ==
  IF op \notin Basic THEN <<"", "", "">> ELSE <<"texture", dim, Suffix[op]>>

(* A name of old GLSL is <<"texture" or "shadow", dimension, suffix>>.       *)
OldName(op, dim, shadow) ==
  IF \/ op \notin Basic \/ dim = "Rect"
     \/ dim = "Cube" /\ op \in {"textureProj", "textureProjLod"}
  THEN <<"", "", "">>
  ELSE <<IF shadow /\ dim \in {"1D", "2D"} THEN "shadow" ELSE "texture", dim, Suffix[op]>>

NewName(op) == <<op, "", "">>

TextureFunction(op, dim, shadow, isSymbol) ==
  IF ~isSymbol THEN <<"", "", "">>
  ELSE IF Has(Effective, GLSL130) THEN NewName(op) ELSE OldName(op, dim, shadow)

(* The version of GLSL that brought the call.                                *)
CallSince(op, dim, shadow, arrayed) ==
  IF op = "textureGather" \/ (arrayed /\ dim = "Cube") THEN 400
  ELSE IF dim = "Rect" THEN 140
  ELSE IF op \in Newer \/ arrayed \/ (shadow /\ dim = "Cube") THEN 130 ELSE 110

(* A sampler may be one of an array of textures, which nothing here looks at. *)
CallTexture ==
  /\ \E op \in Basic \cup Newer, dim \in Dims, shadow \in BOOLEAN, arrayed \in BOOLEAN,
        isSymbol \in BOOLEAN :
       /\ shadow => dim \in ShadowDims
       /\ arrayed => dim \in {"1D", "2D", "Cube"} /\ op \notin {"textureProj", "textureProjLod"}
       /\ dim = "Cube" => op \notin {"textureProj", "textureProjLod", "textureOffset", "texelFetch"}
       /\ \E newer \in SourceNewer(CallSince(op, dim, shadow, arrayed)) :
            Writes([word |-> TextureFunction(op, dim, shadow, isSymbol), for |-> "call",
                        with |-> capabilities, newer |-> newer, op |-> op, dim |-> dim,
                        shadow |-> shadow, arrayed |-> arrayed, symbol |-> isSymbol])
  /\ UNCHANGED <<version, capabilities>>

DialectNext ==
  SetShaderCapability \/ Declare \/ Qualify \/ DeclareUniform \/ NameFixed \/ CallTexture

DialectSpec == DialectInit /\ [][DialectNext]_<<version, capabilities, written>>

-----------------------------------------------------------------------------
(* The version of GLSL that brought a word, 0 if it was always there.       *)
WordSince(w) ==
  CASE w.for = "variable" ->
         IF w.word \in {"in", "out"} \/ w.interpolation # "none" THEN 130 ELSE 0
    [] w.for = "fixed" -> FixedSince[w.word]
    [] w.for = "uniform" -> IF w.word = "block" THEN 140 ELSE 0
    [] w.for = "qualifiers" ->
         Max({0} \cup {QualifierSince[q] : q \in {"invariant", "centroid", "flat", "sample"}
                                            \cap {w.word[i] : i \in DOMAIN w.word}})
    [] w.for = "call" -> IF w.word[2] # "" THEN 0
                         ELSE IF w.word[1] = "textureGather" THEN 400
                         ELSE IF w.word[1] = "" THEN 0 ELSE 130
    [] OTHER -> 0

(* Whatever capabilities the client has set and however new the source is,   *)
(* a storage, an interpolation and a texture function are written in words   *)
(* no newer than the text's #version, but for the block of UNIFORM_BLOCK and *)
(* textureGather; any other word that is newer comes from a source that is   *)
(* newer than the text.  compile takes GLSL130, GLSL150 and GLSL400 back     *)
(* from its text, but the emitter never asks for GLSL400, and most words     *)
(* depend on no capability.                                                 *)
NoWordTooNew ==
  WordSince(written) > version =>
    \/ written.for = "uniform" /\ Has(Asked(written), UNIFORM_BLOCK)
    \/ written.for = "call" /\ written.op = "textureGather" /\ written.newer
    \/ written.for = "fixed" /\ written.newer
    \/ /\ written.for = "qualifiers" /\ written.newer
       /\ \E q \in written.asked \ {"flat", "precise"} : QualifierSince[q] > version

(* What old GLSL names, it names as the call means: a sampler, or a shadow   *)
(* sampler of one or two dimensions, and an input or output where it has     *)
(* one.  What it has no word for is written all the same: no name for the    *)
(* function, that of a plain sampler for an array of textures, varying for   *)
(* the variable, no interpolation.  None of this happens once the client has *)
(* set GLSL130 and GLSL150 and the version is 320 or more, unless the        *)
(* sampler is not a plain variable.                                          *)
OldWordsMean ==
  CASE written.for = "call" ->
         LET w == written IN
         \/ w.word = NewName(w.op)
         \/ w.word[1] = "" /\ (w.symbol => version < 300 \/ ~Has(Asked(w), GLSL130))
         \/ w.arrayed /\ (version < 300 \/ ~Has(Asked(w), GLSL130))
         \/ /\ w.word[2] = w.dim /\ ~w.arrayed
            /\ w.word[1] = "shadow" <=> w.shadow /\ w.dim # "Cube"
            /\ w.op \in Basic /\ w.word[3] = Suffix[w.op]
    [] written.for = "variable" ->
         LET w == written
             old == version < 320 \/ ~Has(Asked(w), GLSL150)
         IN  /\ w.word = "attribute" => w.stage = "vertex" /\ w.in
             /\ (w.word = "varying" /\ ~ <<w.stage, w.in>> \in
                   {<<"vertex", FALSE>>, <<"fragment", TRUE>>}) => old
             /\ w.interpolation # w.asked => version < 300 \/ ~Has(Asked(w), GLSL130)
    [] OTHER -> TRUE

(* Before version 420 the qualifiers of a variable have one order: invariant, *)
(* interpolation, then centroid or sample.  What is written has it, and is    *)
(* made of GLSL's words, exactly unless the source asks for precise, or for   *)
(* centroid with an interpolation that is written (emitQualifier).            *)
QualifiersRead ==
  written.for = "qualifiers" =>
    LET place == [invariant |-> 1, flat |-> 2, centroid |-> 3, sample |-> 3]
        words == written.word
        read  == /\ \A i \in DOMAIN words : words[i] \in DOMAIN place
                 /\ \A i, j \in DOMAIN words :
                      version < 420 /\ i < j => place[words[i]] <= place[words[j]]
    IN  read <=> /\ "precise" \notin written.asked
                 /\ ~ (/\ {"centroid", "flat"} \subseteq written.asked /\ version \in 300 .. 419
                       /\ Has(Asked(written), GLSL130))
=============================================================================
