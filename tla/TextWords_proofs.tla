-------------------------- MODULE TextWords_proofs ---------------------------
(***************************************************************************)
(* Proofs about the words of the emitter's text and what they mean: those  *)
(* of Dialect for any versions and capabilities, the names and sections of *)
(* ShaderSections for any names and sources of any length.                 *)
(***************************************************************************)
EXTENDS Dialect, ShaderSections, FiniteSetTheorems, SequenceTheorems, TLAPS

-----------------------------------------------------------------------------
(* The capability bits.                                                    *)

\* Arithmetic: what taking away a bit that is set does to it and to the others.
LEMMA LowestBit == \A k \in Int : (k \div 1) % 2 = 1 =>
  /\ ((k - 1) \div 1) % 2 = 0 /\ ((k - 1) \div 2) % 2 = (k \div 2) % 2
  /\ ((k - 1) \div 4) % 2 = (k \div 4) % 2 /\ ((k - 1) \div 64) % 2 = (k \div 64) % 2
OBVIOUS

LEMMA SecondBit == \A k \in Int : (k \div 2) % 2 = 1 =>
  /\ ((k - 2) \div 1) % 2 = (k \div 1) % 2 /\ ((k - 2) \div 2) % 2 = 0
  /\ ((k - 2) \div 4) % 2 = (k \div 4) % 2 /\ ((k - 2) \div 64) % 2 = (k \div 64) % 2
OBVIOUS

LEMMA ThirdBit == \A k \in Int : (k \div 4) % 2 = 1 =>
  /\ ((k - 4) \div 1) % 2 = (k \div 1) % 2 /\ ((k - 4) \div 2) % 2 = (k \div 2) % 2
  /\ ((k - 4) \div 4) % 2 = 0 /\ ((k - 4) \div 64) % 2 = (k \div 64) % 2
OBVIOUS

\* The bits by name.
LEMMA Bits ==
  ASSUME NEW k \in Int
  PROVE  /\ Has(k, GLSL130) <=> (k \div 1) % 2 = 1
         /\ Has(k, GLSL150) <=> (k \div 2) % 2 = 1
         /\ Has(k, GLSL400) <=> (k \div 4) % 2 = 1
         /\ Has(k, UNIFORM_BLOCK) <=> (k \div 64) % 2 = 1
<1>1. 2^0 = 1 /\ 2^1 = 2 /\ 2^2 = 4 /\ 2^6 = 64
  OBVIOUS
<1> QED BY <1>1 DEF Has, GLSL130, GLSL150, GLSL400, UNIFORM_BLOCK

LEMMA Clearing ==
  ASSUME NEW k \in Int
  PROVE  /\ SetIn(k, GLSL130, FALSE) = IF Has(k, GLSL130) THEN k - 1 ELSE k
         /\ SetIn(k, GLSL150, FALSE) = IF Has(k, GLSL150) THEN k - 2 ELSE k
         /\ SetIn(k, GLSL400, FALSE) = IF Has(k, GLSL400) THEN k - 4 ELSE k
<1>1. 2^GLSL130 = 1 /\ 2^GLSL150 = 2 /\ 2^GLSL400 = 4
  BY DEF GLSL130, GLSL150, GLSL400
<1>2. ASSUME NEW c \in Int PROVE SetIn(k, c, FALSE) = IF Has(k, c) THEN k - 2^c ELSE k
  <2>1. Has(k, c) \in BOOLEAN
    BY DEF Has
  <2> QED BY <2>1 DEF SetIn
<1>3. GLSL130 \in Int /\ GLSL150 \in Int /\ GLSL400 \in Int
  BY DEF GLSL130, GLSL150, GLSL400
<1> QED BY <1>1, <1>2, <1>3

\* Taking one bit away leaves the others.
LEMMA Cleared130 ==
  ASSUME NEW k \in Int
  PROVE  /\ SetIn(k, GLSL130, FALSE) \in Int
         /\ ~Has(SetIn(k, GLSL130, FALSE), GLSL130)
         /\ Has(SetIn(k, GLSL130, FALSE), GLSL150) <=> Has(k, GLSL150)
         /\ Has(SetIn(k, GLSL130, FALSE), UNIFORM_BLOCK) <=> Has(k, UNIFORM_BLOCK)
<1>1. k - 1 \in Int
  OBVIOUS
<1>2. Has(k, GLSL130) =>
        /\ ~Has(k - 1, GLSL130) /\ (Has(k - 1, GLSL150) <=> Has(k, GLSL150))
        /\ Has(k - 1, UNIFORM_BLOCK) <=> Has(k, UNIFORM_BLOCK)
  BY <1>1, LowestBit, Bits
<1> QED BY <1>1, <1>2, Clearing

LEMMA Cleared150 ==
  ASSUME NEW k \in Int
  PROVE  /\ SetIn(k, GLSL150, FALSE) \in Int
         /\ Has(SetIn(k, GLSL150, FALSE), GLSL130) <=> Has(k, GLSL130)
         /\ ~Has(SetIn(k, GLSL150, FALSE), GLSL150)
         /\ Has(SetIn(k, GLSL150, FALSE), UNIFORM_BLOCK) <=> Has(k, UNIFORM_BLOCK)
<1>1. k - 2 \in Int
  OBVIOUS
<1>2. Has(k, GLSL150) =>
        /\ ~Has(k - 2, GLSL150) /\ (Has(k - 2, GLSL130) <=> Has(k, GLSL130))
        /\ Has(k - 2, UNIFORM_BLOCK) <=> Has(k, UNIFORM_BLOCK)
  BY <1>1, SecondBit, Bits
<1> QED BY <1>1, <1>2, Clearing

LEMMA Cleared400 ==
  ASSUME NEW k \in Int
  PROVE  /\ SetIn(k, GLSL400, FALSE) \in Int
         /\ Has(SetIn(k, GLSL400, FALSE), GLSL130) <=> Has(k, GLSL130)
         /\ Has(SetIn(k, GLSL400, FALSE), GLSL150) <=> Has(k, GLSL150)
         /\ Has(SetIn(k, GLSL400, FALSE), UNIFORM_BLOCK) <=> Has(k, UNIFORM_BLOCK)
<1>1. k - 4 \in Int
  OBVIOUS
<1>2. Has(k, GLSL400) =>
        /\ (Has(k - 4, GLSL130) <=> Has(k, GLSL130))
        /\ (Has(k - 4, GLSL150) <=> Has(k, GLSL150))
        /\ (Has(k - 4, UNIFORM_BLOCK) <=> Has(k, UNIFORM_BLOCK))
  BY <1>1, ThirdBit, Bits
<1> QED BY <1>1, <1>2, Clearing

LEMMA BitSet ==
  ASSUME NEW caps \in Int, NEW c \in 0 .. 8
  PROVE  SetIn(caps, c, TRUE) \in Int
<1>1. 2^c \in Int
  OBVIOUS
<1> QED BY <1>1 DEF SetIn, Has

\* What a compilation has of the capabilities its client set.
LEMMA EffectiveBits ==
  ASSUME capabilities \in Int, version \in Nat
  PROVE  /\ Has(Effective, GLSL130) <=> Has(capabilities, GLSL130) /\ version >= 300
         /\ Has(Effective, GLSL150) <=> Has(capabilities, GLSL150) /\ version >= 320
         /\ Has(Effective, UNIFORM_BLOCK) <=> Has(capabilities, UNIFORM_BLOCK)
<1> DEFINE a == IF version < 300 THEN SetIn(capabilities, GLSL130, FALSE) ELSE capabilities
           b == IF version < 320 THEN SetIn(a, GLSL150, FALSE) ELSE a
           e == IF version < 400 THEN SetIn(b, GLSL400, FALSE) ELSE b
<1>0. /\ version >= 300 <=> ~(version < 300)
      /\ version >= 320 <=> ~(version < 320)
  OBVIOUS
<1>1. /\ a \in Int
      /\ Has(a, GLSL130) <=> Has(capabilities, GLSL130) /\ version >= 300
      /\ Has(a, GLSL150) <=> Has(capabilities, GLSL150)
      /\ Has(a, UNIFORM_BLOCK) <=> Has(capabilities, UNIFORM_BLOCK)
  <2>1. CASE version < 300
    <3>1. a = SetIn(capabilities, GLSL130, FALSE)
      BY <2>1
    <3> HIDE DEF a
    <3>2. /\ a \in Int /\ ~Has(a, GLSL130)
          /\ Has(a, GLSL150) <=> Has(capabilities, GLSL150)
          /\ Has(a, UNIFORM_BLOCK) <=> Has(capabilities, UNIFORM_BLOCK)
      BY <3>1, Cleared130
    <3> QED BY <1>0, <2>1, <3>2
  <2>2. CASE ~(version < 300)
    BY <1>0, <2>2
  <2> QED BY <2>1, <2>2
<1> HIDE DEF a
<1>2. /\ b \in Int
      /\ Has(b, GLSL130) <=> Has(a, GLSL130)
      /\ Has(b, GLSL150) <=> Has(a, GLSL150) /\ version >= 320
      /\ Has(b, UNIFORM_BLOCK) <=> Has(a, UNIFORM_BLOCK)
  <2>1. CASE version < 320
    <3>1. b = SetIn(a, GLSL150, FALSE)
      BY <2>1
    <3> HIDE DEF b
    <3>2. /\ b \in Int /\ ~Has(b, GLSL150)
          /\ Has(b, GLSL130) <=> Has(a, GLSL130)
          /\ Has(b, UNIFORM_BLOCK) <=> Has(a, UNIFORM_BLOCK)
      BY <1>1, <3>1, Cleared150
    <3> QED BY <1>0, <2>1, <3>2
  <2>2. CASE ~(version < 320)
    BY <1>0, <1>1, <2>2
  <2> QED BY <2>1, <2>2
<1> HIDE DEF b
<1>3. /\ Has(e, GLSL130) <=> Has(b, GLSL130)
      /\ Has(e, GLSL150) <=> Has(b, GLSL150)
      /\ Has(e, UNIFORM_BLOCK) <=> Has(b, UNIFORM_BLOCK)
  BY <1>2, Cleared400
<1>4. Effective = e
  BY DEF Effective, a, b
<1> HIDE DEF e
<1> QED BY <1>1, <1>2, <1>3, <1>4

-----------------------------------------------------------------------------
(* Versions of words.                                                      *)

\* The largest of some versions is one of them, and none is above it.
LEMMA LargestVersion ==
  ASSUME NEW S, S \subseteq {0, 110, 120, 130, 150, 400}, S # {}
  PROVE  Max(S) \in S /\ \A x \in S : x <= Max(S)
<1>1. \E x \in S : \A y \in S : x >= y
  <2>1. CASE 400 \in S BY <2>1
  <2>2. CASE 400 \notin S /\ 150 \in S BY <2>2
  <2>3. CASE 400 \notin S /\ 150 \notin S /\ 130 \in S BY <2>3
  <2>4. CASE 400 \notin S /\ 150 \notin S /\ 130 \notin S /\ 120 \in S BY <2>4
  <2>5. CASE 400 \notin S /\ 150 \notin S /\ 130 \notin S /\ 120 \notin S /\ 110 \in S BY <2>5
  <2>6. CASE S \subseteq {0}
    <3>1. PICK x \in S : TRUE
      OBVIOUS
    <3>2. x = 0 /\ 0 >= 0
      BY <2>6
    <3> QED BY <2>6, <3>1, <3>2
  <2> QED BY <2>1, <2>2, <2>3, <2>4, <2>5, <2>6
<1>2. Max(S) \in S /\ \A y \in S : Max(S) >= y
  BY <1>1 DEF Max
<1>3. \A x, y \in {0, 110, 120, 130, 150, 400} : x >= y => y <= x
  OBVIOUS
<1> QED BY <1>2, <1>3

\* Where a source is newer than the text, given what it says.
LEMMA NewerSource ==
  ASSUME DialectAssumption, version \in Nat, NEW since \in Nat, NEW newer \in SourceNewer(since)
  PROVE  newer \in BOOLEAN /\ (since > version => newer = TRUE)
<1>1. PICK source \in {s \in Versions : s >= since} : newer = (source > version)
  BY DEF SourceNewer
<1>2. source \in Nat /\ source >= since
  BY <1>1 DEF DialectAssumption
<1>3. newer \in BOOLEAN
  BY <1>1
<1>4. since > version => source > version
  BY <1>2
<1>5. ASSUME source > version PROVE newer = TRUE
  BY <1>1, <1>5
<1> QED BY <1>3, <1>4, <1>5

-----------------------------------------------------------------------------
(* The words of a variable's qualifiers.                                   *)

WordsOf(s) == {s[i] : i \in DOMAIN s}

\* Where the emitter has each word.
Rank(w) ==
  CASE w = "invariant" -> 1 [] w = "noContraction" -> 2 [] w = "centroid" -> 3
    [] w = "flat" -> 4 [] OTHER -> 5

Word == {"invariant", "noContraction", "centroid", "flat", "sample"}

\* Words in the emitter's order, from the places a to b.
Ranked(s, a, b) ==
  /\ s \in Seq(Word)
  /\ \A w \in WordsOf(s) : a <= Rank(w) /\ Rank(w) <= b
  /\ \A i, j \in DOMAIN s : i < j => Rank(s[i]) < Rank(s[j])

LEMMA RankTypes == \A w \in Word : Rank(w) \in 1 .. 5
BY DEF Rank, Word

LEMMA ConcatWords ==
  ASSUME NEW s \in Seq(Word), NEW r \in Seq(Word)
  PROVE  s \o r \in Seq(Word) /\ WordsOf(s \o r) = WordsOf(s) \cup WordsOf(r)
<1>1. /\ s \o r \in Seq(Word) /\ Len(s \o r) = Len(s) + Len(r)
      /\ \A i \in 1 .. Len(s) + Len(r) :
           (s \o r)[i] = IF i <= Len(s) THEN s[i] ELSE r[i - Len(s)]
  BY ConcatProperties
<1>2. /\ Len(s) \in Nat /\ Len(r) \in Nat /\ DOMAIN s = 1 .. Len(s) /\ DOMAIN r = 1 .. Len(r)
      /\ DOMAIN (s \o r) = 1 .. Len(s) + Len(r)
  BY <1>1, LenProperties
<1>3. ASSUME NEW i \in DOMAIN (s \o r) PROVE (s \o r)[i] \in WordsOf(s) \cup WordsOf(r)
  <2>1. CASE i <= Len(s)
    <3>1. i \in DOMAIN s /\ (s \o r)[i] = s[i]
      BY <1>1, <1>2, <2>1
    <3> QED BY <3>1 DEF WordsOf
  <2>2. CASE ~(i <= Len(s))
    <3>1. i - Len(s) \in DOMAIN r /\ (s \o r)[i] = r[i - Len(s)]
      BY <1>1, <1>2, <2>2
    <3> QED BY <3>1 DEF WordsOf
  <2> QED BY <2>1, <2>2
<1>4. ASSUME NEW i \in DOMAIN s PROVE s[i] \in WordsOf(s \o r)
  <2>1. i \in DOMAIN (s \o r) /\ (s \o r)[i] = s[i]
    BY <1>1, <1>2
  <2> QED BY <2>1 DEF WordsOf
<1>5. ASSUME NEW i \in DOMAIN r PROVE r[i] \in WordsOf(s \o r)
  <2>1. i + Len(s) \in 1 .. Len(s) + Len(r) /\ ~(i + Len(s) <= Len(s)) /\ (i + Len(s)) - Len(s) = i
    BY <1>2
  <2>2. i + Len(s) \in DOMAIN (s \o r) /\ (s \o r)[i + Len(s)] = r[i]
    BY <1>1, <1>2, <2>1
  <2> QED BY <2>2 DEF WordsOf
<1> QED BY <1>1, <1>3, <1>4, <1>5 DEF WordsOf

LEMMA ConcatRanked ==
  ASSUME NEW s, NEW r, NEW a \in 1 .. 5, NEW b \in 1 .. 5, NEW c \in 1 .. 5, NEW d \in 1 .. 5,
         Ranked(s, a, b), Ranked(r, c, d), b < c, a <= b, c <= d
  PROVE  Ranked(s \o r, a, d)
<1>0. s \in Seq(Word) /\ r \in Seq(Word)
  BY DEF Ranked
<1>1. s \o r \in Seq(Word) /\ WordsOf(s \o r) = WordsOf(s) \cup WordsOf(r)
  BY <1>0, ConcatWords
<1>2. /\ Len(s) \in Nat /\ Len(r) \in Nat /\ DOMAIN s = 1 .. Len(s) /\ DOMAIN r = 1 .. Len(r)
      /\ DOMAIN (s \o r) = 1 .. Len(s) + Len(r)
      /\ \A i \in 1 .. Len(s) + Len(r) :
           (s \o r)[i] = IF i <= Len(s) THEN s[i] ELSE r[i - Len(s)]
  BY <1>0, <1>1, ConcatProperties, LenProperties
<1>3. WordsOf(s) \subseteq Word /\ WordsOf(r) \subseteq Word
  BY <1>0, <1>2, ElementOfSeq DEF WordsOf
<1>4. ASSUME NEW w \in WordsOf(s \o r) PROVE a <= Rank(w) /\ Rank(w) <= d
  <2>1. Rank(w) \in 1 .. 5
    BY <1>1, <1>3, RankTypes
  <2>2. CASE w \in WordsOf(s)
    BY <2>1, <2>2 DEF Ranked
  <2>3. CASE w \in WordsOf(r)
    BY <2>1, <2>3 DEF Ranked
  <2> QED BY <1>1, <2>2, <2>3
<1>5. ASSUME NEW i \in DOMAIN (s \o r), NEW j \in DOMAIN (s \o r), i < j
      PROVE  Rank((s \o r)[i]) < Rank((s \o r)[j])
  <2>1. CASE j <= Len(s)
    <3>1. i \in DOMAIN s /\ j \in DOMAIN s /\ (s \o r)[i] = s[i] /\ (s \o r)[j] = s[j]
      BY <1>2, <1>5, <2>1
    <3> QED BY <1>5, <3>1 DEF Ranked
  <2>2. CASE ~(i <= Len(s))
    <3>1. /\ i - Len(s) \in DOMAIN r /\ j - Len(s) \in DOMAIN r /\ i - Len(s) < j - Len(s)
          /\ (s \o r)[i] = r[i - Len(s)] /\ (s \o r)[j] = r[j - Len(s)]
      BY <1>2, <1>5, <2>2
    <3> QED BY <3>1 DEF Ranked
  <2>3. CASE i <= Len(s) /\ ~(j <= Len(s))
    <3>1. i \in DOMAIN s /\ j - Len(s) \in DOMAIN r
          /\ (s \o r)[i] = s[i] /\ (s \o r)[j] = r[j - Len(s)]
      BY <1>2, <1>5, <2>3
    <3>2. s[i] \in WordsOf(s) /\ r[j - Len(s)] \in WordsOf(r)
      BY <3>1 DEF WordsOf
    <3>3. Rank(s[i]) \in 1 .. 5 /\ Rank(r[j - Len(s)]) \in 1 .. 5
      BY <1>3, <3>2, RankTypes
    <3>4. Rank(s[i]) <= b /\ c <= Rank(r[j - Len(s)])
      BY <3>2 DEF Ranked
    <3> QED BY <3>1, <3>3, <3>4
  <2>4. i \in Nat /\ j \in Nat
    BY <1>2
  <2> QED BY <1>2, <1>5, <2>1, <2>2, <2>3, <2>4
<1> QED BY <1>1, <1>4, <1>5 DEF Ranked

\* One word or none.
LEMMA OneWord ==
  ASSUME NEW w \in Word, NEW b \in BOOLEAN
  PROVE  LET s == IF b THEN <<w>> ELSE <<>> IN
         Ranked(s, Rank(w), Rank(w)) /\ WordsOf(s) = IF b THEN {w} ELSE {}
<1>1. Rank(w) \in 1 .. 5
  BY RankTypes
<1>2. Ranked(<<w>>, Rank(w), Rank(w)) /\ WordsOf(<<w>>) = {w}
  <2>1. WordsOf(<<w>>) = {w}
    BY DEF WordsOf
  <2>2. <<w>> \in Seq(Word) /\ DOMAIN <<w>> = {1}
    OBVIOUS
  <2>3. \A k \in 1 .. 5 : k <= k
    OBVIOUS
  <2>4. \A i, j \in {1} : ~(i < j)
    OBVIOUS
  <2> QED BY <1>1, <2>1, <2>2, <2>3, <2>4 DEF Ranked
<1>3. Ranked(<<>>, Rank(w), Rank(w)) /\ WordsOf(<<>>) = {}
  BY EmptySeq DEF Ranked, WordsOf
<1> QED BY <1>2, <1>3

\* The qualifiers that are written, and their order, whatever is asked for.
LEMMA WordsWritten ==
  ASSUME capabilities \in Int, version \in Nat, NEW asked \in SUBSET DOMAIN QualifierSince
  PROVE  /\ Ranked(QualifierWords(asked), 1, 5)
         /\ \A w \in WordsOf(QualifierWords(asked)) : w \in Word
         /\ \A w \in {"invariant", "centroid", "sample"} :
              w \in WordsOf(QualifierWords(asked)) <=> w \in asked
         /\ "noContraction" \in WordsOf(QualifierWords(asked)) <=> "precise" \in asked
         /\ "flat" \in WordsOf(QualifierWords(asked)) <=>
              "flat" \in asked /\ Has(capabilities, GLSL130) /\ version >= 300
<1> DEFINE put(w, b) == IF b THEN <<w>> ELSE <<>>
           p1 == put("invariant", "invariant" \in asked)
           p2 == put("noContraction", "precise" \in asked)
           p3 == put("centroid", "centroid" \in asked)
           p4 == put("flat", "flat" \in asked /\ Has(Effective, GLSL130))
           p5 == put("sample", "sample" \in asked)
<1>1. QualifierWords(asked) = (((p1 \o p2) \o p3) \o p4) \o p5
  <2>1. /\ PutQualifier("invariant", asked) = p1
        /\ PutQualifier("precise", asked) = p2
        /\ PutQualifier("centroid", asked) = p3
        /\ PutQualifier("sample", asked) = p5
    BY DEF PutQualifier, QualifierWord
  <2>2. PutQualifier("flat", asked) = p4
    <3>1. QualifierWord("flat") = IF Has(Effective, GLSL130) THEN "flat" ELSE "none"
      BY DEF QualifierWord, Interpolation
    <3> QED BY <3>1 DEF PutQualifier
  <2>3. /\ QualifierOrder[1] = "invariant" /\ QualifierOrder[2] = "precise"
        /\ QualifierOrder[3] = "centroid" /\ QualifierOrder[4] = "flat"
        /\ QualifierOrder[5] = "sample"
    BY DEF QualifierOrder
  <2> QED BY <2>1, <2>2, <2>3 DEF QualifierWords
<1>2. /\ Rank("invariant") = 1 /\ Rank("noContraction") = 2 /\ Rank("centroid") = 3
      /\ Rank("flat") = 4 /\ Rank("sample") = 5
  BY DEF Rank
<1>3. /\ "invariant" \in Word /\ "noContraction" \in Word /\ "centroid" \in Word
      /\ "flat" \in Word /\ "sample" \in Word
  BY DEF Word
<1>4. /\ Ranked(p1, 1, 1) /\ WordsOf(p1) = IF "invariant" \in asked THEN {"invariant"} ELSE {}
      /\ Ranked(p2, 2, 2) /\ WordsOf(p2) = IF "precise" \in asked THEN {"noContraction"} ELSE {}
      /\ Ranked(p3, 3, 3) /\ WordsOf(p3) = IF "centroid" \in asked THEN {"centroid"} ELSE {}
      /\ Ranked(p4, 4, 4)
      /\ WordsOf(p4) = IF "flat" \in asked /\ Has(Effective, GLSL130) THEN {"flat"} ELSE {}
      /\ Ranked(p5, 5, 5) /\ WordsOf(p5) = IF "sample" \in asked THEN {"sample"} ELSE {}
  BY <1>2, <1>3, OneWord DEF Has
<1> HIDE DEF p1, p2, p3, p4, p5
<1>5. /\ p1 \in Seq(Word) /\ p2 \in Seq(Word) /\ p3 \in Seq(Word) /\ p4 \in Seq(Word)
      /\ p5 \in Seq(Word)
  BY <1>4 DEF Ranked
<1>6. Ranked(p1 \o p2, 1, 2) /\ WordsOf(p1 \o p2) = WordsOf(p1) \cup WordsOf(p2)
  BY <1>4, <1>5, ConcatRanked, ConcatWords
<1>7. /\ Ranked((p1 \o p2) \o p3, 1, 3)
      /\ WordsOf((p1 \o p2) \o p3) = WordsOf(p1 \o p2) \cup WordsOf(p3)
  <2>1. p1 \o p2 \in Seq(Word)
    BY <1>6 DEF Ranked
  <2>2. Ranked((p1 \o p2) \o p3, 1, 3)
    BY <1>4, <1>6, ConcatRanked
  <2> QED BY <1>5, <2>1, <2>2, ConcatWords
<1>8. /\ Ranked(((p1 \o p2) \o p3) \o p4, 1, 4)
      /\ WordsOf(((p1 \o p2) \o p3) \o p4) = WordsOf((p1 \o p2) \o p3) \cup WordsOf(p4)
  <2>1. (p1 \o p2) \o p3 \in Seq(Word)
    BY <1>7 DEF Ranked
  <2>2. Ranked(((p1 \o p2) \o p3) \o p4, 1, 4)
    BY <1>4, <1>7, ConcatRanked
  <2> QED BY <1>5, <2>1, <2>2, ConcatWords
<1>9. /\ Ranked(QualifierWords(asked), 1, 5)
      /\ WordsOf(QualifierWords(asked)) = WordsOf(((p1 \o p2) \o p3) \o p4) \cup WordsOf(p5)
  <2>1. ((p1 \o p2) \o p3) \o p4 \in Seq(Word)
    BY <1>8 DEF Ranked
  <2>2. Ranked((((p1 \o p2) \o p3) \o p4) \o p5, 1, 5)
    BY <1>4, <1>8, ConcatRanked
  <2> QED BY <1>1, <1>5, <2>1, <2>2, ConcatWords
<1>10. WordsOf(QualifierWords(asked)) =
         (IF "invariant" \in asked THEN {"invariant"} ELSE {})
           \cup (IF "precise" \in asked THEN {"noContraction"} ELSE {})
           \cup (IF "centroid" \in asked THEN {"centroid"} ELSE {})
           \cup (IF "flat" \in asked /\ Has(Effective, GLSL130) THEN {"flat"} ELSE {})
           \cup (IF "sample" \in asked THEN {"sample"} ELSE {})
  BY <1>4, <1>6, <1>7, <1>8, <1>9
<1>11. Has(Effective, GLSL130) <=> Has(capabilities, GLSL130) /\ version >= 300
  BY EffectiveBits
<1>12. "flat" \in WordsOf(QualifierWords(asked)) <=> "flat" \in asked /\ Has(Effective, GLSL130)
  BY <1>10
<1>13. /\ \A w \in WordsOf(QualifierWords(asked)) : w \in Word
       /\ "noContraction" \in WordsOf(QualifierWords(asked)) <=> "precise" \in asked
  BY <1>3, <1>10
<1>14. \A w \in {"invariant", "centroid", "sample"} :
         w \in WordsOf(QualifierWords(asked)) <=> w \in asked
  BY <1>10
<1> QED BY <1>9, <1>11, <1>12, <1>13, <1>14

-----------------------------------------------------------------------------
(* What every text has.                                                    *)

DialectTypes == version \in Versions /\ capabilities \in Int

LEMMA DialectTypesHold ==
  ASSUME DialectAssumption
  PROVE  DialectSpec => []DialectTypes
<1>1. DialectInit => DialectTypes
  BY DEF DialectInit, DialectTypes
<1>2. DialectTypes /\ [DialectNext]_<<version, capabilities, written>> => DialectTypes'
  <2> SUFFICES ASSUME DialectTypes, [DialectNext]_<<version, capabilities, written>>
               PROVE  DialectTypes'
    OBVIOUS
  <2>1. CASE SetShaderCapability
    <3>1. PICK c \in Capabilities : capabilities' = SetIn(capabilities, c, TRUE)
      BY <2>1 DEF SetShaderCapability
    <3>2. c \in 0 .. 8
      BY DEF DialectAssumption
    <3> QED BY <2>1, <3>1, <3>2, BitSet DEF SetShaderCapability, DialectTypes
  <2>2. CASE UNCHANGED <<version, capabilities>>
    BY <2>2 DEF DialectTypes
  <2> QED BY <2>1, <2>2 DEF DialectNext, Declare, Qualify, DeclareUniform, NameFixed, CallTexture
<1> QED BY <1>1, <1>2, PTL DEF DialectSpec

LEMMA TypesGive ==
  ASSUME DialectAssumption, DialectTypes PROVE version \in Nat /\ capabilities \in Int
BY DEF DialectAssumption, DialectTypes

\* A variable's storage and interpolation are in the version's GLSL.
LEMMA DeclareFits ==
  ASSUME DialectAssumption, DialectTypes, Declare
  PROVE  NoWordTooNew'
<1>1. PICK stage \in Stages, in \in BOOLEAN, flat \in {"flat", "none"} :
        \E newer \in SourceNewer(Max({Since(stage, in), IF flat = "flat" THEN 130 ELSE 110})) :
          Writes([word |-> Storage(stage, in), for |-> "variable", with |-> capabilities,
                  newer |-> newer, stage |-> stage, in |-> in, asked |-> flat,
                  interpolation |-> Interpolation(flat)])
  BY DEF Declare
<1>2. /\ written'.word = Storage(stage, in) /\ written'.for = "variable"
      /\ written'.interpolation = Interpolation(flat)
  BY <1>1 DEF Writes
<1>3. version \in Nat /\ capabilities \in Int /\ version' = version
  BY TypesGive DEF Declare
<1>4. Storage(stage, in) \in {"in", "out"} => version >= 320
  BY <1>3, EffectiveBits DEF Storage
<1>5. Interpolation(flat) # "none" => version >= 300
  BY <1>3, EffectiveBits DEF Interpolation
<1>6. WordSince(written)' = IF \/ Storage(stage, in) \in {"in", "out"}
                               \/ Interpolation(flat) # "none" THEN 130 ELSE 0
  BY <1>2 DEF WordSince
<1>7. ~(WordSince(written)' > version')
  BY <1>3, <1>4, <1>5, <1>6
<1> QED BY <1>7 DEF NoWordTooNew

\* A block is the client's wish.
LEMMA UniformFits ==
  ASSUME DialectAssumption, DialectTypes, DeclareUniform
  PROVE  NoWordTooNew'
<1>1. /\ written' = [word |-> IF Has(Effective, UNIFORM_BLOCK) THEN "block" ELSE "uniform",
                     for |-> "uniform", with |-> capabilities]
      /\ version' = version
  BY DEF DeclareUniform, Writes
<1>2. /\ written'.word = IF Has(Effective, UNIFORM_BLOCK) THEN "block" ELSE "uniform"
      /\ written'.for = "uniform" /\ written'.with = capabilities
  BY <1>1
<1>3. version \in Nat /\ capabilities \in Int
  BY TypesGive
<1>4. CASE Has(capabilities, UNIFORM_BLOCK)
  BY <1>2, <1>4 DEF NoWordTooNew, Asked
<1>5. CASE ~Has(capabilities, UNIFORM_BLOCK)
  <2>1. written'.word = "uniform"
    BY <1>2, <1>3, <1>5, EffectiveBits
  <2>2. WordSince(written)' = 0
    BY <1>2, <2>1 DEF WordSince
  <2> QED BY <1>1, <1>3, <2>2 DEF NoWordTooNew
<1> QED BY <1>4, <1>5

\* A fixed word is as old as the source.
LEMMA FixedFits ==
  ASSUME DialectAssumption, DialectTypes, NameFixed
  PROVE  NoWordTooNew'
<1>1. PICK w \in DOMAIN FixedSince : \E newer \in SourceNewer(FixedSince[w]) :
        Writes([word |-> w, for |-> "fixed", with |-> capabilities, newer |-> newer])
  BY DEF NameFixed
<1>2. PICK newer \in SourceNewer(FixedSince[w]) :
        written' = [word |-> w, for |-> "fixed", with |-> capabilities, newer |-> newer]
  BY <1>1 DEF Writes
<1>3. written'.word = w /\ written'.for = "fixed" /\ written'.newer = newer
  BY <1>2
<1>4. version \in Nat /\ capabilities \in Int /\ version' = version
  BY TypesGive DEF NameFixed
<1>5. WordSince(written)' = FixedSince[w]
  BY <1>3 DEF WordSince
<1>6. FixedSince[w] \in Nat
  BY DEF FixedSince
<1>7. newer \in BOOLEAN /\ (FixedSince[w] > version => newer = TRUE)
  BY <1>2, <1>4, <1>6, NewerSource, Zenon
<1> QED BY <1>3, <1>4, <1>5, <1>7 DEF NoWordTooNew

\* A texture function is in the version's GLSL, but for textureGather.
LEMMA CallFits ==
  ASSUME DialectAssumption, DialectTypes, CallTexture
  PROVE  NoWordTooNew'
<1>1. PICK op \in Basic \cup Newer, dim \in Dims, shadow \in BOOLEAN,
          arrayed \in BOOLEAN, isSymbol \in BOOLEAN :
        \E newer \in SourceNewer(CallSince(op, dim, shadow, arrayed)) :
          Writes([word |-> TextureFunction(op, dim, shadow, isSymbol), for |-> "call",
                  with |-> capabilities, newer |-> newer, op |-> op, dim |-> dim,
                  shadow |-> shadow, arrayed |-> arrayed, symbol |-> isSymbol])
  BY DEF CallTexture
<1>2. PICK newer \in SourceNewer(CallSince(op, dim, shadow, arrayed)) :
        written' = [word |-> TextureFunction(op, dim, shadow, isSymbol), for |-> "call",
                    with |-> capabilities, newer |-> newer, op |-> op, dim |-> dim,
                    shadow |-> shadow, arrayed |-> arrayed, symbol |-> isSymbol]
  BY <1>1 DEF Writes
<1>3. /\ written'.word = TextureFunction(op, dim, shadow, isSymbol) /\ written'.for = "call"
      /\ written'.newer = newer /\ written'.op = op
  BY <1>2
<1>4. version \in Nat /\ capabilities \in Int /\ version' = version
  BY TypesGive DEF CallTexture
<1>5. WordSince(written)' =
        IF written'.word[2] # "" THEN 0
        ELSE IF written'.word[1] = "textureGather" THEN 400
        ELSE IF written'.word[1] = "" THEN 0 ELSE 130
  BY <1>3 DEF WordSince
<1>6. CASE ~isSymbol
  <2>1. written'.word = <<"", "", "">>
    BY <1>3, <1>6 DEF TextureFunction
  <2>2. <<"", "", "">>[1] = "" /\ <<"", "", "">>[2] = ""
    OBVIOUS
  <2>3. written'.word[1] = "" /\ written'.word[2] = ""
    BY <2>1, <2>2, Zenon
  <2>4. WordSince(written)' = 0
    BY <1>5, <2>3
  <2> QED BY <1>4, <2>4 DEF NoWordTooNew
<1>7. CASE isSymbol /\ Has(Effective, GLSL130)
  <2>1. written'.word = <<op, "", "">>
    BY <1>3, <1>7 DEF TextureFunction, NewName
  <2>2. <<op, "", "">>[1] = op /\ <<op, "", "">>[2] = ""
    OBVIOUS
  <2>3. written'.word[1] = op /\ written'.word[2] = ""
    BY <2>1, <2>2, Zenon
  <2>4. version >= 300
    BY <1>4, <1>7, EffectiveBits
  <2>5. CASE op = "textureGather"
    <3>1. WordSince(written)' = 400
      BY <1>5, <2>3, <2>5
    <3>2. newer \in SourceNewer(400)
      BY <2>5 DEF CallSince
    <3>3. 400 \in Nat
      OBVIOUS
    <3>4. newer \in BOOLEAN /\ (400 > version => newer = TRUE)
      BY <1>4, <3>2, <3>3, NewerSource, Zenon
    <3> QED BY <1>3, <1>4, <2>5, <3>1, <3>4 DEF NoWordTooNew
  <2>6. CASE op # "textureGather"
    <3>1. WordSince(written)' \in {0, 130}
      BY <1>5, <2>3, <2>6
    <3>2. ~(WordSince(written)' > version')
      BY <1>4, <2>4, <3>1
    <3> QED BY <3>2 DEF NoWordTooNew
  <2> QED BY <2>5, <2>6
<1>8. CASE isSymbol /\ ~Has(Effective, GLSL130)
  <2>1. written'.word = OldName(op, dim, shadow)
    BY <1>3, <1>8 DEF TextureFunction
  <2> DEFINE head == IF shadow /\ dim \in {"1D", "2D"} THEN "shadow" ELSE "texture"
  <2>2. written'.word = <<"", "", "">> \/ written'.word = <<head, dim, Suffix[op]>>
    BY <2>1 DEF OldName
  <2>3. dim # ""
    BY DEF Dims
  <2>4. ASSUME written'.word = <<"", "", "">> PROVE WordSince(written)' = 0
    <3>1. <<"", "", "">>[1] = "" /\ <<"", "", "">>[2] = ""
      OBVIOUS
    <3>2. written'.word[1] = "" /\ written'.word[2] = ""
      BY <2>4, <3>1, Zenon
    <3> QED BY <1>5, <3>2
  <2>5. ASSUME written'.word = <<head, dim, Suffix[op]>> PROVE WordSince(written)' = 0
    <3>1. <<head, dim, Suffix[op]>>[2] = dim
      OBVIOUS
    <3>2. written'.word[2] = dim
      BY <2>5, <3>1, Zenon
    <3> QED BY <1>5, <2>3, <3>2
  <2>6. WordSince(written)' = 0
    BY <2>2, <2>4, <2>5
  <2> QED BY <1>4, <2>6 DEF NoWordTooNew
<1> QED BY <1>6, <1>7, <1>8

\* A qualifier newer than the text is written only for a source newer than it.
LEMMA QualifyFits ==
  ASSUME DialectAssumption, DialectTypes, Qualify
  PROVE  NoWordTooNew'
<1>1. PICK asked \in SUBSET DOMAIN QualifierSince :
        \E newer \in SourceNewer(Max({110} \cup {QualifierSince[q] : q \in asked})) :
          Writes([word |-> QualifierWords(asked), for |-> "qualifiers", with |-> capabilities,
                  newer |-> newer, asked |-> asked])
  BY DEF Qualify
<1> DEFINE wanted == {110} \cup {QualifierSince[q] : q \in asked}
           found  == {"invariant", "centroid", "flat", "sample"} \cap WordsOf(QualifierWords(asked))
           dated  == {0} \cup {QualifierSince[q] : q \in found}
<1>2. PICK newer \in SourceNewer(Max(wanted)) :
        written' = [word |-> QualifierWords(asked), for |-> "qualifiers", with |-> capabilities,
                    newer |-> newer, asked |-> asked]
  BY <1>1 DEF Writes
<1>3. /\ written'.word = QualifierWords(asked) /\ written'.for = "qualifiers"
      /\ written'.newer = newer /\ written'.asked = asked
  BY <1>2
<1>4. version \in Nat /\ capabilities \in Int /\ version' = version
  BY TypesGive DEF Qualify
<1>5. WordSince(written)' = Max(dated)
  BY <1>3 DEF WordSince, WordsOf
<1>6. \A q \in DOMAIN QualifierSince : QualifierSince[q] \in {120, 130, 400}
  BY DEF QualifierSince
<1>7. wanted \subseteq {0, 110, 120, 130, 150, 400} /\ wanted # {}
  BY <1>6
<1>8. Max(wanted) \in wanted /\ \A x \in wanted : x <= Max(wanted)
  BY <1>7, LargestVersion
<1>9. found \subseteq DOMAIN QualifierSince
  BY DEF QualifierSince
<1>10. dated \subseteq {0, 110, 120, 130, 150, 400} /\ dated # {}
  BY <1>6, <1>9
<1>11. Max(dated) \in dated
  BY <1>10, LargestVersion
<1>12. SUFFICES ASSUME Max(dated) > version PROVE NoWordTooNew'
  <2>1. WordSince(written)' > version' <=> Max(dated) > version
    BY <1>4, <1>5
  <2> QED BY <2>1 DEF NoWordTooNew
<1>13. Max(dated) # 0
  BY <1>4, <1>12
<1>14. PICK q \in found : Max(dated) = QualifierSince[q]
  BY <1>11, <1>13
<1>15. QualifierSince[q] > version
  BY <1>12, <1>14
<1>16. q # "flat"
  <2>1. ASSUME q = "flat" PROVE FALSE
    <3>1. version >= 300
      BY <1>4, <2>1, WordsWritten
    <3>2. QualifierSince[q] = 130
      BY <2>1 DEF QualifierSince
    <3> QED BY <1>4, <1>15, <3>1, <3>2
  <2> QED BY <2>1
<1>17. q \in asked \ {"flat", "precise"}
  BY <1>4, <1>16, WordsWritten
<1>18. Max(wanted) > version
  <2>1. QualifierSince[q] \in wanted
    BY <1>17
  <2>2. QualifierSince[q] <= Max(wanted) /\ QualifierSince[q] \in Nat /\ Max(wanted) \in Nat
    BY <1>6, <1>7, <1>8, <1>17, <2>1
  <2> QED BY <1>4, <1>15, <2>2
<1>19. newer = TRUE
  <2>1. Max(wanted) \in Nat
    BY <1>7, <1>8
  <2> HIDE DEF wanted
  <2>2. newer \in BOOLEAN /\ (Max(wanted) > version => newer = TRUE)
    BY <1>2, <1>4, <2>1, NewerSource, Zenon
  <2> QED BY <1>18, <2>2
<1> HIDE DEF wanted, found, dated
<1>20. written'.for = "qualifiers" /\ written'.newer
  BY <1>3, <1>19
<1>21. \E r \in written'.asked \ {"flat", "precise"} : QualifierSince[r] > version'
  BY <1>3, <1>4, <1>15, <1>17
<1> QED BY <1>20, <1>21 DEF NoWordTooNew

LEMMA NothingWordedIsOld ==
  ASSUME DialectAssumption, DialectInit PROVE NoWordTooNew
<1>1. written.for = "nothing" /\ version \in Nat
  BY DEF DialectInit, Nothing, DialectAssumption
<1>2. WordSince(written) = 0
  BY <1>1 DEF WordSince
<1> QED BY <1>1, <1>2 DEF NoWordTooNew

\* A text stays as it was written.
LEMMA WrittenStays ==
  ASSUME version' = version, written' = written
  PROVE  /\ NoWordTooNew => NoWordTooNew'
         /\ OldWordsMean => OldWordsMean'
         /\ QualifiersRead => QualifiersRead'
<1>1. NoWordTooNew => NoWordTooNew'
  BY DEF NoWordTooNew, WordSince, Asked
<1>2. OldWordsMean => OldWordsMean'
  BY DEF OldWordsMean, Asked
<1>3. QualifiersRead => QualifiersRead'
  BY DEF QualifiersRead, Asked
<1> QED BY <1>1, <1>2, <1>3

(* Whatever versions and capabilities there are, whatever a client sets and  *)
(* however new a source is, the storage, the interpolation and the texture   *)
(* functions a text is given are no newer than its #version but for          *)
(* textureGather and the blocks a client asks for, and what else is newer,   *)
(* of the words modelled, comes from a newer source (compile,                *)
(* ShaderCompiler::setShaderCapability, EmitterTraverser::emitQualifier,     *)
(* getOriginTextureFunction).                                               *)
THEOREM WordsAreOldEnough == ASSUME DialectAssumption PROVE DialectSpec => []NoWordTooNew
<1>1. DialectInit => NoWordTooNew
  BY NothingWordedIsOld
<1>2. DialectTypes /\ NoWordTooNew /\ [DialectNext]_<<version, capabilities, written>>
        => NoWordTooNew'
  <2> SUFFICES ASSUME DialectTypes, NoWordTooNew,
                      [DialectNext]_<<version, capabilities, written>>
               PROVE  NoWordTooNew'
    OBVIOUS
  <2>1. CASE SetShaderCapability \/ UNCHANGED <<version, capabilities, written>>
    <3>1. version' = version /\ written' = written
      BY <2>1 DEF SetShaderCapability
    <3> QED BY <3>1, WrittenStays
  <2>2. CASE Declare BY <2>2, DeclareFits
  <2>3. CASE Qualify BY <2>3, QualifyFits
  <2>4. CASE DeclareUniform BY <2>4, UniformFits
  <2>5. CASE NameFixed BY <2>5, FixedFits
  <2>6. CASE CallTexture BY <2>6, CallFits
  <2> QED BY <2>1, <2>2, <2>3, <2>4, <2>5, <2>6 DEF DialectNext
<1> QED BY <1>1, <1>2, DialectTypesHold, PTL DEF DialectSpec

-----------------------------------------------------------------------------
(* What old words mean.                                                    *)

LEMMA DeclareMeans ==
  ASSUME DialectAssumption, DialectTypes, Declare
  PROVE  OldWordsMean'
<1>1. PICK stage \in Stages, in \in BOOLEAN, flat \in {"flat", "none"} :
        \E newer \in SourceNewer(Max({Since(stage, in), IF flat = "flat" THEN 130 ELSE 110})) :
          Writes([word |-> Storage(stage, in), for |-> "variable", with |-> capabilities,
                  newer |-> newer, stage |-> stage, in |-> in, asked |-> flat,
                  interpolation |-> Interpolation(flat)])
  BY DEF Declare
<1>2. /\ written'.word = Storage(stage, in) /\ written'.for = "variable"
      /\ written'.with = capabilities /\ written'.stage = stage /\ written'.in = in
      /\ written'.asked = flat /\ written'.interpolation = Interpolation(flat)
  BY <1>1 DEF Writes
<1>3. version \in Nat /\ capabilities \in Int /\ version' = version
  BY TypesGive DEF Declare
<1>4. written'.word = "attribute" => written'.stage = "vertex" /\ written'.in
  BY <1>2 DEF Storage
<1>5. written'.word = "varying" => version < 320 \/ ~Has(capabilities, GLSL150)
  <2>1. written'.word = "varying" => ~Has(Effective, GLSL150)
    BY <1>2 DEF Storage
  <2>2. ~(version >= 320) => version < 320
    BY <1>3
  <2> QED BY <1>3, <2>1, <2>2, EffectiveBits
<1>6. written'.interpolation # written'.asked => version < 300 \/ ~Has(capabilities, GLSL130)
  <2>1. written'.interpolation # written'.asked => ~Has(Effective, GLSL130)
    BY <1>2 DEF Interpolation
  <2>2. ~(version >= 300) => version < 300
    BY <1>3
  <2> QED BY <1>3, <2>1, <2>2, EffectiveBits
<1> QED BY <1>2, <1>3, <1>4, <1>5, <1>6 DEF OldWordsMean, Asked

LEMMA CallMeans ==
  ASSUME DialectAssumption, DialectTypes, CallTexture
  PROVE  OldWordsMean'
<1>1. PICK op \in Basic \cup Newer, dim \in Dims, shadow \in BOOLEAN,
          arrayed \in BOOLEAN, isSymbol \in BOOLEAN :
        /\ shadow => dim \in ShadowDims
        /\ \E newer \in SourceNewer(CallSince(op, dim, shadow, arrayed)) :
             Writes([word |-> TextureFunction(op, dim, shadow, isSymbol), for |-> "call",
                     with |-> capabilities, newer |-> newer, op |-> op, dim |-> dim,
                     shadow |-> shadow, arrayed |-> arrayed, symbol |-> isSymbol])
  BY DEF CallTexture
<1>2. /\ written'.word = TextureFunction(op, dim, shadow, isSymbol) /\ written'.for = "call"
      /\ written'.with = capabilities /\ written'.op = op /\ written'.dim = dim
      /\ written'.shadow = shadow /\ written'.symbol = isSymbol /\ written'.arrayed = arrayed
  BY <1>1 DEF Writes
<1>3. version \in Nat /\ capabilities \in Int /\ version' = version
  BY TypesGive DEF CallTexture
<1>4. SUFFICES ASSUME written'.word # NewName(op)
      PROVE  \/ /\ written'.word[1] = ""
                /\ isSymbol => version < 300 \/ ~Has(capabilities, GLSL130)
             \/ arrayed /\ (version < 300 \/ ~Has(capabilities, GLSL130))
             \/ /\ written'.word[2] = dim /\ ~arrayed
                /\ written'.word[1] = "shadow" <=> (shadow /\ dim # "Cube")
                /\ op \in Basic /\ written'.word[3] = Suffix[op]
  BY <1>2, <1>3 DEF OldWordsMean, Asked
<1>5. isSymbol => version < 300 \/ ~Has(capabilities, GLSL130)
  <2>1. isSymbol => ~Has(Effective, GLSL130)
    BY <1>2, <1>4 DEF TextureFunction
  <2>2. ~(version >= 300) => version < 300
    BY <1>3
  <2> QED BY <1>3, <2>1, <2>2, EffectiveBits
<1> DEFINE head == IF shadow /\ dim \in {"1D", "2D"} THEN "shadow" ELSE "texture"
           none == \/ op \notin Basic \/ dim = "Rect"
                   \/ dim = "Cube" /\ op \in {"textureProj", "textureProjLod"}
<1>6. CASE ~isSymbol \/ none
  <2>1. written'.word = <<"", "", "">>
    BY <1>2, <1>4, <1>6 DEF TextureFunction, OldName
  <2>2. <<"", "", "">>[1] = ""
    OBVIOUS
  <2>3. written'.word[1] = ""
    BY <2>1, <2>2, Zenon
  <2> QED BY <1>5, <2>3
<1>7. CASE isSymbol /\ ~none
  <2>1. written'.word = <<head, dim, Suffix[op]>>
    BY <1>2, <1>4, <1>7 DEF TextureFunction, OldName
  <2>2. /\ <<head, dim, Suffix[op]>>[1] = head /\ <<head, dim, Suffix[op]>>[2] = dim
        /\ <<head, dim, Suffix[op]>>[3] = Suffix[op]
    OBVIOUS
  <2>3. written'.word[1] = head /\ written'.word[2] = dim /\ written'.word[3] = Suffix[op]
    BY <2>1, <2>2, Zenon
  <2>4. head = "shadow" <=> (shadow /\ dim # "Cube")
    BY <1>1, <1>7 DEF ShadowDims
  <2> HIDE DEF head
  <2> QED BY <1>5, <1>7, <2>3, <2>4
<1> QED BY <1>6, <1>7

(* Whatever versions and capabilities there are, what an old text calls a    *)
(* texture function, a storage or an interpolation is what the source means  *)
(* by it, or is missing or ignores that its sampler is of an array, as       *)
(* OldWordsMean says, only where the version or the client's capabilities    *)
(* leave no word (getOriginTextureFunction,                                  *)
(* EmitterTraverser::emitQualifier, compile).                               *)
THEOREM OldWordsAreMeant == ASSUME DialectAssumption PROVE DialectSpec => []OldWordsMean
<1>1. DialectInit => OldWordsMean
  BY DEF DialectInit, Nothing, OldWordsMean
<1>2. DialectTypes /\ OldWordsMean /\ [DialectNext]_<<version, capabilities, written>>
        => OldWordsMean'
  <2> SUFFICES ASSUME DialectTypes, OldWordsMean,
                      [DialectNext]_<<version, capabilities, written>>
               PROVE  OldWordsMean'
    OBVIOUS
  <2>1. CASE SetShaderCapability \/ UNCHANGED <<version, capabilities, written>>
    <3>1. version' = version /\ written' = written
      BY <2>1 DEF SetShaderCapability
    <3> QED BY <3>1, WrittenStays
  <2>2. CASE Declare BY <2>2, DeclareMeans
  <2>3. CASE Qualify
    <3>1. written'.for = "qualifiers"
      BY <2>3 DEF Qualify, Writes
    <3> QED BY <3>1 DEF OldWordsMean
  <2>4. CASE DeclareUniform
    <3>1. written'.for = "uniform"
      BY <2>4 DEF DeclareUniform, Writes
    <3> QED BY <3>1 DEF OldWordsMean
  <2>5. CASE NameFixed
    <3>1. written'.for = "fixed"
      BY <2>5 DEF NameFixed, Writes
    <3> QED BY <3>1 DEF OldWordsMean
  <2>6. CASE CallTexture BY <2>6, CallMeans
  <2> QED BY <2>1, <2>2, <2>3, <2>4, <2>5, <2>6 DEF DialectNext
<1> QED BY <1>1, <1>2, DialectTypesHold, PTL DEF DialectSpec

-----------------------------------------------------------------------------
(* The order of a variable's qualifiers.                                   *)

LEMMA QualifyReads ==
  ASSUME DialectAssumption, DialectTypes, Qualify
  PROVE  QualifiersRead'
<1>1. PICK asked \in SUBSET DOMAIN QualifierSince :
        \E newer \in SourceNewer(Max({110} \cup {QualifierSince[q] : q \in asked})) :
          Writes([word |-> QualifierWords(asked), for |-> "qualifiers", with |-> capabilities,
                  newer |-> newer, asked |-> asked])
  BY DEF Qualify
<1>2. /\ written'.word = QualifierWords(asked) /\ written'.for = "qualifiers"
      /\ written'.with = capabilities /\ written'.asked = asked
  BY <1>1 DEF Writes
<1>3. version \in Nat /\ capabilities \in Int /\ version' = version
  BY TypesGive DEF Qualify
<1> DEFINE place == [invariant |-> 1, flat |-> 2, centroid |-> 3, sample |-> 3]
           words == QualifierWords(asked)
           known == \A i \in DOMAIN words : words[i] \in DOMAIN place
           order == \A i, j \in DOMAIN words :
                      version < 420 /\ i < j => place[words[i]] <= place[words[j]]
           mixed == /\ {"centroid", "flat"} \subseteq asked /\ version \in 300 .. 419
                    /\ Has(capabilities, GLSL130)
<1>4. /\ words \in Seq(Word)
      /\ \A i, j \in DOMAIN words : i < j => Rank(words[i]) < Rank(words[j])
  BY <1>3, WordsWritten DEF Ranked
<1>5. \A i \in DOMAIN words : words[i] \in Word
  BY <1>4
<1>6. DOMAIN words \subseteq Nat
  BY <1>4
<1>7. known <=> "precise" \notin asked
  <2>1. \A w \in Word : w \in DOMAIN place <=> w # "noContraction"
    BY DEF Word
  <2>2. known <=> \A i \in DOMAIN words : words[i] # "noContraction"
    BY <1>5, <2>1
  <2>3. "noContraction" \in WordsOf(words) <=> "precise" \in asked
    BY <1>3, WordsWritten
  <2>4. "noContraction" \in WordsOf(words) <=> \E i \in DOMAIN words : words[i] = "noContraction"
    BY DEF WordsOf
  <2> QED BY <2>2, <2>3, <2>4
<1>8. mixed <=> /\ "centroid" \in WordsOf(words) /\ "flat" \in WordsOf(words)
                /\ version < 420
  <2>1. "centroid" \in WordsOf(words) <=> "centroid" \in asked
    BY <1>3, WordsWritten
  <2>2. "flat" \in WordsOf(words) <=>
          "flat" \in asked /\ Has(capabilities, GLSL130) /\ version >= 300
    BY <1>3, WordsWritten
  <2>3. version \in 300 .. 419 <=> version >= 300 /\ version < 420
    BY <1>3
  <2> QED BY <2>1, <2>2, <2>3
<1>9. ASSUME mixed PROVE ~order
  <2>1. PICK i \in DOMAIN words : words[i] = "centroid"
    BY <1>8, <1>9 DEF WordsOf
  <2>2. PICK j \in DOMAIN words : words[j] = "flat"
    BY <1>8, <1>9 DEF WordsOf
  <2>3. Rank(words[i]) = 3 /\ Rank(words[j]) = 4
    BY <2>1, <2>2 DEF Rank
  <2>4. ~(j < i)
    BY <1>4, <2>3
  <2>5. i # j
    BY <2>1, <2>2
  <2>6. i < j
    BY <1>6, <2>4, <2>5
  <2>7. place[words[i]] = 3 /\ place[words[j]] = 2
    BY <2>1, <2>2
  <2>8. version < 420 /\ ~(place[words[i]] <= place[words[j]])
    BY <1>8, <1>9, <2>7
  <2> QED BY <2>6, <2>8
<1>10. ASSUME known, ~mixed PROVE order
  <2>1. SUFFICES ASSUME NEW i \in DOMAIN words, NEW j \in DOMAIN words, version < 420, i < j
                 PROVE  place[words[i]] <= place[words[j]]
    OBVIOUS
  <2>2. Rank(words[i]) < Rank(words[j])
    BY <1>4, <2>1
  <2>3. words[i] \in DOMAIN place /\ words[j] \in DOMAIN place
    BY <1>10
  <2>4. ~(words[i] = "centroid" /\ words[j] = "flat")
    BY <1>8, <1>10, <2>1 DEF WordsOf
  <2>5. \A v, w \in DOMAIN place : Rank(v) < Rank(w) /\ ~(v = "centroid" /\ w = "flat")
                                     => place[v] <= place[w]
    BY DEF Rank
  <2> HIDE DEF place, words
  <2> QED BY <2>2, <2>3, <2>4, <2>5
<1> HIDE DEF mixed
<1>11. known /\ order <=> "precise" \notin asked /\ ~mixed
  BY <1>7, <1>9, <1>10
<1> USE DEF mixed
<1> QED BY <1>2, <1>3, <1>11 DEF QualifiersRead, Asked

(* Whatever versions and capabilities there are, the qualifiers written      *)
(* before a variable are GLSL's words in GLSL's order exactly unless the     *)
(* source asks for precise, or for centroid with an interpolation that the   *)
(* text has (EmitterTraverser::emitQualifier).                              *)
THEOREM QualifiersAreRead == ASSUME DialectAssumption PROVE DialectSpec => []QualifiersRead
<1>1. DialectInit => QualifiersRead
  BY DEF DialectInit, Nothing, QualifiersRead
<1>2. DialectTypes /\ QualifiersRead /\ [DialectNext]_<<version, capabilities, written>>
        => QualifiersRead'
  <2> SUFFICES ASSUME DialectTypes, QualifiersRead,
                      [DialectNext]_<<version, capabilities, written>>
               PROVE  QualifiersRead'
    OBVIOUS
  <2>1. CASE SetShaderCapability \/ UNCHANGED <<version, capabilities, written>>
    <3>1. version' = version /\ written' = written
      BY <2>1 DEF SetShaderCapability
    <3> QED BY <3>1, WrittenStays
  <2>2. CASE Declare
    <3>1. written'.for = "variable"
      BY <2>2 DEF Declare, Writes
    <3> QED BY <3>1 DEF QualifiersRead
  <2>3. CASE Qualify BY <2>3, QualifyReads
  <2>4. CASE DeclareUniform
    <3>1. written'.for = "uniform"
      BY <2>4 DEF DeclareUniform, Writes
    <3> QED BY <3>1 DEF QualifiersRead
  <2>5. CASE CallTexture
    <3>1. written'.for = "call"
      BY <2>5 DEF CallTexture, Writes
    <3> QED BY <3>1 DEF QualifiersRead
  <2>6. CASE NameFixed
    <3>1. written'.for = "fixed"
      BY <2>6 DEF NameFixed, Writes
    <3> QED BY <3>1 DEF QualifiersRead
  <2> QED BY <2>1, <2>2, <2>3, <2>4, <2>5, <2>6 DEF DialectNext
<1> QED BY <1>1, <1>2, DialectTypesHold, PTL DEF DialectSpec

-----------------------------------------------------------------------------
(* What every source has.                                                  *)

IsPair(e) == e = <<e[1], e[2]>> /\ e[2] \in BOOLEAN

\* A declaration's kind tells whose name it has.
Shaped(d) ==
  /\ IsPair(d.is)
  /\ \/ d.kind \in {"variable", "initialised"} /\ d.is[1] \in Globals
     \/ d.kind = "uniform" /\ d.is[1] \in Uniforms /\ d.is[2] = FALSE
     \/ d.kind \in {"uniform", "buffer", "anonymous"} /\ d.is[1] \in Blocks
     \/ d.kind \in {"prototype", "function"} /\ d.is[1] \in Functions /\ d.is[2] = FALSE
  /\ d.uses # {} => d.kind \in {"initialised", "function"}

\* Only a prototype and its function have one name.
Distinct(d, e) ==
  d.is[1] = e.is[1] => /\ d.kind \in {"prototype", "function"} /\ e.kind \in {"prototype", "function"}
                       /\ ~(d.kind = "function" /\ e.kind = "function")

SourceInv ==
  /\ inBlocks \in BOOLEAN /\ supplied \subseteq Uniforms
  /\ unit \in Seq({unit[i] : i \in DOMAIN unit})
  /\ \A i \in DOMAIN unit : Shaped(unit[i]) /\ unit[i].uses \subseteq Known
  /\ \A i, j \in DOMAIN unit : i # j => Distinct(unit[i], unit[j])
  /\ Initialisers # {} => \E i \in Initialisers : IsInitSeq(i)

\* One more declaration, of a name the source has not, or a function's, keeps that.
LEMMA DeclareKeeps ==
  ASSUME SourceInv, NEW kind, NEW is, NEW uses, DeclareAs(kind, is, uses),
         Shaped([kind |-> kind, is |-> is, uses |-> uses]), uses \subseteq Known,
         \A i \in DOMAIN unit :
           unit[i].is[1] = is[1] => /\ unit[i].kind \in {"prototype", "function"}
                                    /\ kind \in {"prototype", "function"}
                                    /\ ~(unit[i].kind = "function" /\ kind = "function")
  PROVE  SourceInv'
<1> DEFINE d == [kind |-> kind, is |-> is, uses |-> uses]
           n == Len(unit) + 1
           S == {unit[i] : i \in DOMAIN unit} \cup {d}
<1>1. unit' = Append(unit, d) /\ UNCHANGED <<inBlocks, supplied>>
  BY DEF DeclareAs
<1>2. d.kind = kind /\ d.is = is /\ d.uses = uses
  OBVIOUS
<1>3. Shaped(d)
  OBVIOUS
<1> HIDE DEF d
<1>4. unit \in Seq(S) /\ d \in S
  BY DEF SourceInv
<1> HIDE DEF S
<1>5. /\ unit' \in Seq(S) /\ Len(unit) \in Nat /\ Len(unit') = n
      /\ DOMAIN unit = 1 .. Len(unit) /\ DOMAIN unit' = 1 .. n
      /\ \A i \in 1 .. Len(unit) : unit'[i] = unit[i]
      /\ unit'[n] = d
  BY <1>1, <1>4
<1>6. n \in DOMAIN unit' /\ \A i \in DOMAIN unit' : i = n \/ (i \in DOMAIN unit /\ i < n)
  BY <1>5
<1>7. \A i \in DOMAIN unit : i \in DOMAIN unit' /\ unit'[i] = unit[i] /\ i # n
  BY <1>5
<1> HIDE DEF n
<1>8. unit' \in Seq({unit'[i] : i \in DOMAIN unit'})
  BY <1>5
<1>9. Known \subseteq Known'
  BY <1>7 DEF Known
<1>10. ASSUME NEW i \in DOMAIN unit' PROVE Shaped(unit'[i]) /\ unit'[i].uses \subseteq Known'
  <2>1. CASE i = n
    BY <1>2, <1>3, <1>5, <1>9, <2>1
  <2>2. CASE i \in DOMAIN unit
    BY <1>7, <1>9, <2>2 DEF SourceInv
  <2> QED BY <1>6, <2>1, <2>2
<1>11. ASSUME NEW i \in DOMAIN unit', NEW j \in DOMAIN unit', i # j
       PROVE  Distinct(unit'[i], unit'[j])
  <2>1. CASE i = n
    <3>1. j \in DOMAIN unit /\ unit'[j] = unit[j]
      BY <1>6, <1>7, <1>11, <2>1
    <3> QED BY <1>2, <1>5, <2>1, <3>1 DEF Distinct
  <2>2. CASE j = n
    <3>1. i \in DOMAIN unit /\ unit'[i] = unit[i]
      BY <1>6, <1>7, <1>11, <2>2
    <3> QED BY <1>2, <1>5, <2>2, <3>1 DEF Distinct
  <2>3. CASE i \in DOMAIN unit /\ j \in DOMAIN unit
    BY <1>7, <1>11, <2>3 DEF SourceInv
  <2> QED BY <1>6, <2>1, <2>2, <2>3
<1>12. Initialisers' = Initialisers \cup IF kind = "initialised" THEN {n} ELSE {}
  <2>1. \A i : i \in Initialisers' <=> i \in Initialisers \/ (i = n /\ kind = "initialised")
    BY <1>2, <1>5, <1>6, <1>7 DEF Initialisers, Those
  <2> QED BY <2>1
<1>13. Initialisers' # {} => \E i \in Initialisers' : IsInitSeq(i)'
  <2>1. Initialisers \subseteq DOMAIN unit /\ DOMAIN unit \subseteq Nat /\ n \in Nat
    BY <1>5 DEF Initialisers, Those, n
  <2>2. CASE kind = "initialised"
    <3>1. \A j \in Initialisers' : j <= n
      BY <1>5, <1>12, <2>1 DEF n
    <3> QED BY <1>12, <2>2, <3>1 DEF IsInitSeq
  <2>3. CASE kind # "initialised"
    <3>1. Initialisers' = Initialisers
      BY <1>12, <2>3
    <3> QED BY <3>1 DEF SourceInv, IsInitSeq
  <2> QED BY <2>2, <2>3
<1> QED BY <1>1, <1>8, <1>10, <1>11, <1>13 DEF SourceInv

LEMMA Pairs ==
  ASSUME NEW n, NEW b \in BOOLEAN
  PROVE  IsPair(<<n, b>>) /\ <<n, b>>[1] = n /\ <<n, b>>[2] = b
BY DEF IsPair

\* A name nothing has yet.
LEMMA UnusedName ==
  ASSUME NEW n, ~Named(n) PROVE \A i \in DOMAIN unit : unit[i].is[1] # n
BY DEF Named, Known

LEMMA DeclareOne ==
  ASSUME SourceInv, NEW kind, NEW n, NEW b \in BOOLEAN, NEW uses, DeclareAs(kind, <<n, b>>, uses),
         ~Named(n), uses \subseteq Known, uses # {} => kind \in {"initialised", "function"},
         \/ kind \in {"variable", "initialised"} /\ n \in Globals
         \/ kind = "uniform" /\ n \in Uniforms /\ b = FALSE
         \/ kind \in {"uniform", "buffer", "anonymous"} /\ n \in Blocks
         \/ kind \in {"prototype", "function"} /\ n \in Functions /\ b = FALSE
  PROVE  SourceInv'
<1> DEFINE is == <<n, b>>
           d  == [kind |-> kind, is |-> is, uses |-> uses]
<1>1. IsPair(is) /\ is[1] = n /\ is[2] = b
  BY Pairs
<1>2. DeclareAs(kind, is, uses)
  OBVIOUS
<1> HIDE DEF is
<1>3. d.kind = kind /\ d.is = is /\ d.uses = uses
  OBVIOUS
<1>4. Shaped(d)
  <2> HIDE DEF d
  <2> QED BY <1>1, <1>3 DEF Shaped
<1>5. \A i \in DOMAIN unit : unit[i].is[1] # is[1]
  BY <1>1, UnusedName
<1> QED BY <1>2, <1>4, <1>5, DeclareKeeps

LEMMA UsedKnown == ASSUME NEW uses \in Used PROVE uses \subseteq Known
BY DEF Used

LEMMA SourceInvHolds == ASSUME SectionsAssumption PROVE SectionsSpec => []SourceInv
<1>1. SectionsInit => SourceInv
  <2> SUFFICES ASSUME SectionsInit PROVE SourceInv
    OBVIOUS
  <2>1. unit = <<>> /\ DOMAIN unit = {} /\ inBlocks \in BOOLEAN /\ supplied \subseteq Uniforms
    BY DEF SectionsInit
  <2>2. unit \in Seq({unit[i] : i \in DOMAIN unit})
    BY <2>1
  <2>3. Initialisers = {}
    BY <2>1 DEF Initialisers, Those
  <2> QED BY <2>1, <2>2, <2>3 DEF SourceInv
<1>2. SourceInv /\ [SectionsNext]_<<unit, inBlocks, supplied>> => SourceInv'
  <2> SUFFICES ASSUME SourceInv, [SectionsNext]_<<unit, inBlocks, supplied>> PROVE SourceInv'
    OBVIOUS
  <2>1. CASE DeclareVariable
    <3>1. PICK g \in Globals :
            /\ ~Named(g)
            /\ \/ DeclareAs("variable", <<g, FALSE>>, {})
               \/ \E uses \in Used : DeclareAs("initialised", <<g, FALSE>>, uses)
      BY <2>1 DEF DeclareVariable
    <3>2. CASE DeclareAs("variable", <<g, FALSE>>, {})
      BY <3>1, <3>2, DeclareOne
    <3>3. ASSUME NEW uses \in Used, DeclareAs("initialised", <<g, FALSE>>, uses)
          PROVE  SourceInv'
      BY <3>1, <3>3, UsedKnown, DeclareOne
    <3> QED BY <3>1, <3>2, <3>3
  <2>2. CASE DeclareUniformName
    BY <2>2, DeclareOne DEF DeclareUniformName
  <2>3. CASE DeclareBlock
    BY <2>3, DeclareOne DEF DeclareBlock
  <2>4. CASE DeclarePrototype
    BY <2>4, DeclareOne DEF DeclarePrototype
  <2>5. CASE DefineFunction
    <3>1. PICK f \in Functions, uses \in Used :
            ~Defined(f) /\ DeclareAs("function", <<f, FALSE>>, uses)
      BY <2>5 DEF DefineFunction
    <3> DEFINE is == <<f, FALSE>>
               d  == [kind |-> "function", is |-> is, uses |-> uses]
    <3>2. IsPair(is) /\ is[1] = f /\ is[2] = FALSE /\ DeclareAs("function", is, uses)
      BY <3>1, Pairs
    <3> HIDE DEF is
    <3>3. d.kind = "function" /\ d.is = is /\ d.uses = uses
      OBVIOUS
    <3>4. Shaped(d)
      <4> HIDE DEF d
      <4> QED BY <3>2, <3>3 DEF Shaped
    <3>5. ASSUME NEW i \in DOMAIN unit, unit[i].is[1] = is[1]
          PROVE  unit[i].kind \in {"prototype", "function"} /\ unit[i].kind # "function"
      <4>1. Shaped(unit[i])
        BY DEF SourceInv
      <4>2. unit[i].kind \in {"prototype", "function"}
        BY <3>2, <3>5, <4>1 DEF Shaped, SectionsAssumption
      <4>3. unit[i].kind # "function"
        BY <3>1, <3>2, <3>5 DEF Defined, Those
      <4> QED BY <4>2, <4>3
    <3>6. uses \subseteq Known
      BY UsedKnown
    <3> QED BY <3>2, <3>4, <3>5, <3>6, DeclareKeeps
  <2>6. CASE UNCHANGED <<unit, inBlocks, supplied>>
    BY <2>6 DEF SourceInv, Known, Initialisers, Those, IsInitSeq
  <2> QED BY <2>1, <2>2, <2>3, <2>4, <2>5, <2>6 DEF SectionsNext
<1> QED BY <1>1, <1>2, PTL DEF SectionsSpec

-----------------------------------------------------------------------------
(* What the text declares before a function.                               *)

Given(i) == UNION {m.declares : m \in {k \in Process : Before(k, EmitNode(i))}}

SymbolGives(e) == \E s \in Symbols : e \in EmitSymbol(s).declares
BlockGives(e)  == inBlocks /\ \E u \in supplied : e = <<u, FALSE>>
NodeGives(i, e) == \E t \in Tree : t < i /\ unit[t].is = e

LEMMA SymbolLine ==
  ASSUME NEW s
  PROVE  /\ EmitSymbol(s).section = 1 /\ EmitSymbol(s).uses = {}
         /\ EmitSymbol(s).declares = IF unit[s].kind = "anonymous" THEN {}
                                     ELSE IF unit[s].is[1] \in Blocks
                                     THEN {<<unit[s].is[1], FALSE>>} ELSE {unit[s].is}
BY DEF EmitSymbol, Line

LEMMA NodeLine ==
  ASSUME NEW t
  PROVE  /\ EmitNode(t).section = 3 /\ EmitNode(t).at = t /\ EmitNode(t).declares = {unit[t].is}
         /\ EmitNode(t).uses = UsedBy(t)
         /\ EmitNode(t).of = IF unit[t].kind = "initialised" THEN "loose"
                             ELSE IF unit[t].is[1] = "main" /\ Initialisers # {} THEN "main"
                             ELSE "function"
BY DEF EmitNode, Line

LEMMA BlockLine ==
  ASSUME NEW m \in UniformBlocks
  PROVE  inBlocks /\ m.section = 2 /\ m.uses = {} /\ m.declares = {<<u, FALSE>> : u \in supplied}
<1> DEFINE given == {<<u, FALSE>> : u \in supplied}
<1>1. inBlocks /\ m = Line(2, 0, "block", given, {})
  BY DEF UniformBlocks
<1> HIDE DEF given
<1>2. inBlocks /\ m.section = 2 /\ m.uses = {} /\ m.declares = given
  BY <1>1 DEF Line
<1> QED BY <1>2 DEF given

LEMMA GivenIs ==
  ASSUME NEW i, NEW e
  PROVE  e \in Given(i) <=> SymbolGives(e) \/ BlockGives(e) \/ NodeGives(i, e)
<1>1. EmitNode(i).section = 3 /\ EmitNode(i).at = i
  BY NodeLine
<1>2. ASSUME NEW m \in Process, Before(m, EmitNode(i)), e \in m.declares
      PROVE  SymbolGives(e) \/ BlockGives(e) \/ NodeGives(i, e)
  <2>1. CASE \E s \in Symbols : m = EmitSymbol(s)
    BY <1>2, <2>1 DEF SymbolGives
  <2>2. CASE m \in UniformBlocks
    BY <1>2, <2>2, BlockLine DEF BlockGives
  <2>3. CASE \E t \in Tree : m = EmitNode(t)
    <3>1. PICK t \in Tree : m = EmitNode(t)
      BY <2>3
    <3>2. m.section = 3 /\ m.at = t /\ m.declares = {unit[t].is}
      BY <3>1, NodeLine
    <3>3. t < i
      <4>1. ~(m.section < EmitNode(i).section)
        BY <1>1, <3>2
      <4> QED BY <1>1, <1>2, <3>2, <4>1 DEF Before
    <3> QED BY <1>2, <3>2, <3>3 DEF NodeGives
  <2> QED BY <2>1, <2>2, <2>3 DEF Process
<1>3. ASSUME SymbolGives(e) PROVE e \in Given(i)
  <2>1. PICK s \in Symbols : e \in EmitSymbol(s).declares
    BY <1>3 DEF SymbolGives
  <2>2. EmitSymbol(s) \in Process
    BY DEF Process
  <2>3. EmitSymbol(s).section = 1
    BY SymbolLine
  <2>4. Before(EmitSymbol(s), EmitNode(i))
    BY <1>1, <2>3 DEF Before
  <2> QED BY <2>1, <2>2, <2>4 DEF Given
<1>4. ASSUME BlockGives(e) PROVE e \in Given(i)
  <2>1. PICK m \in UniformBlocks : TRUE
    BY <1>4 DEF BlockGives, UniformBlocks
  <2>2. m.section = 2 /\ e \in m.declares
    BY <1>4, BlockLine DEF BlockGives
  <2>3. Before(m, EmitNode(i))
    BY <1>1, <2>2 DEF Before
  <2> QED BY <2>2, <2>3 DEF Given, Process
<1>5. ASSUME NodeGives(i, e) PROVE e \in Given(i)
  <2>1. PICK t \in Tree : t < i /\ unit[t].is = e
    BY <1>5 DEF NodeGives
  <2>2. EmitNode(t) \in Process
    BY DEF Process
  <2>3. EmitNode(t).section = 3 /\ EmitNode(t).at = t /\ e \in EmitNode(t).declares
    BY <2>1, NodeLine
  <2>4. Before(EmitNode(t), EmitNode(i))
    BY <1>1, <2>1, <2>3 DEF Before
  <2> QED BY <2>2, <2>3, <2>4 DEF Given
<1> QED BY <1>2, <1>3, <1>4, <1>5 DEF Given

\* Only the lines of the tree use anything.
LEMMA Users ==
  Unresolved = UNION {UsedBy(i) \ Given(i) : i \in Tree}
<1>1. ASSUME NEW l \in Process, l.uses # {}
      PROVE  \E i \in Tree : l = EmitNode(i) /\ l.uses = UsedBy(i)
  <2>1. ~(\E s \in Symbols : l = EmitSymbol(s)) /\ l \notin UniformBlocks
    BY <1>1, SymbolLine, BlockLine
  <2>2. PICK t \in Tree : l = EmitNode(t)
    BY <2>1 DEF Process
  <2> QED BY <2>2, NodeLine
<1>2. ASSUME NEW i \in Tree
      PROVE  EmitNode(i) \in Process /\ EmitNode(i).uses = UsedBy(i)
  BY NodeLine DEF Process
<1>3. ASSUME NEW e \in Unresolved
      PROVE  \E i \in Tree : e \in UsedBy(i) \ Given(i)
  <2>1. PICK l \in Process :
          e \in l.uses \ UNION {m.declares : m \in {k \in Process : Before(k, l)}}
    BY DEF Unresolved
  <2>2. PICK i \in Tree : l = EmitNode(i) /\ l.uses = UsedBy(i)
    BY <1>1, <2>1
  <2> QED BY <2>1, <2>2 DEF Given
<1>4. ASSUME NEW i \in Tree, NEW e \in UsedBy(i) \ Given(i)
      PROVE  e \in Unresolved
  <2> DEFINE l == EmitNode(i)
  <2>1. l \in Process /\ e \in l.uses \ UNION {m.declares : m \in {k \in Process : Before(k, l)}}
    BY <1>2 DEF Given
  <2> QED BY <2>1 DEF Unresolved
<1>5. \A e : e \in Unresolved <=> \E i \in Tree : e \in UsedBy(i) \ Given(i)
  BY <1>3, <1>4
<1> QED BY <1>5

-----------------------------------------------------------------------------
(* Names and their declarations.                                           *)

Missing(i, e) ==
  \/ e[1] \in Functions /\ Place(e) >= i
  \/ \E k \in DOMAIN unit : unit[k].is = e /\
       \/ unit[k].kind = "uniform" /\ inBlocks /\ (e[2] \/ e[1] \notin supplied)
       \/ unit[k].kind = "anonymous"
       \/ e[1] \in Blocks /\ e[2]

\* A name that is no function's has one declaration.
LEMMA OneOwner ==
  ASSUME SourceInv, NEW k \in DOMAIN unit, NEW j \in DOMAIN unit,
         unit[j].is[1] = unit[k].is[1], unit[k].kind \notin {"prototype", "function"}
  PROVE  j = k
BY DEF SourceInv, Distinct

\* Which of its own names a symbol declares.
LEMMA OwnSymbol ==
  ASSUME SourceInv, NEW k \in DOMAIN unit, NEW e, e = unit[k].is
  PROVE  e \in EmitSymbol(k).declares <=>
           unit[k].kind # "anonymous" /\ (e[1] \in Blocks => e[2] = FALSE)
<1>1. IsPair(e)
  BY DEF SourceInv, Shaped
<1>2. e = <<e[1], FALSE>> <=> e[2] = FALSE
  <2>1. ASSUME e[2] = FALSE PROVE e = <<e[1], FALSE>>
    BY <1>1, <2>1 DEF IsPair
  <2>2. ASSUME e = <<e[1], FALSE>> PROVE e[2] = FALSE
    <3>1. <<e[1], FALSE>>[2] = FALSE
      OBVIOUS
    <3> QED BY <2>2, <3>1, Zenon
  <2> QED BY <2>1, <2>2
<1>3. CASE unit[k].kind = "anonymous"
  BY <1>3, SymbolLine
<1>4. CASE unit[k].kind # "anonymous" /\ e[1] \in Blocks
  <2>1. EmitSymbol(k).declares = {<<e[1], FALSE>>}
    BY <1>4, SymbolLine
  <2> QED BY <1>2, <1>4, <2>1, Zenon
<1>5. CASE unit[k].kind # "anonymous" /\ e[1] \notin Blocks
  <2>1. EmitSymbol(k).declares = {e}
    BY <1>5, SymbolLine
  <2> QED BY <1>5, <2>1
<1> QED BY <1>3, <1>4, <1>5

\* A symbol declares only names that begin as its own.
LEMMA SymbolOwner ==
  ASSUME SourceInv, NEW e, SymbolGives(e)
  PROVE  \E s \in Symbols : e \in EmitSymbol(s).declares /\ unit[s].is[1] = e[1]
<1>1. PICK s \in Symbols : e \in EmitSymbol(s).declares
  BY DEF SymbolGives
<1>2. e = unit[s].is \/ e = <<unit[s].is[1], FALSE>>
  BY <1>1, SymbolLine
<1>3. <<unit[s].is[1], FALSE>>[1] = unit[s].is[1]
  OBVIOUS
<1>4. unit[s].is[1] = e[1]
  BY <1>2, <1>3, Zenon
<1> QED BY <1>1, <1>4

LEMMA BlockGivesAs ==
  ASSUME NEW e, IsPair(e)
  PROVE  BlockGives(e) <=> inBlocks /\ e[1] \in supplied /\ e[2] = FALSE
<1>1. ASSUME inBlocks, e[1] \in supplied, e[2] = FALSE PROVE BlockGives(e)
  <2>1. e = <<e[1], FALSE>>
    BY <1>1 DEF IsPair
  <2> QED BY <1>1, <2>1 DEF BlockGives
<1>2. ASSUME BlockGives(e) PROVE inBlocks /\ e[1] \in supplied /\ e[2] = FALSE
  <2>1. PICK u \in supplied : e = <<u, FALSE>>
    BY <1>2 DEF BlockGives
  <2>2. <<u, FALSE>>[1] = u /\ <<u, FALSE>>[2] = FALSE
    OBVIOUS
  <2>3. e[1] = u /\ e[2] = FALSE
    BY <2>1, <2>2, Zenon
  <2> QED BY <1>2, <2>3 DEF BlockGives
<1> QED BY <1>1, <1>2

\* A variable, uniform or block is declared in time exactly unless it is missing.
LEMMA DataResolves ==
  ASSUME SectionsAssumption, SourceInv, NEW i, NEW k \in DOMAIN unit, NEW e, e = unit[k].is,
         unit[k].kind \notin {"prototype", "function"}
  PROVE  e \in Given(i) <=> ~Missing(i, e)
<1> DEFINE d == unit[k]
           bad == \/ d.kind = "uniform" /\ inBlocks /\ (e[2] \/ e[1] \notin supplied)
                  \/ d.kind = "anonymous"
                  \/ e[1] \in Blocks /\ e[2]
<1>1. Shaped(d) /\ IsPair(e) /\ e[2] \in BOOLEAN
  BY DEF SourceInv, Shaped, IsPair
<1>2. \/ d.kind \in {"variable", "initialised"} /\ e[1] \in Globals
      \/ d.kind = "uniform" /\ e[1] \in Uniforms /\ e[2] = FALSE
      \/ d.kind \in {"uniform", "buffer", "anonymous"} /\ e[1] \in Blocks
  BY <1>1 DEF Shaped
<1>3. e[1] \notin Functions
  BY <1>2 DEF SectionsAssumption
<1>4. Missing(i, e) <=> bad
  <2>1. \A j \in DOMAIN unit : unit[j].is = e => j = k
    BY OneOwner
  <2> QED BY <1>3, <2>1 DEF Missing
<1>5. k \in Symbols <=> ~(d.kind = "uniform" /\ inBlocks)
  BY <1>2 DEF Symbols, Those, Listed
<1>6. SymbolGives(e) <=> k \in Symbols /\ e \in EmitSymbol(k).declares
  <2>1. ASSUME SymbolGives(e) PROVE k \in Symbols /\ e \in EmitSymbol(k).declares
    <3>1. PICK s \in Symbols : e \in EmitSymbol(s).declares /\ unit[s].is[1] = e[1]
      BY <2>1, SymbolOwner
    <3>2. s \in DOMAIN unit
      BY DEF Symbols, Those
    <3>3. s = k
      BY <3>1, <3>2, OneOwner
    <3> QED BY <3>1, <3>3
  <2> QED BY <2>1 DEF SymbolGives
<1>7. NodeGives(i, e) => d.kind = "initialised"
  <2>1. ASSUME NEW t \in Tree, unit[t].is = e PROVE d.kind = "initialised"
    <3>1. t \in DOMAIN unit /\ unit[t].kind \in {"initialised", "function"}
      BY DEF Tree, Those
    <3>2. t = k
      BY <2>1, <3>1, OneOwner
    <3> QED BY <3>1, <3>2
  <2> QED BY <2>1 DEF NodeGives
<1>8. e \in EmitSymbol(k).declares <=> d.kind # "anonymous" /\ (e[1] \in Blocks => e[2] = FALSE)
  BY OwnSymbol
<1>9. BlockGives(e) <=> inBlocks /\ e[1] \in supplied /\ e[2] = FALSE
  BY <1>1, BlockGivesAs
<1>10. e[1] \in Globals => e[1] \notin Blocks
  BY DEF SectionsAssumption
<1>11. (e[1] \in Uniforms => e[1] \notin Blocks) /\ (e[1] \in Blocks => e[1] \notin supplied)
  BY DEF SectionsAssumption, SourceInv
<1>12. e \in Given(i) <=> SymbolGives(e) \/ BlockGives(e) \/ NodeGives(i, e)
  BY GivenIs
<1>13. e[2] = FALSE <=> ~e[2]
  BY <1>1
<1>14. inBlocks \in BOOLEAN
  BY DEF SourceInv
<1> HIDE DEF d
<1>15. CASE d.kind \in {"variable", "initialised"} /\ e[1] \in Globals
  BY <1>4, <1>5, <1>6, <1>8, <1>10, <1>12, <1>15
<1>16. CASE d.kind = "uniform" /\ e[1] \in Uniforms /\ e[2] = FALSE
  BY <1>4, <1>5, <1>6, <1>7, <1>8, <1>9, <1>11, <1>12, <1>13, <1>16
<1>17. CASE d.kind \in {"uniform", "buffer", "anonymous"} /\ e[1] \in Blocks
  BY <1>4, <1>5, <1>6, <1>7, <1>8, <1>9, <1>11, <1>12, <1>13, <1>17
<1> QED BY <1>2, <1>15, <1>16, <1>17

\* A function is declared in time exactly if it is defined before.
LEMMA FunctionResolves ==
  ASSUME SectionsAssumption, SourceInv, Complete, NEW i \in Tree,
         NEW k \in DOMAIN unit, NEW e, e = unit[k].is, unit[k].kind \in {"prototype", "function"}
  PROVE  e \in Given(i) <=> ~Missing(i, e)
<1>1. IsPair(e) /\ e[1] \in Functions /\ e[2] = FALSE
  BY DEF SourceInv, Shaped
<1>2. e[1] \notin Globals /\ e[1] \notin Uniforms /\ e[1] \notin Blocks
  BY <1>1 DEF SectionsAssumption
<1>3. PICK p \in Those({"function"}) : unit[p].is[1] = e[1]
  BY DEF Complete, Defined, Those
<1>4. p \in DOMAIN unit /\ unit[p].kind = "function"
  BY DEF Those
<1>5. unit[p].is = e
  <2>1. IsPair(unit[p].is) /\ unit[p].is[2] = FALSE
    <3>1. Shaped(unit[p])
      BY <1>4 DEF SourceInv
    <3> QED BY <1>2, <1>3, <1>4, <3>1 DEF Shaped
  <2> QED BY <1>1, <1>3, <2>1 DEF IsPair
<1>6. \A j \in DOMAIN unit : unit[j].is = e => unit[j].kind \in {"prototype", "function"}
  BY <1>4, <1>5 DEF SourceInv, Distinct
<1>7. \A j \in DOMAIN unit : unit[j].is[1] = e[1] => unit[j].kind \in {"prototype", "function"}
  BY <1>3, <1>4 DEF SourceInv, Distinct
<1>8. \A j \in DOMAIN unit : unit[j].is[1] = e[1] /\ unit[j].kind = "function" => j = p
  BY <1>3, <1>4 DEF SourceInv, Distinct
<1>9. Place(e) = p
  <2>1. \A j \in Those({"function"}) : unit[j].is = e => j = p
    BY <1>8 DEF Those
  <2> QED BY <1>3, <1>5, <2>1 DEF Place
<1>10. Missing(i, e) <=> p >= i
  BY <1>1, <1>2, <1>6, <1>9 DEF Missing
<1>11. ~SymbolGives(e)
  <2>1. ASSUME SymbolGives(e) PROVE FALSE
    <3>1. PICK s \in Symbols : unit[s].is[1] = e[1]
      BY <2>1, SymbolOwner
    <3> QED BY <1>7, <3>1 DEF Symbols, Those
  <2> QED BY <2>1
<1>12. ~BlockGives(e)
  BY <1>1, <1>2, BlockGivesAs DEF SourceInv
<1>13. NodeGives(i, e) <=> p < i
  <2>1. p \in Tree
    BY <1>4 DEF Tree, Those, SkipSequence
  <2>2. \A t \in Tree : unit[t].is = e => t = p
    BY <1>6, <1>8 DEF Tree, Those
  <2> QED BY <1>5, <2>1, <2>2 DEF NodeGives
<1>14. p >= i <=> ~(p < i)
  <2>1. i \in Nat /\ p \in Nat
    BY <1>4 DEF SourceInv, Tree, Those
  <2> QED BY <2>1
<1> QED BY <1>10, <1>11, <1>12, <1>13, <1>14, GivenIs

LEMMA SourceResolves ==
  ASSUME SectionsAssumption, SourceInv PROVE NamesResolve
<1>1. SUFFICES ASSUME Complete
               PROVE  Unresolved = UNION {{e \in UsedBy(i) : Missing(i, e)} : i \in Tree}
  BY DEF NamesResolve, Missing
<1>2. ASSUME NEW i \in Tree, NEW e \in UsedBy(i)
      PROVE  e \in Given(i) <=> ~Missing(i, e)
  <2>1. e \in Known
    <3>1. \A j \in DOMAIN unit : unit[j].uses \subseteq Known
      BY DEF SourceInv
    <3>2. PICK j \in DOMAIN unit : e \in unit[j].uses
      BY DEF UsedBy, Tree, Those, Initialisers
    <3> QED BY <3>1, <3>2
  <2>2. PICK k \in DOMAIN unit : e = unit[k].is
    BY <2>1 DEF Known
  <2>3. CASE unit[k].kind \in {"prototype", "function"}
    BY <1>1, <2>2, <2>3, FunctionResolves
  <2>4. CASE unit[k].kind \notin {"prototype", "function"}
    BY <2>2, <2>4, DataResolves
  <2> QED BY <2>3, <2>4
<1>3. \A i \in Tree : UsedBy(i) \ Given(i) = {e \in UsedBy(i) : Missing(i, e)}
  BY <1>2
<1> QED BY <1>3, Users

-----------------------------------------------------------------------------
(* Initialisers.                                                           *)

LEMMA SourceRuns ==
  ASSUME SourceInv PROVE InitialisersRun
<1> DEFINE loose == {i \in Tree : EmitNode(i).of = "loose"}
           mains == {i \in Tree : EmitNode(i).of = "main"}
<1>1. SUFFICES ASSUME Defined("main")
               PROVE  /\ Cardinality(loose) + Cardinality(mains) = Cardinality(Initialisers)
                      /\ loose = {} <=> Cardinality(Initialisers) <= 1
  BY DEF InitialisersRun
<1>2. Initialisers \subseteq DOMAIN unit /\ IsFiniteSet(Initialisers)
  <2>1. DOMAIN unit = 1 .. Len(unit) /\ Len(unit) \in Nat
    BY DEF SourceInv
  <2>2. IsFiniteSet(1 .. Len(unit))
    BY <2>1, FS_Interval
  <2> QED BY <2>1, <2>2, FS_Subset DEF Initialisers, Those
<1>3. loose = {i \in Initialisers : ~IsInitSeq(i)}
  <2>1. \A i : i \in Initialisers <=> i \in DOMAIN unit /\ unit[i].kind = "initialised"
    BY DEF Initialisers, Those
  <2>2. \A i : EmitNode(i).of = "loose" <=> unit[i].kind = "initialised"
    BY NodeLine
  <2> QED BY <2>1, <2>2 DEF Tree, Those, SkipSequence
<1>4. PICK m \in Those({"function"}) : unit[m].is[1] = "main"
  BY <1>1 DEF Defined
<1>5. m \in DOMAIN unit /\ unit[m].kind = "function"
  BY DEF Those
<1>6. mains = IF Initialisers = {} THEN {} ELSE {m}
  <2>1. \A i : EmitNode(i).of = "main" <=>
                 unit[i].kind # "initialised" /\ unit[i].is[1] = "main" /\ Initialisers # {}
    BY NodeLine
  <2>2. m \in Tree
    BY <1>5 DEF Tree, Those, SkipSequence
  <2>3. \A i \in Tree : unit[i].kind # "initialised" /\ unit[i].is[1] = "main" => i = m
    BY <1>4, <1>5 DEF Tree, Those, SourceInv, Distinct
  <2>4. unit[m].kind # "initialised" /\ unit[m].is[1] = "main"
    BY <1>4, <1>5
  <2> QED BY <2>1, <2>2, <2>3, <2>4
<1> HIDE DEF loose, mains
<1>7. CASE Initialisers = {}
  <2>1. loose = {} /\ mains = {}
    BY <1>3, <1>6, <1>7
  <2> QED BY <1>7, <2>1, FS_EmptySet
<1>8. CASE Initialisers # {}
  <2>1. PICK z \in Initialisers : IsInitSeq(z)
    BY <1>8 DEF SourceInv
  <2>2. loose = Initialisers \ {z}
    <3>1. Initialisers \subseteq Int
      BY <1>2 DEF SourceInv
    <3>2. \A i \in Initialisers : IsInitSeq(i) <=> i = z
      <4>1. \A i, j \in Int : i <= j /\ j <= i => i = j
        OBVIOUS
      <4> QED BY <2>1, <3>1, <4>1 DEF IsInitSeq
    <3> QED BY <1>3, <3>2
  <2>3. Cardinality(loose) = Cardinality(Initialisers) - 1 /\ IsFiniteSet(loose)
    BY <1>2, <2>1, <2>2, FS_RemoveElement
  <2>4. Cardinality(mains) = 1
    BY <1>6, <1>8, FS_Singleton
  <2>5. Cardinality(Initialisers) \in Nat /\ Cardinality(loose) \in Nat
    BY <1>2, <2>3, FS_CardinalityType
  <2>6. Cardinality(loose) = 0 <=> loose = {}
    BY <2>3, FS_EmptySet
  <2> QED BY <2>3, <2>4, <2>5, <2>6
<1> QED BY <1>7, <1>8

-----------------------------------------------------------------------------
(* For any names and sources of any length, with any uniforms in the client's *)
(* blocks: of the names a text uses, those not declared before are exactly    *)
(* the functions defined after the function or initialiser that calls them,   *)
(* the uniforms the blocks lack, blocks without  *)
(* a name and arrays of blocks (EmitterTraverser::process).                   *)
THEOREM NamesAreResolved ==
  ASSUME SectionsAssumption PROVE SectionsSpec => []NamesResolve
<1>1. SourceInv => NamesResolve
  BY SourceResolves
<1> QED BY <1>1, SourceInvHolds, PTL

(* For any names and sources of any length, each initialiser is written once, *)
(* and all in main exactly when there is at most one (ArrangingTraverser's    *)
(* initSeq, EmitterTraverser::visitAggregate).                                *)
THEOREM InitialisersAreRun ==
  ASSUME SectionsAssumption PROVE SectionsSpec => []InitialisersRun
<1>1. SourceInv => InitialisersRun
  BY SourceRuns
<1> QED BY <1>1, SourceInvHolds, PTL
=============================================================================
