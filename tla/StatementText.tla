---------------------------- MODULE StatementText ---------------------------
(***************************************************************************)
(* The statements EmitterTraverser writes for the body of a function, and  *)
(* what a GLSL compiler reads in them.  The syntax tree has no for loop: a  *)
(* for is a sequence of its head and a loop with a terminal, and the        *)
(* emitter has to know it again.  A declaration is a sequence of its        *)
(* initialisers, and a conditional expression is a selection like an if.    *)
(* The shader is right when its text reads back as the same flow.           *)
(*                                                                          *)
(* A node is [op, of], of being its children; an absent child is Null.  All *)
(* expressions but the conditional and an assignment are the call f.        *)
(***************************************************************************)
EXTENDS Integers, Sequences, SequencesExt, TextReader

CONSTANT MaxNest   \* bound: statements around the innermost one

ASSUME NestAssumption == MaxNest \in Nat

VARIABLES stmt, nest

Node(op, of) == [op |-> op, of |-> of]
Null      == Node("null", <<>>)
Call      == Node("call", <<>>)
Break     == Node("break", <<>>)
Label     == Node("case", <<>>)
Assign(e) == Node("assign", <<e>>)
Return(e) == Node("return", <<e>>)
Sequence(nodes) == Node("sequence", nodes)
If(test, yes, no) == Node("selection", <<test, yes, no>>)
Loop(op, test, terminal, body) == Node(op, <<test, terminal, body>>)
Choice    == If(Call, Call, Call)

(* A for: its head, if it has one, and the loop.                            *)
For(head, test, terminal, body) ==
  Sequence((IF head = Null THEN <<>> ELSE <<head>>)
           \o <<Loop("while", test, terminal, body)>>)

Declaration    == Sequence(<<Assign(Call)>>)
TwoDeclarators == Sequence(<<Assign(Call), Assign(Call)>>)

StatementInit ==
  /\ nest = 0
  /\ stmt \in {Call, Choice, Assign(Choice), Declaration, TwoDeclarators,
               Return(Call), Return(Choice), Break}

(* A statement around the one there is.                                     *)
Around(s) == nest < MaxNest /\ nest' = nest + 1 /\ stmt' = s

InBlock ==
  \/ Around(Sequence(<<stmt>>))
  \/ Around(Sequence(<<Call, stmt>>))
  \/ Around(Sequence(<<stmt, Call>>))

InSelection ==
  \/ \E test \in {Call, Choice} : Around(If(test, stmt, Null))
  \/ Around(If(Call, Null, stmt))
  \/ Around(If(Call, stmt, stmt))

InLoop == \E op \in {"while", "do"} : Around(Loop(op, Call, Null, stmt))

InFor ==
  \/ \E head \in {Null, Call, Choice, Declaration, TwoDeclarators} :
       Around(For(head, Call, Call, stmt))
  \/ \E head \in {Null, Choice, TwoDeclarators} :
       Around(For(head, Null, Null, stmt))
  \/ Around(For(Null, Null, Choice, stmt))

InSwitch ==
  \/ Around(Node("switch", <<Label, Sequence(<<stmt>>), Label, Break>>))
  \/ Around(Node("switch", <<Label, Sequence(<<stmt, Break>>)>>))

StatementNext == InBlock \/ InSelection \/ InLoop \/ InFor \/ InSwitch

-----------------------------------------------------------------------------
(* The text. *)

IsLoop(n) == n.op \in {"while", "do"}
Terminal(loop) == loop.of[2]
IsBranch(n) == n.op \in {"break", "return", "case"}

(* isSingleAssignmentSequence                                               *)
SingleAssignment(n) == Len(n.of) = 1 /\ n.of[1].op = "assign"

\* Mutant of IsForLoop: a loop with a head is not known again.
MutantHeadless(n) ==
  Len(n.of) = 1 /\ IsLoop(Last(n.of)) /\ Terminal(Last(n.of)) # Null

(* isForLoop                                                                *)
IsForLoop(n) ==
  Len(n.of) <= 2 /\ IsLoop(Last(n.of)) /\ Terminal(Last(n.of)) # Null

RECURSIVE Traverse(_), EmitStatements(_)

Flat(texts) == FlattenSeq(texts)
Braced(n) == <<"{">> \o EmitStatements(n) \o <<"}">>

(* A statement ends in a semicolon, but for branches and selections.        *)
EmitOne(n) ==
  Traverse(n) \o (IF IsBranch(n) \/ n.op = "selection" THEN <<>> ELSE <<";">>)

EmitFor(n) ==
  LET loop == Last(n.of)
      head == IF IsLoop(n.of[1]) THEN <<>> ELSE Traverse(n.of[1])
  IN  <<"for", "(">> \o head \o <<";">> \o Traverse(loop.of[1]) \o <<";">>
        \o Traverse(loop.of[2]) \o <<")">> \o Braced(loop.of[3])

EmitChild(n) ==
  CASE n.op = "sequence" /\ IsForLoop(n) -> EmitFor(n)
    [] n.op = "sequence" /\ ~IsForLoop(n) /\ ~SingleAssignment(n) -> Braced(n)
    [] OTHER -> EmitOne(n)

EmitStatements(n) ==
  CASE n = Null -> <<>>
    [] n.op = "sequence" -> Flat([i \in DOMAIN n.of |-> EmitChild(n.of[i])])
    [] OTHER -> EmitOne(n)

(* visitSelection                                                           *)
EmitSelection(n) ==
  <<"if", "(">> \o Traverse(n.of[1]) \o <<")">> \o Braced(n.of[2])
  \o CASE n.of[3] = Null -> <<>>
       [] n.of[3].op = "selection" -> <<"else">> \o EmitStatements(n.of[3])
       [] OTHER -> <<"else">> \o Braced(n.of[3])

(* visitLoop                                                                *)
EmitLoop(n) ==
  LET test == <<"(">> \o (IF n.of[1] = Null THEN <<"true">> ELSE Traverse(n.of[1])) \o <<")">>
  IN  IF n.op = "while" THEN <<"while">> \o test \o Braced(n.of[3])
      ELSE <<"do">> \o Braced(n.of[3]) \o <<"while">> \o test \o <<";">>

(* visitSwitch                                                              *)
EmitSwitch(n) ==
  LET part(c) == IF c.op = "sequence" THEN EmitStatements(c) ELSE Traverse(c)
  IN  <<"switch", "(", "f", ")", "{">> \o Flat([i \in DOMAIN n.of |-> part(n.of[i])]) \o <<"}">>

(* A node visited by itself.                                                *)
Traverse(n) ==
  CASE n.op = "null"      -> <<>>
    [] n.op = "call"      -> <<"f">>
    [] n.op = "assign"    -> <<"x", "=">> \o Traverse(n.of[1])
    [] n.op = "sequence"  -> Flat([i \in DOMAIN n.of |-> Traverse(n.of[i])])
    [] n.op = "selection" -> EmitSelection(n)
    [] n.op = "break"     -> <<"break", ";">>
    [] n.op = "return"    -> <<"return">> \o Traverse(n.of[1]) \o <<";">>
    [] n.op = "case"      -> <<"case", "0", ":">>
    [] n.op = "switch"    -> EmitSwitch(n)
    [] IsLoop(n)          -> EmitLoop(n)

-----------------------------------------------------------------------------
(* The reader: what the text makes a program do, in one form for each step. *)

(* A step and its parts, none of which may have been misread.               *)
Do(op, parts) == <<op>> \o Flat([i \in DOMAIN parts |-> <<"{">> \o parts[i] \o <<"}">>])
Step(op, parts) == IF \E i \in DOMAIN parts : parts[i] = Error THEN Error ELSE Do(op, parts)

RECURSIVE ReadExpression(_), ReadStatement(_), ReadList(_)

ReadExpression(ts) ==
  CASE First(ts) = "f" -> Read(<<"f">>, Tail(ts))
    [] First(ts) = "true" -> Read(<<"true">>, Tail(ts))
    [] First(ts) = "x" /\ First(Tail(ts)) = "=" ->
         LET r == ReadExpression(Tail(Tail(ts)))
         IN  Read(Step("assign", <<r.e>>), r.rest)
    [] OTHER -> Read(Error, <<>>)

(* An expression that may be left out, and the token after it.              *)
ReadOptional(ts, token, missing) ==
  IF First(ts) = token THEN Read(missing, Tail(ts))
  ELSE LET r == ReadExpression(ts) IN Close(r, token, r.e)

ReadTest(ts) ==
  IF First(ts) = "(" THEN ReadOptional(Tail(ts), ")", Error) ELSE Read(Error, <<>>)

ReadFor(ts) ==
  LET head     == ReadOptional(ts, ";", <<>>)
      test     == ReadOptional(head.rest, ";", <<"true">>)
      terminal == ReadOptional(test.rest, ")", <<>>)
      body     == ReadStatement(terminal.rest)
      loop     == Step("while", <<test.e, terminal.e, body.e>>)
  IN  Read(IF Error \in {head.e, loop} THEN Error ELSE head.e \o loop, body.rest)

ReadIf(ts) ==
  LET test == ReadTest(ts)
      yes  == ReadStatement(test.rest)
      no   == IF First(yes.rest) = "else" THEN ReadStatement(Tail(yes.rest))
              ELSE Read(<<>>, yes.rest)
  IN  Read(Step("if", <<test.e, yes.e, no.e>>), no.rest)

ReadWhile(ts) ==
  LET test == ReadTest(ts)
      body == ReadStatement(test.rest)
  IN  Read(Step("while", <<test.e, <<>>, body.e>>), body.rest)

ReadDo(ts) ==
  LET body == ReadStatement(ts)
      test == ReadTest(Tail(body.rest))
  IN  IF First(body.rest) # "while" THEN Read(Error, <<>>)
      ELSE Close(test, ";", Step("do", <<test.e, <<>>, body.e>>))

ReadSwitch(ts) ==
  LET test == ReadTest(ts)
      body == ReadStatement(test.rest)
  IN  Read(Step("switch", <<test.e, body.e>>), body.rest)

ReadReturn(ts) == LET r == ReadExpression(ts) IN Close(r, ";", Step("return", <<r.e>>))

ReadStatement(ts) ==
  CASE First(ts) = "{" -> LET r == ReadList(Tail(ts)) IN Close(r, "}", r.e)
    [] First(ts) = "if" -> ReadIf(Tail(ts))
    [] First(ts) = "while" -> ReadWhile(Tail(ts))
    [] First(ts) = "do" -> ReadDo(Tail(ts))
    [] First(ts) = "for" -> IF First(Tail(ts)) = "(" THEN ReadFor(Tail(Tail(ts))) ELSE Read(Error, <<>>)
    [] First(ts) = "switch" -> ReadSwitch(Tail(ts))
    [] First(ts) = "case" -> Close(Read(<<>>, Tail(Tail(ts))), ":", <<"case">>)
    [] First(ts) = "break" -> Close(Read(<<>>, Tail(ts)), ";", <<"break">>)
    [] First(ts) = "return" -> ReadReturn(Tail(ts))
    [] First(ts) = ";" -> Read(<<>>, Tail(ts))
    [] OTHER -> LET r == ReadExpression(ts) IN Close(r, ";", r.e)

ReadList(ts) ==
  IF First(ts) \in {"}", "end"} THEN Read(<<>>, ts)
  ELSE LET one  == ReadStatement(ts)
           rest == ReadList(one.rest)
       IN  Read(IF Error \in {one.e, rest.e} THEN Error ELSE one.e \o rest.e, rest.rest)

ReadingBody(text) == LET r == ReadList(text) IN IF r.rest = <<>> THEN r.e ELSE Error

-----------------------------------------------------------------------------
(* What the statement does: blocks and declarations in line, a for as its   *)
(* head and a loop with a terminal.                                         *)
Worth(n) ==
  CASE n.op = "assign" -> Do("assign", <<<<"f">>>>)
    [] n.op = "null" -> <<>>
    [] OTHER -> <<"f">>

RECURSIVE Flow(_)
Flow(n) ==
  LET parts == [i \in DOMAIN n.of |-> Flow(n.of[i])]
      test == IF n.of[1] = Null THEN <<"true">> ELSE <<"f">>
  IN
  CASE n.op \in {"call", "assign", "null"} -> Worth(n)
    [] n.op \in {"break", "case"} -> <<n.op>>
    [] n.op = "return"    -> Do("return", <<<<"f">>>>)
    [] n.op = "sequence"  -> Flat(parts)
    [] n.op = "selection" -> Do("if", <<test, parts[2], parts[3]>>)
    [] n.op = "switch"    -> Do("switch", <<<<"f">>, Flat(parts)>>)
    [] IsLoop(n)          -> Do(n.op, <<test, Worth(n.of[2]), parts[3]>>)

(* The shapes that are misread: a conditional expression that is part of     *)
(* something, and a for with a terminal that is the whole branch of an if or *)
(* body of a loop, or that starts with two declarators or a conditional.     *)
Bodies(n) ==
  CASE n.op = "selection" -> {n.of[2], n.of[3]}
    [] IsLoop(n) -> {n.of[3]}
    [] OTHER -> {}
Operands(n) ==
  CASE n.op \in {"assign", "return", "selection"} -> {n.of[1]}
    [] IsLoop(n) -> {n.of[1], n.of[2]}
    [] OTHER -> {}
RECURSIVE BadStatement(_)
BadStatement(n) ==
  \/ Choice \in Operands(n)
  \/ \E b \in Bodies(n) : b.op = "sequence" /\ IsForLoop(b)
  \/ n.op = "sequence" /\ IsForLoop(n) /\ n.of[1] \in {TwoDeclarators, Choice}
  \/ \E i \in DOMAIN n.of : BadStatement(n.of[i])

(* The text of a function's body does what its statements do exactly when   *)
(* none of them has such a shape (visitSelection is the only way a          *)
(* conditional is written, and only a sequence's own children are looked at *)
(* for loops: emitStatements).                                              *)
StatementReadsBack ==
  LET body == Sequence(<<stmt>>) IN
  (ReadingBody(EmitStatements(body)) = Flow(body)) <=> ~BadStatement(body)
=============================================================================
