--------------------------- MODULE ExpressionText ---------------------------
(***************************************************************************)
(* The text EmitterTraverser writes for an expression, and what a GLSL     *)
(* compiler reads in it.  Binary operators and compound assignments are    *)
(* written in brackets; a plain assignment, the prefix and postfix         *)
(* operators, an index and a member are not, and a comma operator leaves   *)
(* nothing between its operands.  The shader is right when its text reads  *)
(* back as the expression it was written for.                              *)
(*                                                                         *)
(* An expression is <<operator, operands...>> over the variables v and w.  *)
(* The text is a sequence of characters; a name is one character.          *)
(***************************************************************************)
EXTENDS Integers, Sequences, TextReader

CONSTANT MaxDepth   \* bound: operators around the first variable

ASSUME DepthAssumption == MaxDepth \in Nat

VARIABLES expr, depth

PrefixText == [neg |-> <<"-">>, not |-> <<"!">>, compl |-> <<"~">>,
               preinc |-> <<"+", "+">>, predec |-> <<"-", "-">>]
Steppers == {"preinc", "predec", "postinc"}

(* What may be assigned to.                                                 *)
RECURSIVE IsLvalue(_)
IsLvalue(e) ==
  CASE e[1] \in {"v", "w"} -> TRUE
    [] e[1] \in {"index", "member"} -> IsLvalue(e[2])
    [] OTHER -> FALSE

ExprInit == expr = <<"v">> /\ depth = 0

Grow(e) == depth < MaxDepth /\ depth' = depth + 1 /\ expr' = e

(* visitUnary over what there is; ++ and -- over what can be assigned.      *)
Unary ==
  \E op \in DOMAIN PrefixText \cup {"postinc", "call"} :
    /\ op \in Steppers => IsLvalue(expr)
    /\ Grow(<<op, expr>>)

(* visitBinary with what there is on either side.                           *)
Binary ==
  \/ Grow(<<"sub", expr, <<"w">>>>)
  \/ Grow(<<"sub", <<"w">>, expr>>)

Assignment ==
  \E op \in {"assign", "subassign"} :
    \/ Grow(<<op, <<"w">>, expr>>)
    \/ IsLvalue(expr) /\ Grow(<<op, expr, <<"w">>>>)

Selection ==
  \/ Grow(<<"index", expr, <<"w">>>>)
  \/ Grow(<<"index", <<"w">>, expr>>)
  \/ Grow(<<"member", expr>>)

(* visitAggregate: a function of two arguments, a comma operator.           *)
Aggregate ==
  \E op \in {"call2", "comma"} :
    Grow(<<op, expr, <<"w">>>>) \/ Grow(<<op, <<"w">>, expr>>)

ExprNext == Aggregate \/ Unary \/ Binary \/ Assignment \/ Selection

-----------------------------------------------------------------------------
(* The text. *)

\* Mutant of Infix: no brackets.
MutantBare(op, left, right, brackets) == left \o <<" ">> \o op \o <<" ">> \o right

(* emitBinary                                                               *)
Infix(op, left, right, brackets) ==
  LET text == left \o <<" ">> \o op \o <<" ">> \o right
  IN  IF brackets THEN <<"(">> \o text \o <<")">> ELSE text

(* emitUnary and emitInvoking                                               *)
Invoke(name, argument) == <<name, "(">> \o argument \o <<")">>

RECURSIVE Emit(_)
Emit(e) ==
  CASE e[1] \in {"v", "w"}        -> e
    [] e[1] \in DOMAIN PrefixText   -> PrefixText[e[1]] \o Emit(e[2])
    [] e[1] = "postinc"           -> Emit(e[2]) \o <<"+", "+">>
    [] e[1] = "call"              -> Invoke("f", Emit(e[2]))
    [] e[1] = "call2"             -> Invoke("f", Emit(e[2]) \o <<",", " ">> \o Emit(e[3]))
    [] e[1] = "comma"             -> Emit(e[2]) \o Emit(e[3])
    [] e[1] = "sub"               -> Infix(<<"-">>, Emit(e[2]), Emit(e[3]), TRUE)
    [] e[1] = "subassign"         -> Infix(<<"-", "=">>, Emit(e[2]), Emit(e[3]), TRUE)
    [] e[1] = "assign"            -> Infix(<<"=">>, Emit(e[2]), Emit(e[3]), FALSE)
    [] e[1] = "index"             -> Emit(e[2]) \o <<"[">> \o Emit(e[3]) \o <<"]">>
    [] e[1] = "member"            -> Emit(e[2]) \o <<".", "x">>

-----------------------------------------------------------------------------
(* The reader: GLSL's tokens, the longest first, and its grammar. *)

Pairs == {<<"+", "+">>, <<"-", "-">>, <<"-", "=">>, <<"!", "=">>, <<"=", "=">>}
Join(p) == p[1] \o p[2]

RECURSIVE Tokens(_)
Tokens(text) ==
  CASE text = <<>> -> <<>>
    [] text # <<>> /\ Head(text) = " " -> Tokens(Tail(text))
    [] Len(text) > 1 /\ SubSeq(text, 1, 2) \in Pairs ->
         <<Join(SubSeq(text, 1, 2))>> \o Tokens(SubSeq(text, 3, Len(text)))
    [] OTHER -> <<Head(text)>> \o Tokens(Tail(text))

PrefixOf(token) ==
  CASE token = "-" -> "neg" [] token = "!" -> "not" [] token = "~" -> "compl"
    [] token = "++" -> "preinc" [] token = "--" -> "predec" [] OTHER -> "none"

(* An operator over what was read: ++, -- and = need an lvalue.             *)
Apply(op, operands) ==
  IF \/ Error \in {operands[i] : i \in 1 .. Len(operands)}
     \/ op \in Steppers \cup {"assign", "subassign"} /\ ~IsLvalue(operands[1])
  THEN Error ELSE <<op>> \o operands

RECURSIVE ReadAssignment(_), ReadUnary(_), ReadPostfix(_), ReadSum(_)

ReadArguments(ts) ==
  LET a == ReadAssignment(ts)
      b == ReadAssignment(Tail(a.rest))
  IN  IF First(a.rest) = "," THEN Close(b, ")", Apply("call2", <<a.e, b.e>>))
      ELSE Close(a, ")", Apply("call", <<a.e>>))

ReadPrimary(ts) ==
  CASE First(ts) \in {"v", "w"} -> Read(<<Head(ts)>>, Tail(ts))
    [] First(ts) = "(" ->
         LET r == ReadAssignment(Tail(ts)) IN Close(r, ")", r.e)
    [] First(ts) = "f" -> ReadArguments(Tail(Tail(ts)))
    [] OTHER -> Read(Error, <<>>)

ReadPostfix(r) ==
  CASE First(r.rest) = "[" ->
         LET i == ReadAssignment(Tail(r.rest))
         IN  ReadPostfix(Close(i, "]", Apply("index", <<r.e, i.e>>)))
    [] First(r.rest) = "." ->
         ReadPostfix(Close(Read(r.e, Tail(r.rest)), "x", Apply("member", <<r.e>>)))
    [] First(r.rest) = "++" -> ReadPostfix(Read(Apply("postinc", <<r.e>>), Tail(r.rest)))
    [] OTHER -> r

ReadUnary(ts) ==
  IF PrefixOf(First(ts)) = "none" THEN ReadPostfix(ReadPrimary(ts))
  ELSE LET r == ReadUnary(Tail(ts)) IN Read(Apply(PrefixOf(Head(ts)), <<r.e>>), r.rest)

ReadSum(r) ==
  IF First(r.rest) # "-" THEN r
  ELSE LET right == ReadUnary(Tail(r.rest))
       IN  ReadSum(Read(Apply("sub", <<r.e, right.e>>), right.rest))

(* unary_expression assignment_operator assignment_expression, or a sum.    *)
ReadAssignment(ts) ==
  LET left == ReadUnary(ts) IN
  IF First(left.rest) \notin {"=", "-="} THEN ReadSum(left)
  ELSE LET right == ReadAssignment(Tail(left.rest))
           op == IF First(left.rest) = "=" THEN "assign" ELSE "subassign"
       IN  Read(Apply(op, <<left.e, right.e>>), right.rest)

Reading(text) ==
  LET r == ReadAssignment(Tokens(text)) IN IF r.rest = <<>> THEN r.e ELSE Error

-----------------------------------------------------------------------------
(* A sign before a selection is one after it: (-v).x is -(v.x).             *)
RECURSIVE SignsOut(_)
SignsOut(e) ==
  IF Len(e) = 1 THEN e
  ELSE LET a == SignsOut(e[2])
           r == IF Len(e) = 2 THEN <<>> ELSE <<SignsOut(e[3])>>
       IN  IF e[1] \in {"index", "member"} /\ a[1] \in {"neg", "not", "compl"}
           THEN <<a[1], SignsOut(<<e[1], a[2]>> \o r)>>
           ELSE <<e[1], a>> \o r

(* The shapes that are misread: a sign before a minus, a plain assignment    *)
(* that is an operand, a selection from ++ or -- of something, any comma.    *)
RECURSIVE StartsMinus(_), EndsStepped(_), Misread(_)
StartsMinus(e) ==
  \/ e[1] \in {"neg", "predec"}
  \/ e[1] \in {"index", "member"} /\ StartsMinus(e[2])
EndsStepped(e) ==
  \/ e[1] \in {"preinc", "predec"}
  \/ e[1] \in {"neg", "not", "compl"} /\ EndsStepped(e[2])
Misread(e) ==
  \/ e[1] = "comma"
  \/ e[1] = "neg" /\ StartsMinus(e[2])
  \/ e[1] \in {"index", "member"} /\ EndsStepped(e[2])
  \/ e[1] \in {"neg", "not", "compl", "index", "member", "sub"} /\ e[2][1] = "assign"
  \/ e[1] = "sub" /\ e[3][1] = "assign"
  \/ \E i \in 2 .. Len(e) : Misread(e[i])

(* The text of an expression reads back as that expression exactly when it  *)
(* holds none of those shapes (visitUnary and visitBinary add no brackets). *)
ExpressionReadsBack ==
  LET read == Reading(Emit(expr)) IN
  (read # Error /\ SignsOut(read) = SignsOut(expr)) <=> ~Misread(expr)
=============================================================================
