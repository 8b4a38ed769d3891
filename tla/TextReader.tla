----------------------------- MODULE TextReader -----------------------------
(* Steps of a reader of GLSL: each takes the tokens left and returns what it *)
(* read in them and the tokens after it.                                     *)
EXTENDS Sequences

Error == <<"error">>

Read(e, rest) == [e |-> e, rest |-> rest]
First(rest) == IF rest = <<>> THEN "end" ELSE Head(rest)

(* e, if the token comes next after r. *)
Close(r, token, e) ==
  IF First(r.rest) = token THEN Read(e, Tail(r.rest)) ELSE Read(Error, <<>>)
=============================================================================
