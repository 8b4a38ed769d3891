--------------------------- MODULE WorkerThreads ---------------------------
(***************************************************************************)
(* What the compiler API promises its threads, with no pools in sight: a   *)
(* thread attaches (as the main thread or by registering), compiles any    *)
(* number of times, one call at a time, and may leave; data takes memory   *)
(* from the threads whose calls make and extend it, and is lost only       *)
(* through what one of them does; and the process never dies of a call     *)
(* made by a thread that is attached, unless data has been lost.           *)
(***************************************************************************)
CONSTANTS Thread, Item
VARIABLES
  state,  \* "outside", "attached" or "compiling"
  made,   \* the threads an item's memory came from
  lost,   \* items that have lost memory
  down    \* has the process died?

wvars == <<state, made, lost, down>>

Init ==
  /\ state = [t \in Thread |-> "outside"]
  /\ made = [i \in Item |-> {}]
  /\ lost = {}
  /\ down = FALSE

Moves(t, from, to) ==
  /\ ~down /\ state[t] = from
  /\ state' = [state EXCEPT ![t] = to]
  /\ UNCHANGED <<made, down>>

\* Memory that t gave is taken back from some items.
Reclaims(t) == \E S \in SUBSET {i \in Item : t \in made[i]} : lost' = lost \cup S

Attach(t)  == Moves(t, "outside", "attached") /\ UNCHANGED lost
Compile(t) == Moves(t, "attached", "compiling") /\ UNCHANGED lost
Finish(t)  == Moves(t, "compiling", "attached") /\ Reclaims(t)
Leave(t)   == Moves(t, "attached", "outside") /\ Reclaims(t)

\* A scope that t opened ends.
Close(t) == Moves(t, "attached", "attached") /\ Reclaims(t)

\* Item i takes memory from t.
Make(t, i) ==
  /\ ~down /\ state[t] = "attached"
  /\ made' = [made EXCEPT ![i] = @ \cup {t}]
  /\ UNCHANGED <<state, lost, down>>

\* The process dies of a call by t.
Die(t) ==
  /\ ~down
  /\ state[t] = "outside" \/ lost # {}
  /\ down' = TRUE
  /\ UNCHANGED <<state, made, lost>>

Next ==
  \E t \in Thread :
    \/ Attach(t) \/ Compile(t) \/ Finish(t) \/ Leave(t) \/ Close(t) \/ Die(t)
    \/ \E i \in Item : Make(t, i)

Spec == Init /\ [][Next]_wvars
=============================================================================
