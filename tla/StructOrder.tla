----------------------------- MODULE StructOrder -----------------------------
(***************************************************************************)
(* Which structures ArrangingTraverser collects, in which order, for       *)
(* EmitterTraverser::process to declare.  Structures are numbered; one may *)
(* contain those of smaller numbers.  Structures of different scopes may   *)
(* have one name, and the traverser knows them by their names.             *)
(***************************************************************************)
EXTENDS Integers, Sequences, SequencesExt

CONSTANTS
  MaxStruct,  \* the structures are 1 .. MaxStruct
  Builtin     \* those whose name begins with gl_

ASSUME StructAssumption == MaxStruct \in Nat /\ Builtin \subseteq 1 .. MaxStruct

VARIABLES
  members,  \* per structure, the structures it has members of, in order
  called,   \* per structure, its name: the smallest structure of that name
  order,    \* structTable and structEmittingOrder
  visited,  \* structures of the symbols the traversal visited
  named     \* structures the text names otherwise

Struct == 1 .. MaxStruct
Subsequences(n) ==
  {s \in UNION {[1 .. k -> 1 .. n] : k \in 0 .. n} :
     \A i, j \in DOMAIN s : s[i] = s[j] => i = j}

StructInit ==
  /\ members \in {m \in [Struct -> UNION {Subsequences(n) : n \in 0 .. MaxStruct - 1}] :
                    /\ \A s \in Struct : m[s] \in Subsequences(s - 1)
                    /\ \A s \in Builtin : Range(m[s]) \subseteq Builtin}
  /\ called \in {c \in [Struct -> Struct] :
                   /\ \A s \in Struct : c[s] <= s /\ c[c[s]] = c[s]
                   /\ \A s \in Struct, b \in Builtin : c[s] = c[b] => s = b}
  /\ order = <<>> /\ visited = {} /\ named = {}

(* findStruct of a structure, given what finding members does: after s, the *)
(* number of members and what was found it yields what is found then.  A    *)
(* structure is passed over when one of its name is there; a member that    *)
(* has its name does not stop it.                                           *)
Same(s, x) == called[s] = called[x]
Present(found, s) == \E x \in Range(found) : Same(s, x)

\* Mutant of Found: a structure is added before those it contains.
MutantOuterFirst(after, found, s) ==
  IF Present(found, s) THEN found ELSE after[<<s, Len(members[s]), Append(found, s)>>]

Found(after, found, s) ==
  IF Present(found, s) THEN found ELSE Append(after[<<s, Len(members[s]), found>>], s)

AfterMembers[d \in Struct \X (0 .. MaxStruct) \X Seq(Struct)] ==
  IF d[2] \in DOMAIN members[d[1]]
  THEN Found(AfterMembers, AfterMembers[<<d[1], d[2] - 1, d[3]>>], members[d[1]][d[2]])
  ELSE d[3]

FindStruct(found, s) == Found(AfterMembers, found, s)

(* visitSymbol: a variable or parameter of a function's text.               *)
VisitStruct(s) ==
  /\ order' = FindStruct(order, s)
  /\ visited' = visited \cup {s}
  /\ UNCHANGED <<members, called, named>>

(* What is not visited: a linker object that no function uses, a member of  *)
(* a block, a constructor, a function's result.                             *)
NameStruct(s) ==
  /\ named' = named \cup {s}
  /\ UNCHANGED <<members, called, order, visited>>

StructNext == \E s \in Struct : VisitStruct(s) \/ NameStruct(s)

(* EmitterTraverser::process, STRUCTS: the places of order that are written, *)
(* and the structure written there, which is the last that was given the     *)
(* name in structTable.                                                      *)
Declared == {i \in DOMAIN order : order[i] \notin Builtin}
LastOf(s) == CHOOSE j \in DOMAIN order :
  Same(order[j], s) /\ \A k \in DOMAIN order : Same(order[k], s) => k <= j
Shown(i) == order[LastOf(order[i])]

(* s, what it contains, what that contains...                               *)
Closed(c) == \A x \in c : Range(members[x]) \subseteq c
Inside(s) == {x \in Struct : \A c \in SUBSET Struct : s \in c /\ Closed(c) => x \in c}
Reached == UNION {Inside(s) : s \in visited}

DeclaredOnceInOrder ==
  /\ \A i \in Declared : \A m \in Range(members[Shown(i)]) \ Builtin :
       \E j \in Declared : j < i /\ Shown(j) = m
  /\ \A i, j \in Declared : Shown(i) = Shown(j) => i = j

NoOthersUndeclared ==
  LET declared == {Shown(i) : i \in Declared}
  IN  (visited \cup named) \ (declared \cup Builtin) = named \ (Reached \cup Builtin)

(* Each structure is declared once and after those it contains, and the     *)
(* text names no undeclared structure but builtins and those that no        *)
(* visited symbol leads to: exactly unless two structures that the visited  *)
(* symbols lead to have one name, as those of different functions may       *)
(* (findStruct, which looks for the name).                                  *)
StructsDeclared ==
  DeclaredOnceInOrder /\ NoOthersUndeclared
    <=> \A x, y \in Reached : Same(x, y) => x = y

StructSpec == StructInit /\ [][StructNext]_<<members, called, order, visited, named>>
=============================================================================
