------------------------- MODULE MemoryPools_proofs --------------------------
(***************************************************************************)
(* Proofs about MemoryPools for any set of threads, jobs and data and any  *)
(* depth.  Three parts, each with its inductive invariant:                 *)
(*                                                                         *)
(*   who has which pool: type correctness with no assumption on callbacks  *)
(*   or exceptions, the pool chain when parse does not throw, and, when    *)
(*   include callbacks stay out of the API, that no attached thread faults *)
(*   and that the pools implement WorkerThreads;                           *)
(*                                                                         *)
(*   the pools themselves: that threads share a pool only inside compiles  *)
(*   of one job, that data at the base of a pool stays and that every      *)
(*   fault, a missing pool or lost data, has its reason, however callbacks *)
(*   re-enter the API; and, when they do not, that every mark on a pool is *)
(*   accounted for;                                                        *)
(*                                                                         *)
(*   exceptions: when glslang's parse may leave by one and initialisation  *)
(*   may fail, that a thread keeps the pool of the shader as its own       *)
(*   exactly when the mark of compile_do stays on the pool it left.        *)
(***************************************************************************)
EXTENDS MemoryPools, SequenceTheorems, FiniteSetTheorems, TLAPS

-----------------------------------------------------------------------------
(* Lemmas about the pool operations.                                       *)

\* A mark stack stays a stack of natural depth, torn a set of items.
LEMMA MarkTypes ==
  ASSUME TypeOK, NEW p \in Pool, PushMark(p) \/ PopMark(p) \/ DropPool(p)
  PROVE  level' \in [Pool -> Nat] /\ torn' \in SUBSET Item
<1>1. CASE PushMark(p)
  BY <1>1 DEF TypeOK, PushMark
<1>2. CASE PopMark(p)
  <2>1. CASE level[p] = 0
    BY <1>2, <2>1 DEF TypeOK, PopMark
  <2>2. CASE level[p] # 0
    <3>1. level[p] - 1 \in Nat
      BY <2>2 DEF TypeOK
    <3>2. level' = [level EXCEPT ![p] = @ - 1] /\ torn' = torn \cup HeldAt(p, level[p])
      BY <1>2, <2>2 DEF PopMark
    <3> QED BY <3>1, <3>2 DEF TypeOK, HeldAt
  <2> QED BY <2>1, <2>2
<1>3. CASE DropPool(p)
  BY <1>3 DEF TypeOK, DropPool, HeldAt
<1> QED BY <1>1, <1>2, <1>3

\* Memory of an item is only ever added, at the present mark of its pool.
LEMMA AllocateAdds ==
  ASSUME NEW S, Allocate(S), NEW k \in Item
  PROVE  /\ places'[k] = places[k] \cup {<<e[2], level[e[2]]>> : e \in {d \in S : d[1] = k}}
         /\ places[k] \subseteq places'[k]
         /\ \A pl \in places'[k] :
              pl \in places[k] \/ \E e \in S : e[1] = k /\ pl = <<e[2], level[e[2]]>>
<1>1. places' = [i \in Item |->
                  places[i] \cup {<<e[2], level[e[2]]>> : e \in {d \in S : d[1] = i}}]
  BY DEF Allocate
<1>2. places'[k] = places[k] \cup {<<e[2], level[e[2]]>> : e \in {d \in S : d[1] = k}}
  BY <1>1
<1> QED BY <1>2

\* Allocating from pools keeps places a relation between items and marks.
LEMMA AllocateTypes ==
  ASSUME TypeOK, NEW S \in SUBSET (Item \X Pool), Allocate(S)
  PROVE  places' \in [Item -> SUBSET (Pool \X Nat)]
<1>1. \A e \in S : <<e[2], level[e[2]]>> \in Pool \X Nat
  BY DEF TypeOK
<1>2. ASSUME NEW k \in Item PROVE places'[k] \in SUBSET (Pool \X Nat)
  BY <1>1, AllocateAdds DEF TypeOK
<1>3. places' = [k \in Item |-> places'[k]]
  BY DEF Allocate
<1> QED BY <1>2, <1>3

\* The calls on a thread's stack stay a sequence of frames.
LEMMA FrameTypes ==
  ASSUME TypeOK, NEW t \in Thread, NEW j \in Job, tls[t] \in Pool
  PROVE  Append(frames[t], [job |-> j, pre |-> tls[t], phase |-> "parsing"]) \in Seq(Frame)
<1>1. [job |-> j, pre |-> tls[t], phase |-> "parsing"] \in Frame
  BY DEF Frame
<1> QED BY <1>1, AppendProperties DEF TypeOK

LEMMA TopTypes ==
  ASSUME TypeOK, NEW t \in Thread, frames[t] # <<>>
  PROVE  /\ Len(frames[t]) \in 1..Len(frames[t])
         /\ Top(t) \in Frame
         /\ Front(frames[t]) \in Seq(Frame)
         /\ [frames[t] EXCEPT ![Len(frames[t])] = Emitting(Top(t))] \in Seq(Frame)
<1>1. frames[t] \in Seq(Frame)
  BY DEF TypeOK
<1>2. Len(frames[t]) \in Nat /\ Len(frames[t]) # 0
  BY <1>1, EmptySeq, LenProperties
<1>3. Len(frames[t]) \in 1..Len(frames[t])
  BY <1>2
<1>4. Top(t) \in Frame
  BY <1>1, <1>3, ElementOfSeq DEF Top
<1>5. Front(frames[t]) \in Seq(Frame)
  BY <1>1, <1>2, SubSeqProperties DEF Front
<1>6. Emitting(Top(t)) \in Frame
  BY <1>4 DEF Frame, Emitting
<1>7. [frames[t] EXCEPT ![Len(frames[t])] = Emitting(Top(t))] \in Seq(Frame)
  BY <1>1, <1>3, <1>6, ExceptSeq
<1> QED BY <1>3, <1>4, <1>5, <1>7

-----------------------------------------------------------------------------
(* Type correctness.                                                       *)

LEMMA StopTypes ==
  ASSUME TypeOK, NEW t \in Thread, NEW op \in Op, NEW i \in Item \cup {NoItem}, Stops(t, op, i)
  PROVE  TypeOK'
BY DEF TypeOK, Stops, javaVars, poolVars, itemVars, jobVars

LEMMA FaultTypes ==
  ASSUME TypeOK, NEW t \in Thread, NEW op \in Op, Faults(t, op)
  PROVE  TypeOK'
BY StopTypes DEF Faults

\* A call of thread t that comes to a missing or dead pool, or to lost data.
FindsNoPool(t) == ~Usable(t) /\ \E op \in Op \ {"none"} : Faults(t, op)
Misused(t) == \E op \in Op \ {"none"} : \E i \in Item : Misuses(t, op, i)

LEMMA MisuseTypes ==
  ASSUME TypeOK, NEW t \in Thread, FindsNoPool(t) \/ Misused(t)
  PROVE  TypeOK'
BY StopTypes, FaultTypes DEF FindsNoPool, Misused, Misuses

\* A call of thread t that takes memory: for item k from t's current pool, for
\* things already made from the pools they were made in.
Given(t, k, A, B) ==
  /\ A # {} => Usable(t)
  /\ Allocate(A \cup B)
  /\ \/ UNCHANGED origin
     \/ k \in Made /\ A # {} /\ origin' = [origin EXCEPT ![k] = tls[t]]

Gives(t) ==
  /\ UNCHANGED <<lib, loader, javaVars, poolVars, frames, torn, born, fault>>
  /\ source' \in [Job -> Array \cup {NoItem}] /\ blocks' \in [Job -> SUBSET Block]
  /\ \E k \in Item : \E A \in SUBSET {<<k, tls[t]>>} :
     \E B \in SUBSET {<<i, origin[i]>> : i \in {m \in Made : origin[m] # NoPool}} :
       Given(t, k, A, B)

\* Every call about sources and uniform blocks is one of the three.
LEMMA DataCases ==
  ASSUME PoolsAssumption, TypeOK, NEW t \in Thread,
         \/ \E j \in Job, i \in Array : SetSource(t, j, i)
         \/ \E j \in Job, i \in Block : AddUniformBlock(t, j, i)
         \/ \E i \in Block : CreateUniformBlock(t, i) \/ AddMember(t, i)
  PROVE  Ready(t) /\ (FindsNoPool(t) \/ Misused(t) \/ Gives(t))
<1> DEFINE Goal == Ready(t) /\ (FindsNoPool(t) \/ Misused(t) \/ Gives(t))
<1>0. source \in [Job -> Array \cup {NoItem}] /\ blocks \in [Job -> SUBSET Block]
  BY DEF TypeOK
<1>i. /\ Block \subseteq Made /\ Array \subseteq Made /\ Made \subseteq Item
      /\ \A i \in Block : Members(i) \in Item /\ \A j \in Job : Key(j, i) \in Item
  BY DEF Item, Made, Members, Key
<1>w. \A c, e : When(c, e) \in SUBSET {e} /\ (When(c, e) # {} => c)
  BY DEF When
<1>f. ASSUME NEW op \in Op, op # "none", ~Usable(t), Faults(t, op) PROVE FindsNoPool(t)
  BY <1>f DEF FindsNoPool
<1>m. ASSUME NEW op \in Op, op # "none", NEW i \in Item, Misuses(t, op, i) PROVE Misused(t)
  BY <1>m DEF Misused
<1>n. ASSUME NEW i \in Made, Usable(t), Allocate({<<i, tls[t]>>}),
             origin' = [origin EXCEPT ![i] = tls[t]],
             UNCHANGED <<lib, loader, javaVars, poolVars, frames, torn, born, fault>>,
             source' \in [Job -> Array \cup {NoItem}], blocks' \in [Job -> SUBSET Block]
      PROVE  Gives(t)
  <2>1. Allocate({<<i, tls[t]>>} \cup {})
    BY <1>n
  <2> QED BY <1>i, <1>n, <2>1 DEF Gives, Given
<1>1. ASSUME NEW j \in Job, NEW i \in Array, SetSource(t, j, i) PROVE Goal
  <2>1. CASE Usable(t)
    <3>1. source' \in [Job -> Array \cup {NoItem}] /\ blocks' = blocks
      BY <1>0, <1>1, <2>1 DEF SetSource
    <3> QED BY <1>0, <1>1, <1>i, <1>n, <2>1, <3>1 DEF SetSource
  <2>2. CASE ~Usable(t)
    BY <1>1, <1>f, <2>2 DEF SetSource, Op
  <2> QED BY <2>1, <2>2
<1>2. ASSUME NEW i \in Block, CreateUniformBlock(t, i) PROVE Goal
  <2>1. CASE Usable(t)
    BY <1>0, <1>2, <1>i, <1>n, <2>1 DEF CreateUniformBlock, jobVars
  <2>2. CASE ~Usable(t)
    BY <1>2, <1>f, <2>2 DEF CreateUniformBlock, Op
  <2> QED BY <2>1, <2>2
<1>3. ASSUME NEW i \in Block, AddMember(t, i) PROVE Goal
  <2>1. PICK long \in BOOLEAN, full \in BOOLEAN :
          \/ long /\ ~Usable(t) /\ Faults(t, "addMember")
          \/ (long => Usable(t)) /\ Misuses(t, "addMember", i)
          \/ /\ long => Usable(t)
             /\ Allocate(When(long, <<Members(i), tls[t]>>) \cup When(full, <<i, origin[i]>>))
             /\ UNCHANGED <<lib, loader, javaVars, poolVars, frames, origin, torn,
                            jobVars, fault>>
    BY <1>3 DEF AddMember
  <2>2. Ready(t) /\ origin[i] # NoPool
    BY <1>3 DEF AddMember
  <2>3. CASE long /\ ~Usable(t) /\ Faults(t, "addMember")
    BY <1>f, <2>2, <2>3 DEF Op
  <2>4. CASE Misuses(t, "addMember", i)
    BY <1>i, <1>m, <2>2, <2>4 DEF Op
  <2>5. CASE /\ long => Usable(t)
             /\ Allocate(When(long, <<Members(i), tls[t]>>) \cup When(full, <<i, origin[i]>>))
             /\ UNCHANGED <<lib, loader, javaVars, poolVars, frames, origin, torn,
                            jobVars, fault>>
    <3>1. When(full, <<i, origin[i]>>) \in
            SUBSET {<<m, origin[m]>> : m \in {n \in Made : origin[n] # NoPool}}
      BY <1>i, <1>w, <2>2
    <3>2. Members(i) \in Item /\ When(long, <<Members(i), tls[t]>>) \in SUBSET {<<Members(i), tls[t]>>}
      BY <1>i, <1>w
    <3>3. When(long, <<Members(i), tls[t]>>) # {} => Usable(t)
      BY <1>w, <2>5
    <3>4. /\ UNCHANGED <<lib, loader, javaVars, poolVars, frames, torn, born, fault>>
          /\ UNCHANGED origin
          /\ source' \in [Job -> Array \cup {NoItem}] /\ blocks' \in [Job -> SUBSET Block]
      BY <1>0, <2>5 DEF jobVars
    <3>5. Gives(t)
      BY <2>5, <3>1, <3>2, <3>3, <3>4 DEF Gives, Given
    <3> QED BY <2>2, <3>5
  <2> QED BY <2>1, <2>3, <2>4, <2>5
<1>4. ASSUME NEW j \in Job, NEW i \in Block, AddUniformBlock(t, j, i) PROVE Goal
  <2>1. PICK long \in BOOLEAN :
          \/ long /\ ~Usable(t) /\ Faults(t, "addUniformBlock")
          \/ \E k \in blocks[j] : Misuses(t, "addUniformBlock", Key(j, k))
          \/ /\ long => Usable(t)
             /\ Allocate(When(long /\ i \notin blocks[j], <<Key(j, i), tls[t]>>))
             /\ blocks' = [blocks EXCEPT ![j] = @ \cup {i}]
             /\ UNCHANGED <<lib, loader, javaVars, poolVars, frames, origin, torn, born,
                            source, fault>>
    BY <1>4 DEF AddUniformBlock
  <2>2. Ready(t)
    BY <1>4 DEF AddUniformBlock
  <2>3. CASE long /\ ~Usable(t) /\ Faults(t, "addUniformBlock")
    BY <1>f, <2>2, <2>3 DEF Op
  <2>4. CASE \E k \in blocks[j] : Misuses(t, "addUniformBlock", Key(j, k))
    BY <1>0, <1>i, <1>m, <2>2, <2>4 DEF Op
  <2>5. CASE /\ long => Usable(t)
             /\ Allocate(When(long /\ i \notin blocks[j], <<Key(j, i), tls[t]>>))
             /\ blocks' = [blocks EXCEPT ![j] = @ \cup {i}]
             /\ UNCHANGED <<lib, loader, javaVars, poolVars, frames, origin, torn, born,
                            source, fault>>
    <3> DEFINE A == When(long /\ i \notin blocks[j], <<Key(j, i), tls[t]>>)
    <3>1. Allocate(A \cup {})
      BY <2>5
    <3>2. A \in SUBSET {<<Key(j, i), tls[t]>>} /\ (A # {} => Usable(t)) /\ Key(j, i) \in Item
      BY <1>i, <1>w, <2>5
    <3>3. /\ UNCHANGED <<lib, loader, javaVars, poolVars, frames, torn, born, fault>>
          /\ UNCHANGED origin
          /\ source' \in [Job -> Array \cup {NoItem}] /\ blocks' \in [Job -> SUBSET Block]
      BY <1>0, <2>5
    <3> HIDE DEF A
    <3>4. Gives(t)
      BY <3>1, <3>2, <3>3 DEF Gives, Given
    <3> QED BY <2>2, <3>4
  <2> QED BY <2>1, <2>3, <2>4, <2>5
<1> QED BY <1>1, <1>2, <1>3, <1>4

\* Memory that a call gives is memory of pools.
LEMMA GiveTypes ==
  ASSUME TypeOK, NEW t \in Thread, Gives(t)
  PROVE  TypeOK'
<1>p. PICK k \in Item : \E A \in SUBSET {<<k, tls[t]>>} :
        \E B \in SUBSET {<<i, origin[i]>> : i \in {m \in Made : origin[m] # NoPool}} :
          Given(t, k, A, B)
  BY DEF Gives
<1>q. PICK A \in SUBSET {<<k, tls[t]>>} :
        \E B \in SUBSET {<<i, origin[i]>> : i \in {m \in Made : origin[m] # NoPool}} :
          Given(t, k, A, B)
  BY <1>p
<1>r. PICK B \in SUBSET {<<i, origin[i]>> : i \in {m \in Made : origin[m] # NoPool}} :
        Given(t, k, A, B)
  BY <1>q
<1>1. /\ A # {} => Usable(t)
      /\ Allocate(A \cup B)
      /\ \/ UNCHANGED origin
         \/ k \in Made /\ A # {} /\ origin' = [origin EXCEPT ![k] = tls[t]]
  BY <1>r DEF Given
<1>2. Usable(t) => tls[t] \in Pool
  BY DEF Usable, TypeOK
<1>3. A \cup B \in SUBSET (Item \X Pool)
  <2>1. A \in SUBSET (Item \X Pool)
    BY <1>1, <1>2
  <2>2. B \in SUBSET (Item \X Pool)
    BY <1>1 DEF TypeOK, Item
  <2> QED BY <2>1, <2>2
<1>4. places' \in [Item -> SUBSET (Pool \X Nat)]
  BY <1>1, <1>3, AllocateTypes
<1>5. origin' \in [Made -> Pool \cup {NoPool}]
  BY <1>1, <1>2 DEF TypeOK
<1> QED BY <1>4, <1>5 DEF Gives, TypeOK, javaVars, poolVars

\* A compile on its way reads lost data, or goes on, or ends.
LEMMA CompileCases ==
  ASSUME TypeOK, NEW t \in Thread, CompileStep(t)
  PROVE  /\ fault = NoFault /\ ~leaving[t] /\ frames[t] # <<>>
         /\ Misused(t) \/ ParseReturns(t) \/ ParseThrows(t) \/ CompileEnds(t)
<1>1. ASSUME NEW i, Misuses(t, "compile", i) PROVE Misused(t)
  BY <1>1 DEF Misused, Misuses, TypeOK, Op
<1> QED BY <1>1 DEF CompileStep, ParseReads, EmitReads, ParseReturns, ParseThrows, CompileEnds, InPhase

\* A compile begins, or finds no pool, or finds its source lost.
LEMMA BeginCases ==
  ASSUME TypeOK, NEW t \in Thread, NEW j \in Job, CompileBegin(t, j)
  PROVE  /\ Ready(t) /\ j \in live
         /\ \/ FindsNoPool(t) \/ Misused(t)
            \/ /\ Usable(t) /\ PushMark(tls[t]) /\ Len(frames[t]) < MaxNest
               /\ frames' = [frames EXCEPT ![t] =
                               Append(@, [job |-> j, pre |-> tls[t], phase |-> "parsing"])]
               /\ tls' = [tls EXCEPT ![t] = j]
               /\ UNCHANGED <<lib, loader, javaVars, live, origin, places, jobVars, fault>>
<1>1. CASE ~Usable(t)
  BY <1>1 DEF CompileBegin, FindsNoPool, Op
<1>2. CASE Usable(t) /\ source[j] \in torn
  BY <1>2 DEF CompileBegin, Misused, TypeOK, Op
<1>3. CASE Usable(t) /\ source[j] \notin torn
  BY <1>3 DEF CompileBegin, CompilePush
<1> QED BY <1>1, <1>2, <1>3

\* A compile that begins with a pool and with its source whole.
Begins(t, j) ==
  /\ Usable(t) /\ PushMark(tls[t])
  /\ frames' = [frames EXCEPT ![t] = Append(@, [job |-> j, pre |-> tls[t], phase |-> "parsing"])]
  /\ tls' = [tls EXCEPT ![t] = j]
  /\ UNCHANGED <<lib, loader, javaVars, live, origin, places, jobVars, fault>>

\* Every call about jobs and data is one of these.
LEMMA JobCases ==
  ASSUME PoolsAssumption, TypeOK, NEW t \in Thread, JobCall(t)
  PROVE  /\ Ready(t)
         /\ \/ FindsNoPool(t) \/ Misused(t) \/ Gives(t)
            \/ \E j \in Job : CreateJob(t, j) \/ DeleteJob(t, j) \/ (j \in live /\ Begins(t, j))
<1> DEFINE Goal == /\ Ready(t)
                   /\ \/ FindsNoPool(t) \/ Misused(t) \/ Gives(t)
                      \/ \E j \in Job : \/ CreateJob(t, j) \/ DeleteJob(t, j)
                                        \/ (j \in live /\ Begins(t, j))
<1>1. ASSUME NEW j \in Job, CreateJob(t, j) \/ DeleteJob(t, j) PROVE Goal
  <2>1. Ready(t)
    BY <1>1 DEF CreateJob, DeleteJob
  <2> QED BY <1>1, <2>1
<1>2. ASSUME NEW j \in Job, CompileBegin(t, j) PROVE Goal
  <2>1. /\ Ready(t) /\ j \in live
        /\ FindsNoPool(t) \/ Misused(t) \/ Begins(t, j)
    BY <1>2, BeginCases DEF Begins
  <2> QED BY <2>1
<1>3. ASSUME \/ \E j \in Job, i \in Array : SetSource(t, j, i)
             \/ \E j \in Job, i \in Block : AddUniformBlock(t, j, i)
             \/ \E i \in Block : CreateUniformBlock(t, i) \/ AddMember(t, i)
      PROVE  Goal
  <2>1. Ready(t) /\ (FindsNoPool(t) \/ Misused(t) \/ Gives(t))
    BY <1>3, DataCases
  <2> QED BY <2>1
<1> QED BY <1>1, <1>2, <1>3 DEF JobCall

\* A call that stops changes nothing but fault, which names it and what it found.
LEMMA StopsAlone ==
  ASSUME PoolsAssumption, NEW t \in Thread, FindsNoPool(t) \/ Misused(t)
  PROVE  /\ UNCHANGED <<lib, loader, mainThread, registered, stackDepth, leaving, tls, live,
                        level, frames, origin, places, torn, born, source, blocks>>
         /\ fault'.thread = t /\ fault' # NoFault
         /\ \/ fault'.item = NoItem /\ ~Usable(t)
            \/ fault'.item \in torn \cap Item
<1>1. ASSUME NEW op \in Op \ {"none"}, NEW i, Stops(t, op, i)
      PROVE  /\ UNCHANGED <<lib, loader, mainThread, registered, stackDepth, leaving, tls, live,
                            level, frames, origin, places, torn, born, source, blocks>>
             /\ fault'.thread = t /\ fault' # NoFault /\ fault'.item = i
  BY <1>1 DEF Stops, NoFault, javaVars, poolVars, itemVars, jobVars
<1>2. CASE FindsNoPool(t)
  BY <1>1, <1>2 DEF FindsNoPool, Faults
<1>3. CASE Misused(t)
  <2>1. PICK op \in Op \ {"none"} : \E i \in Item : Misuses(t, op, i)
    BY <1>3 DEF Misused
  <2>2. PICK i \in Item : Misuses(t, op, i)
    BY <2>1
  <2> QED BY <1>1, <2>2 DEF Misuses
<1> QED BY <1>2, <1>3

\* What a call that takes memory adds: a place in the thread's current pool for
\* item k, if new, and places in pools that things were made in.
Adds(t, k, new) ==
  /\ new => Usable(t) /\ <<tls[t], level[tls[t]]>> \in places'[k]
  /\ \A m \in Item :
       /\ places[m] \subseteq places'[m]
       /\ \A pl \in places'[m] :
            \/ pl \in places[m]
            \/ new /\ m = k /\ pl = <<tls[t], level[tls[t]]>>
            \/ m \in Made /\ origin[m] # NoPool /\ pl[1] = origin[m]
  /\ \A m \in Made : origin'[m] = origin[m] \/ (new /\ m = k /\ origin'[m] = tls[t])

LEMMA GivesAdds ==
  ASSUME TypeOK, NEW t \in Thread, Gives(t)
  PROVE  \E k \in Item : \E new \in BOOLEAN : Adds(t, k, new)
<1>p. PICK k \in Item : \E A \in SUBSET {<<k, tls[t]>>} :
        \E B \in SUBSET {<<i, origin[i]>> : i \in {m \in Made : origin[m] # NoPool}} :
          Given(t, k, A, B)
  BY DEF Gives
<1>q. PICK A \in SUBSET {<<k, tls[t]>>} :
        \E B \in SUBSET {<<i, origin[i]>> : i \in {m \in Made : origin[m] # NoPool}} :
          Given(t, k, A, B)
  BY <1>p
<1>r. PICK B \in SUBSET {<<i, origin[i]>> : i \in {m \in Made : origin[m] # NoPool}} :
        Given(t, k, A, B)
  BY <1>q
<1> DEFINE new == A # {}
<1>1. /\ new => Usable(t)
      /\ Allocate(A \cup B)
      /\ \/ UNCHANGED origin
         \/ k \in Made /\ new /\ origin' = [origin EXCEPT ![k] = tls[t]]
  BY <1>r DEF Given
<1>2. new => <<k, tls[t]>> \in A \cup B
  OBVIOUS
<1>3. new => <<tls[t], level[tls[t]]>> \in places'[k]
  <2>1. places'[k] = places[k] \cup {<<e[2], level[e[2]]>> : e \in {d \in A \cup B : d[1] = k}}
    BY <1>1, AllocateAdds
  <2>2. ASSUME new PROVE <<k, tls[t]>> \in {d \in A \cup B : d[1] = k}
    BY <1>2, <2>2
  <2> QED BY <2>1, <2>2
<1>4. ASSUME NEW m \in Item, NEW pl \in places'[m]
      PROVE  \/ pl \in places[m]
             \/ new /\ m = k /\ pl = <<tls[t], level[tls[t]]>>
             \/ m \in Made /\ origin[m] # NoPool /\ pl[1] = origin[m]
  <2>1. pl \in places[m] \/ \E e \in A \cup B : e[1] = m /\ pl = <<e[2], level[e[2]]>>
    BY <1>1, <1>4, AllocateAdds
  <2>2. ASSUME NEW e \in A, e[1] = m, pl = <<e[2], level[e[2]]>>
        PROVE  new /\ m = k /\ pl = <<tls[t], level[tls[t]]>>
    BY <2>2
  <2>3. ASSUME NEW e \in B, e[1] = m, pl = <<e[2], level[e[2]]>>
        PROVE  m \in Made /\ origin[m] # NoPool /\ pl[1] = origin[m]
    BY <2>3
  <2> QED BY <2>1, <2>2, <2>3
<1>5. \A m \in Item : places[m] \subseteq places'[m]
  BY <1>1, AllocateAdds
<1>6. \A m \in Made : origin'[m] = origin[m] \/ (new /\ m = k /\ origin'[m] = tls[t])
  BY <1>1 DEF TypeOK
<1>7. Adds(t, k, new)
  BY <1>1, <1>3, <1>4, <1>5, <1>6 DEF Adds
<1> QED BY <1>7

LEMMA LoadTypes ==
  ASSUME PoolsAssumption, TypeOK,
         \/ \E t \in Thread : OnLoad(t)
         \/ \E ok \in InitResults : FinishInit(ok)
         \/ OnUnload
  PROVE  TypeOK'
<1>0. MainPool \in Pool
  BY DEF Pool
<1>1. CASE \E t \in Thread : OnLoad(t)
  BY <1>0, <1>1 DEF OnLoad, TypeOK, javaVars, itemVars, jobVars
<1>2. CASE \E ok \in InitResults : FinishInit(ok)
  BY <1>2 DEF FinishInit, TypeOK, poolVars, itemVars, jobVars
<1>3. CASE OnUnload
  <2>1. level' \in [Pool -> Nat] /\ torn' \in SUBSET Item
    BY <1>0, <1>3, MarkTypes DEF OnUnload, TypeOK
  <2>2. live' \in SUBSET Pool /\ fault' \in [thread : Thread \cup {NoThread}, op : Op, item : Item \cup {NoItem}]
    BY <1>3 DEF OnUnload, DropPool, TypeOK, Op
  <2> QED BY <1>3, <2>1, <2>2 DEF OnUnload, TypeOK, javaVars, jobVars
<1> QED BY <1>1, <1>2, <1>3

LEMMA ManagerTypes ==
  ASSUME PoolsAssumption, TypeOK, NEW t \in Thread, ManagerCall(t)
  PROVE  TypeOK'
<1>0. /\ t \in Pool
      /\ Usable(t) => tls[t] \in Pool
  BY DEF Pool, Usable, TypeOK
<1>d. Usable(t) /\ DetachPool(t) =>
        /\ level' \in [Pool -> Nat] /\ torn' \in SUBSET Item
        /\ live' \in SUBSET Pool /\ tls' \in [Thread -> Pool \cup {NoPool}]
  BY <1>0, MarkTypes DEF DetachPool, DropPool, TypeOK
<1>1. CASE RegisterWorkThread(t)
  BY <1>0, <1>1 DEF RegisterWorkThread, WorkerPool, TypeOK, itemVars, jobVars
<1>2. CASE UnregisterWorkThread(t)
  <2>1. CASE Usable(t)
    <3>1. /\ DetachPool(t)
          /\ registered' = [registered EXCEPT ![t] = FALSE]
          /\ leaving' = [leaving EXCEPT ![t] = TRUE]
          /\ UNCHANGED <<lib, loader, mainThread, stackDepth, frames, origin, places,
                         jobVars, fault>>
      BY <1>2, <2>1 DEF UnregisterWorkThread, RegisteredAfterwards
    <3>2. registered' \in [Thread -> BOOLEAN] /\ leaving' \in [Thread -> BOOLEAN]
      BY <3>1 DEF TypeOK
    <3> QED BY <1>d, <2>1, <3>1, <3>2 DEF TypeOK, jobVars
  <2>2. CASE ~Usable(t)
    BY <1>2, <2>2, FaultTypes DEF UnregisterWorkThread, Op
  <2> QED BY <2>1, <2>2
<1>3. CASE UnregisterAgain(t)
  <2>1. CASE Usable(t)
    <3>1. leaving' \in [Thread -> BOOLEAN]
      <4>1. leaving' = [leaving EXCEPT ![t] = FALSE]
        BY <1>3, <2>1 DEF UnregisterAgain
      <4> QED BY <4>1 DEF TypeOK
    <3>2. UNCHANGED <<lib, loader, mainThread, registered, stackDepth, frames,
                      origin, places, jobVars, fault>>
      BY <1>3, <2>1 DEF UnregisterAgain
    <3>3. DetachPool(t)
      BY <1>3, <2>1 DEF UnregisterAgain
    <3> QED BY <1>d, <2>1, <3>1, <3>2, <3>3 DEF TypeOK, jobVars
  <2>2. CASE ~Usable(t)
    BY <1>3, <2>2, FaultTypes DEF UnregisterAgain, Op
  <2> QED BY <2>1, <2>2
<1>4. CASE PushMemoryPool(t)
  <2>1. level' \in [Pool -> Nat] /\ torn' \in SUBSET Item
    BY <1>0, <1>4, MarkTypes DEF PushMemoryPool, TypeOK
  <2>2. fault' \in [thread : Thread \cup {NoThread}, op : Op, item : Item \cup {NoItem}]
    BY <1>4 DEF PushMemoryPool, TypeOK, Op
  <2> QED BY <1>4, <2>1, <2>2 DEF PushMemoryPool, TypeOK, jobVars
<1>5. CASE PopMemoryPool(t)
  <2>1. level' \in [Pool -> Nat] /\ torn' \in SUBSET Item
    BY <1>0, <1>5, MarkTypes DEF PopMemoryPool, TypeOK
  <2>2. fault' \in [thread : Thread \cup {NoThread}, op : Op, item : Item \cup {NoItem}]
    BY <1>5 DEF PopMemoryPool, TypeOK, Op
  <2>3. stackDepth' \in [Thread -> Nat]
    BY <1>5 DEF PopMemoryPool, NewDepthAllowed, TypeOK
  <2> QED BY <1>5, <2>1, <2>2, <2>3 DEF PopMemoryPool, TypeOK, jobVars
<1> QED BY <1>1, <1>2, <1>3, <1>4, <1>5 DEF ManagerCall

LEMMA JobTypes ==
  ASSUME PoolsAssumption, TypeOK, NEW t \in Thread, JobCall(t)
  PROVE  TypeOK'
<1>0. /\ Job \subseteq Pool /\ Block \subseteq Item /\ Array \subseteq Item
      /\ Usable(t) => tls[t] \in Pool
  BY DEF Pool, Item, Made, Usable, TypeOK
<1>1. ASSUME NEW j \in Job, CreateJob(t, j) PROVE TypeOK'
  BY <1>0, <1>1 DEF CreateJob, TypeOK, javaVars, itemVars
<1>2. ASSUME NEW j \in Job, DeleteJob(t, j) PROVE TypeOK'
  <2>1. level' \in [Pool -> Nat] /\ torn' \in SUBSET Item
    BY <1>0, <1>2, MarkTypes DEF DeleteJob
  <2> QED BY <1>2, <2>1 DEF DeleteJob, DropPool, TypeOK, javaVars, jobVars
<1>3. ASSUME NEW j \in Job, CompileBegin(t, j) PROVE TypeOK'
  <2>1. CASE FindsNoPool(t) \/ Misused(t)
    BY <2>1, MisuseTypes
  <2>2. CASE /\ Usable(t) /\ PushMark(tls[t]) /\ Len(frames[t]) < MaxNest
             /\ frames' = [frames EXCEPT ![t] =
                             Append(@, [job |-> j, pre |-> tls[t], phase |-> "parsing"])]
             /\ tls' = [tls EXCEPT ![t] = j]
             /\ UNCHANGED <<lib, loader, javaVars, live, origin, places, jobVars, fault>>
    <3>1. level' \in [Pool -> Nat] /\ torn' \in SUBSET Item
      BY <1>0, <2>2, MarkTypes
    <3>2. frames' \in [Thread -> Seq(Frame)]
      <4>1. Append(frames[t], [job |-> j, pre |-> tls[t], phase |-> "parsing"]) \in Seq(Frame)
        BY <1>0, <2>2, FrameTypes
      <4> QED BY <2>2, <4>1 DEF TypeOK
    <3>3. tls' \in [Thread -> Pool \cup {NoPool}]
      BY <1>0, <2>2 DEF TypeOK
    <3> QED BY <2>2, <3>1, <3>2, <3>3 DEF TypeOK, javaVars, jobVars
  <2> QED BY <1>3, <2>1, <2>2, BeginCases
<1>4. ASSUME \/ \E j \in Job, i \in Array : SetSource(t, j, i)
             \/ \E j \in Job, i \in Block : AddUniformBlock(t, j, i)
             \/ \E i \in Block : CreateUniformBlock(t, i) \/ AddMember(t, i)
      PROVE  TypeOK'
  BY <1>4, DataCases, MisuseTypes, GiveTypes
<1> QED BY <1>1, <1>2, <1>3, <1>4 DEF JobCall

LEMMA CompileTypes ==
  ASSUME PoolsAssumption, TypeOK, NEW t \in Thread, CompileStep(t)
  PROVE  TypeOK'
<1>0. /\ frames[t] # <<>>
      /\ Usable(t) => tls[t] \in Pool
  BY CompileCases DEF Usable, TypeOK
<1>1. CASE ParseReturns(t)
  <2>1. Top(t).pre \in Pool
    BY <1>0, TopTypes DEF Frame
  <2>2. tls' \in [Thread -> Pool \cup {NoPool}]
    BY <1>1, <2>1 DEF ParseReturns, PrePool, TypeOK
  <2>3. frames' \in [Thread -> Seq(Frame)]
    BY <1>0, <1>1, TopTypes DEF ParseReturns, TypeOK
  <2> QED BY <1>1, <2>2, <2>3 DEF ParseReturns, TypeOK, javaVars, itemVars, jobVars
<1>2. CASE LeaveCompile(t)
  <2>1. level' \in [Pool -> Nat] /\ torn' \in SUBSET Item
    BY <1>0, <1>2, MarkTypes DEF LeaveCompile, CompilePop, TypeOK
  <2>2. fault' \in [thread : Thread \cup {NoThread}, op : Op, item : Item \cup {NoItem}]
    BY <1>2 DEF LeaveCompile, TypeOK, Op
  <2>3. frames' \in [Thread -> Seq(Frame)]
    BY <1>0, <1>2, TopTypes DEF LeaveCompile, TypeOK
  <2> QED BY <1>2, <2>1, <2>2, <2>3 DEF LeaveCompile, TypeOK, javaVars, jobVars
<1> QED BY <1>1, <1>2, CompileCases, MisuseTypes DEF ParseThrows, CompileEnds

LEMMA TypeInit == Init => TypeOK
BY EmptySeq DEF Init, TypeOK, NoFault, Op

LEMMA TypeStep ==
  ASSUME PoolsAssumption, TypeOK, [Next]_vars
  PROVE  TypeOK'
<1>1. CASE Next
  <2>1. ASSUME NEW t \in Thread, ManagerCall(t) \/ JobCall(t) \/ CompileStep(t)
        PROVE TypeOK'
    BY <2>1, ManagerTypes, JobTypes, CompileTypes
  <2> QED BY <1>1, <2>1, LoadTypes DEF Next
<1>2. CASE UNCHANGED vars
  BY <1>2 DEF vars, javaVars, poolVars, itemVars, jobVars, TypeOK
<1> QED BY <1>1, <1>2

\* Every reachable state is well typed, whatever callbacks and parse may do.
THEOREM TypeCorrect == ASSUME PoolsAssumption PROVE Spec => []TypeOK
<1>1. TypeOK /\ [Next]_vars => TypeOK'
  BY TypeStep
<1> QED BY <1>1, TypeInit, PTL DEF Spec

-----------------------------------------------------------------------------
(* The pool chain: PoolInv is inductive when parse does not throw.         *)

LEMMA OnlyOne == \A k \in Nat : k # 0 /\ k <= 1 => k = 1
OBVIOUS

LEMMA Predecessor ==
  \A n \in Nat : n \in 1..n /\ n # 1 =>
    n - 1 \in 1..n /\ n - 1 \in 1..(n - 1) /\ n - 1 < n
OBVIOUS

\* A thread whose frames, pool pointer and registration stay has its chain still.
LEMMA ChainKept ==
  ASSUME NEW u \in Thread, Chain(u),
         frames'[u] = frames[u], tls'[u] = tls[u], registered'[u] = registered[u]
  PROVE  Chain(u)'
BY DEF Chain, Home, Top

\* A registered thread never allocates from the main thread's pool.
LEMMA OffMainPool ==
  ASSUME PoolsAssumption, TypeOK, NEW t \in Thread, registered[t], Chain(t)
  PROVE  tls[t] # MainPool
<1>1. t # MainPool /\ \A j \in Job : j # MainPool
  BY DEF PoolsAssumption
<1>2. CASE frames[t] = <<>>
  BY <1>1, <1>2 DEF Chain, Home
<1>3. CASE frames[t] # <<>>
  <2> DEFINE n == Len(frames[t])
  <2>1. n \in 1..n /\ frames[t][n] \in Frame /\ Top(t) = frames[t][n]
    BY <1>3, TopTypes DEF Top
  <2>2. n # 1 => frames[t][n - 1] \in Frame
    <3>1. frames[t] \in Seq(Frame)
      BY DEF TypeOK
    <3>2. n \in Nat
      BY <3>1, LenProperties
    <3>3. n # 1 => n - 1 \in 1..n
      BY <2>1, <3>2, Predecessor
    <3> QED BY <3>1, <3>3, ElementOfSeq
  <2>3. frames[t][n].pre = IF n = 1 THEN t ELSE frames[t][n - 1].job
    BY <2>1 DEF Chain, Home
  <2>4. frames[t][n].pre # MainPool /\ frames[t][n].job # MainPool
    BY <1>1, <2>1, <2>2, <2>3 DEF Frame
  <2> QED BY <1>3, <2>1, <2>4 DEF Chain
<1> QED BY <1>2, <1>3

\* A thread the library does not serve has no pool to use.
LEMMA OutsideUnusable ==
  ASSUME PoolsAssumption, TypeOK, OutsideInv, NEW t \in Thread,
         t # loader, ~registered[t]
  PROVE  ~Usable(t)
BY DEF PoolsAssumption, TypeOK, OutsideInv, Usable, Pool

\* Steps that leave threads, registrations, pointers and frames alone.
LEMMA QuietStep ==
  ASSUME PoolInv,
         UNCHANGED <<lib, loader, mainThread, registered, leaving, tls, frames>>,
         MainPool \in live => MainPool \in live',
         lib = "unloaded" => fault' = fault,
         fault # NoFault => fault' = fault
  PROVE  (LibInv /\ OutsideInv /\ ChainInv)'
<1>1. LibInv'
  BY DEF PoolInv, LibInv
<1>2. OutsideInv'
  BY DEF PoolInv, OutsideInv
<1>3. ChainInv'
  BY ChainKept DEF PoolInv, ChainInv, Running
<1> QED BY <1>1, <1>2, <1>3

\* A fault changes nothing but fault.
LEMMA StopStep ==
  ASSUME PoolInv, NEW t \in Thread, NEW op, NEW i, Stops(t, op, i),
         fault = NoFault, lib # "unloaded"
  PROVE  (LibInv /\ OutsideInv /\ ChainInv)'
<1>1. UNCHANGED <<lib, loader, mainThread, registered, leaving, tls, frames, live>>
  BY DEF Stops, javaVars, poolVars
<1> QED BY <1>1, QuietStep

LEMMA FaultStep ==
  ASSUME PoolInv, NEW t \in Thread, NEW op \in Op, Faults(t, op),
         Ready(t) \/ (fault = NoFault /\ lib # "unloaded")
  PROVE  (LibInv /\ OutsideInv /\ ChainInv)'
BY StopStep DEF Faults, Ready

LEMMA MisuseStep ==
  ASSUME PoolInv, NEW t \in Thread, FindsNoPool(t) \/ Misused(t),
         fault = NoFault, lib # "unloaded"
  PROVE  (LibInv /\ OutsideInv /\ ChainInv)'
BY StopStep DEF FindsNoPool, Misused, Misuses, Faults

LEMMA LoadStep ==
  ASSUME PoolsAssumption, InitResults = {TRUE}, PoolInv,
         \/ \E t \in Thread : OnLoad(t)
         \/ \E ok \in InitResults : FinishInit(ok)
         \/ OnUnload
  PROVE  (LibInv /\ OutsideInv /\ ChainInv)'
<1>1. ASSUME NEW t \in Thread, OnLoad(t) PROVE (LibInv /\ OutsideInv /\ ChainInv)'
  <2>1. /\ lib = "unloaded" /\ lib' = "loaded" /\ loader' = t
        /\ tls' = [tls EXCEPT ![t] = MainPool] /\ live' = live \cup {MainPool}
        /\ UNCHANGED <<mainThread, registered, leaving, frames, fault>>
    BY <1>1 DEF OnLoad, javaVars
  <2>2. /\ fault = NoFault /\ mainThread = NoThread
        /\ \A u \in Thread : ~registered[u] /\ ~leaving[u] /\ tls[u] = NoPool /\ frames[u] = <<>>
    BY <2>1 DEF PoolInv, LibInv
  <2>3. tls'[t] = MainPool /\ \A u \in Thread \ {t} : tls'[u] = NoPool
    BY <2>1, <2>2 DEF PoolInv, TypeOK
  <2>4. LibInv'
    BY <2>1, <2>2 DEF LibInv
  <2>5. OutsideInv'
    BY <2>1, <2>2, <2>3 DEF OutsideInv
  <2>6. frames'[t] = <<>> /\ Len(frames'[t]) = 0 /\ ~registered'[t]
    BY <2>1, <2>2
  <2>7. Chain(t)'
    BY <2>3, <2>6 DEF Chain, Home
  <2>8. ChainInv'
    BY <2>1, <2>2, <2>7 DEF ChainInv
  <2> QED BY <2>4, <2>5, <2>8
<1>2. ASSUME FinishInit(TRUE) PROVE (LibInv /\ OutsideInv /\ ChainInv)'
  <2>1. /\ lib = "loaded" /\ lib' = "available" /\ mainThread' = loader
        /\ UNCHANGED <<loader, registered, leaving, tls, live, frames, fault>>
    BY <1>2 DEF FinishInit, poolVars
  <2>2. LibInv'
    BY <2>1 DEF PoolInv, LibInv
  <2>3. OutsideInv'
    BY <2>1 DEF PoolInv, OutsideInv
  <2>4. ChainInv'
    BY <2>1, ChainKept DEF PoolInv, ChainInv, Running
  <2> QED BY <2>2, <2>3, <2>4
<1>3. ASSUME OnUnload PROVE (LibInv /\ OutsideInv /\ ChainInv)'
  <2>1. /\ lib = "available" /\ lib' = "gone"
        /\ UNCHANGED <<loader, mainThread, registered, leaving, tls, frames>>
    BY <1>3 DEF OnUnload, PoolInv, LibInv, javaVars
  <2>2. LibInv'
    BY <2>1 DEF PoolInv, LibInv
  <2>3. OutsideInv'
    BY <2>1 DEF PoolInv, OutsideInv
  <2>4. ChainInv'
    BY <2>1 DEF ChainInv, Running
  <2> QED BY <2>2, <2>3, <2>4
<1> QED BY <1>1, <1>2, <1>3

\* Ready threads and what readiness says of the library.
LEMMA ReadyFacts ==
  ASSUME PoolInv, NEW t \in Thread, Ready(t)
  PROVE  /\ fault = NoFault /\ lib \in {"loaded", "available"} /\ Running
         /\ MainPool \in live /\ ~leaving[t]
         /\ t = loader => mainThread = t
         /\ ~registered[t] /\ t # loader => frames[t] = <<>>
BY DEF PoolInv, Ready, LibInv, OutsideInv, Running

LEMMA RegisterStep ==
  ASSUME PoolsAssumption, PoolInv, NEW t \in Thread, RegisterWorkThread(t)
  PROVE  (LibInv /\ OutsideInv /\ ChainInv)'
<1>1. /\ Ready(t) /\ t # mainThread /\ ~registered[t]
      /\ registered' = [registered EXCEPT ![t] = TRUE]
      /\ tls' = [tls EXCEPT ![t] = t]
      /\ live' = live \cup {t}
      /\ UNCHANGED <<lib, loader, mainThread, leaving, frames, fault>>
  BY DEF RegisterWorkThread, WorkerPool
<1>2. /\ t # loader /\ ~leaving[t] /\ frames[t] = <<>> /\ Running
      /\ lib \in {"loaded", "available"} /\ MainPool \in live
  BY <1>1, ReadyFacts
<1>3. /\ registered'[t] /\ tls'[t] = t
      /\ \A u \in Thread \ {t} : registered'[u] = registered[u] /\ tls'[u] = tls[u]
  BY <1>1 DEF PoolInv, TypeOK
<1>4. LibInv'
  BY <1>1, <1>2, <1>3 DEF PoolInv, LibInv
<1>5. OutsideInv'
  BY <1>1, <1>2, <1>3 DEF PoolInv, OutsideInv
<1>6. frames'[t] = <<>> /\ Len(frames'[t]) = 0
  BY <1>1, <1>2
<1>7. Chain(t)'
  BY <1>3, <1>6 DEF Chain, Home
<1>8. ASSUME NEW u \in Thread \ {t}, registered'[u] \/ u = loader' PROVE Chain(u)'
  BY <1>1, <1>2, <1>3, <1>8, ChainKept DEF PoolInv, ChainInv
<1>9. ChainInv'
  BY <1>7, <1>8 DEF ChainInv
<1> QED BY <1>4, <1>5, <1>9

LEMMA UnregisterStep ==
  ASSUME PoolsAssumption, PoolInv, NEW t \in Thread,
         UnregisterWorkThread(t) \/ UnregisterAgain(t)
  PROVE  (LibInv /\ OutsideInv /\ ChainInv)'
<1>1. CASE UnregisterWorkThread(t) /\ Usable(t)
  <2>1. /\ Ready(t) /\ registered[t]
        /\ registered' = [registered EXCEPT ![t] = FALSE]
        /\ leaving' = [leaving EXCEPT ![t] = TRUE]
        /\ tls' = [tls EXCEPT ![t] = NoPool]
        /\ live' = live \ {tls[t]}
        /\ UNCHANGED <<lib, loader, mainThread, frames, fault>>
    BY <1>1 DEF UnregisterWorkThread, RegisteredAfterwards, DetachPool, DropPool
  <2>2. /\ Running /\ lib \in {"loaded", "available"} /\ MainPool \in live
        /\ t # loader
    BY <2>1, ReadyFacts DEF PoolInv, LibInv
  <2>3. MainPool \in live'
    BY <2>1, <2>2, OffMainPool DEF PoolInv, ChainInv
  <2>4. /\ ~registered'[t] /\ leaving'[t] /\ tls'[t] = NoPool
        /\ \A u \in Thread \ {t} : /\ registered'[u] = registered[u] /\ tls'[u] = tls[u]
                                   /\ leaving'[u] = leaving[u]
    BY <2>1 DEF PoolInv, TypeOK
  <2>5. LibInv'
    BY <2>1, <2>2, <2>3, <2>4 DEF PoolInv, LibInv
  <2>6. OutsideInv'
    BY <2>1, <2>2, <2>4 DEF PoolInv, OutsideInv
  <2>7. ASSUME NEW u \in Thread, registered'[u] \/ u = loader' PROVE Chain(u)'
    BY <2>1, <2>2, <2>4, <2>7, ChainKept DEF PoolInv, ChainInv
  <2>8. ChainInv'
    BY <2>7 DEF ChainInv
  <2> QED BY <2>5, <2>6, <2>8
<1>2. CASE UnregisterWorkThread(t) /\ ~Usable(t)
  <2>1. Ready(t) /\ Faults(t, "unregister")
    BY <1>2 DEF UnregisterWorkThread
  <2> QED BY <2>1, FaultStep DEF Op
<1>3. CASE UnregisterAgain(t)
  <2>1. ~registered[t] /\ t # loader /\ fault = NoFault /\ lib # "unloaded"
    <3>1. CASE leaving[t] /\ fault = NoFault
      BY <3>1 DEF PoolInv, OutsideInv, LibInv
    <3>2. CASE Ready(t) /\ t # mainThread /\ ~registered[t]
      BY <3>2, ReadyFacts
    <3> QED BY <1>3, <3>1, <3>2 DEF UnregisterAgain
  <2>2. Faults(t, "unregister")
    BY <1>3, <2>1, OutsideUnusable DEF UnregisterAgain, PoolInv
  <2> QED BY <2>1, <2>2, FaultStep DEF Op
<1> QED BY <1>1, <1>2, <1>3

\* Calls that touch marks and data only, or fault.
LEMMA DataStep ==
  ASSUME PoolsAssumption, PoolInv, NEW t \in Thread,
         \/ PushMemoryPool(t) \/ PopMemoryPool(t)
         \/ \E j \in Job : CreateJob(t, j) \/ DeleteJob(t, j)
         \/ \E j \in Job, i \in Array : SetSource(t, j, i)
         \/ \E j \in Job, i \in Block : AddUniformBlock(t, j, i)
         \/ \E i \in Block : CreateUniformBlock(t, i) \/ AddMember(t, i)
  PROVE  (LibInv /\ OutsideInv /\ ChainInv)'
<1>1. CASE \/ PushMemoryPool(t) \/ PopMemoryPool(t)
           \/ \E j \in Job : CreateJob(t, j) \/ DeleteJob(t, j)
  <2>0. Ready(t)
    BY <1>1 DEF PushMemoryPool, PopMemoryPool, CreateJob, DeleteJob
  <2>1. fault = NoFault /\ lib # "unloaded"
    BY <2>0, ReadyFacts
  <2>2. \A j \in Job : j # MainPool
    BY DEF PoolsAssumption
  <2>3. UNCHANGED <<lib, loader, mainThread, registered, leaving, tls, frames>>
    BY <1>1 DEF PushMemoryPool, PopMemoryPool, CreateJob, DeleteJob, javaVars
  <2>4. MainPool \in live => MainPool \in live'
    BY <1>1, <2>2 DEF PushMemoryPool, PopMemoryPool, CreateJob, DeleteJob, DropPool
  <2> QED BY <2>1, <2>3, <2>4, QuietStep
<1>2. CASE \/ \E j \in Job, i \in Array : SetSource(t, j, i)
           \/ \E j \in Job, i \in Block : AddUniformBlock(t, j, i)
           \/ \E i \in Block : CreateUniformBlock(t, i) \/ AddMember(t, i)
  <2>1. Ready(t) /\ (FindsNoPool(t) \/ Misused(t) \/ Gives(t))
    BY <1>2, DataCases DEF PoolInv
  <2>2. fault = NoFault /\ lib # "unloaded"
    BY <2>1, ReadyFacts
  <2>3. CASE Gives(t)
    BY <2>2, <2>3, QuietStep DEF Gives, javaVars, poolVars
  <2> QED BY <2>1, <2>2, <2>3, MisuseStep
<1> QED BY <1>1, <1>2

LEMMA BeginStep ==
  ASSUME PoolsAssumption, PoolInv, NEW t \in Thread, NEW j \in Job, CompileBegin(t, j)
  PROVE  (LibInv /\ OutsideInv /\ ChainInv)'
<1>1. CASE FindsNoPool(t) \/ Misused(t)
  <2>1. fault = NoFault /\ lib # "unloaded"
    BY BeginCases, ReadyFacts DEF PoolInv
  <2> QED BY <1>1, <2>1, MisuseStep
<1>2. CASE ~(FindsNoPool(t) \/ Misused(t))
  <2> DEFINE f == [job |-> j, pre |-> tls[t], phase |-> "parsing"]
             n == Len(frames[t])
  <2>1. /\ Ready(t) /\ Usable(t)
        /\ frames' = [frames EXCEPT ![t] = Append(@, f)]
        /\ tls' = [tls EXCEPT ![t] = j]
        /\ UNCHANGED <<lib, loader, mainThread, registered, leaving, live, fault>>
    BY <1>2, BeginCases DEF javaVars, PoolInv
  <2>2. /\ Running /\ lib \in {"loaded", "available"} /\ ~leaving[t]
        /\ registered[t] \/ t = loader
        /\ lib = "loaded" => t # loader
    BY <2>1, ReadyFacts, OutsideUnusable DEF PoolInv, Ready
  <2>3. Chain(t)
    BY <2>2 DEF PoolInv, ChainInv
  <2>4. /\ frames[t] \in Seq(Frame) /\ f \in Frame /\ n \in Nat
        /\ frames[t] # <<>> => n # 0 /\ Top(t).phase = "parsing"
    <3>1. frames[t] \in Seq(Frame) /\ tls[t] \in Pool
      BY <2>1 DEF PoolInv, TypeOK, Usable
    <3>2. f \in Frame
      BY <3>1 DEF Frame
    <3>3. frames[t] # <<>> => Top(t).phase = "parsing"
      BY <2>1 DEF Ready
    <3> QED BY <3>1, <3>2, <3>3, LenProperties, EmptySeq
  <2>5. /\ frames'[t] = Append(frames[t], f) /\ tls'[t] = j
        /\ \A u \in Thread \ {t} : frames'[u] = frames[u] /\ tls'[u] = tls[u]
    BY <2>1 DEF PoolInv, TypeOK
  <2>6. /\ frames'[t] # <<>> /\ Len(frames'[t]) = n + 1
        /\ \A m \in 1..n : frames'[t][m] = frames[t][m]
        /\ frames'[t][n + 1] = f
    BY <2>4, <2>5, AppendProperties
  <2>7. Top(t)' = f
    BY <2>6 DEF Top
  <2>8. f.pre = IF n + 1 = 1 THEN Home(t) ELSE frames[t][n].job
    <3>1. CASE frames[t] = <<>>
      <4>1. n = 0
        BY <3>1, EmptySeq
      <4> QED BY <2>3, <3>1, <4>1 DEF Chain
    <3>2. CASE frames[t] # <<>>
      BY <2>3, <2>4, <3>2 DEF Chain, Top
    <3> QED BY <3>1, <3>2
  <2>9. Home(t)' = Home(t)
    BY <2>1 DEF Home
  <2>10. ASSUME NEW m \in 1..(n + 1)
         PROVE  /\ frames'[t][m].pre = IF m = 1 THEN Home(t) ELSE frames'[t][m - 1].job
                /\ m < n + 1 => frames'[t][m].phase = "parsing"
    <3>1. CASE m = n + 1
      <4>1. m # 1 => n \in 1..n
        BY <2>4, <3>1
      <4> QED BY <2>6, <2>8, <3>1, <4>1, <2>4
    <3>2. CASE m # n + 1
      <4>1. m \in 1..n /\ (m # 1 => m - 1 \in 1..n)
        BY <2>4, <3>2
      <4>2. /\ frames[t][m].pre = IF m = 1 THEN Home(t) ELSE frames[t][m - 1].job
            /\ m < n => frames[t][m].phase = "parsing"
        BY <2>3, <4>1 DEF Chain
      <4>3. m = n => frames[t][m].phase = "parsing"
        <5>1. m = n => frames[t] # <<>>
          BY <4>1, EmptySeq
        <5> QED BY <2>4, <5>1 DEF Top
      <4>4. frames'[t][m] = frames[t][m] /\ (m # 1 => frames'[t][m - 1] = frames[t][m - 1])
        BY <2>6, <4>1
      <4>5. m < n \/ m = n
        BY <2>4, <4>1
      <4> HIDE DEF n, f
      <4> QED BY <4>2, <4>3, <4>4, <4>5
    <3> QED BY <3>1, <3>2
  <2>11. Chain(t)'
    BY <2>5, <2>6, <2>7, <2>9, <2>10 DEF Chain
  <2>12. ASSUME NEW u \in Thread \ {t}, registered'[u] \/ u = loader' PROVE Chain(u)'
    BY <2>1, <2>2, <2>5, <2>12, ChainKept DEF PoolInv, ChainInv
  <2>13. ChainInv'
    BY <2>11, <2>12 DEF ChainInv
  <2>14. LibInv'
    BY <2>1, <2>2, <2>5 DEF PoolInv, LibInv
  <2>15. OutsideInv'
    BY <2>1, <2>2, <2>5 DEF PoolInv, OutsideInv
  <2> QED BY <2>13, <2>14, <2>15
<1> QED BY <1>1, <1>2

LEMMA ReturnStep ==
  ASSUME PoolsAssumption, ~ParseMayThrow, PoolInv, NEW t \in Thread, CompileStep(t)
  PROVE  (LibInv /\ OutsideInv /\ ChainInv)'
<1> DEFINE n == Len(frames[t])
<1>1. /\ fault = NoFault /\ ~leaving[t] /\ frames[t] # <<>>
      /\ lib # "unloaded" /\ (lib = "loaded" => t # loader)
      /\ registered[t] \/ t = loader
  <2>1. fault = NoFault /\ ~leaving[t] /\ frames[t] # <<>>
    BY CompileCases DEF PoolInv
  <2> QED BY <2>1 DEF PoolInv, LibInv, OutsideInv
<1>2. /\ frames[t] \in Seq(Frame) /\ n \in Nat /\ n # 0 /\ Top(t) = frames[t][n]
      /\ Top(t) \in Frame /\ n \in 1..n
  <2>1. frames[t] \in Seq(Frame)
    BY DEF PoolInv, TypeOK
  <2> QED BY <1>1, <2>1, LenProperties, EmptySeq, TopTypes DEF Top, PoolInv
<1>3. Running => Chain(t)
  BY <1>1 DEF PoolInv, ChainInv
<1>4. CASE ParseReturns(t)
  <2>1. /\ tls' = [tls EXCEPT ![t] = Top(t).pre]
        /\ frames' = [frames EXCEPT ![t] = [@ EXCEPT ![n] = Emitting(Top(t))]]
        /\ UNCHANGED <<lib, loader, mainThread, registered, leaving, live, fault>>
    BY <1>4 DEF ParseReturns, PrePool, javaVars
  <2>2. /\ frames'[t] = [frames[t] EXCEPT ![n] = Emitting(Top(t))] /\ tls'[t] = Top(t).pre
        /\ \A u \in Thread \ {t} : frames'[u] = frames[u] /\ tls'[u] = tls[u]
    BY <2>1 DEF PoolInv, TypeOK
  <2>3. Emitting(Top(t)) \in Frame
    BY <1>2 DEF Emitting, Frame
  <2>4. /\ Len(frames'[t]) = n
        /\ \A m \in 1..n : frames'[t][m] = IF m = n THEN Emitting(Top(t)) ELSE frames[t][m]
    BY <1>2, <2>2, <2>3, ExceptSeq
  <2>5. frames'[t] # <<>>
    BY <1>2, <2>4, EmptySeq
  <2>6. Top(t)' = Emitting(Top(t))
    BY <1>2, <2>4 DEF Top
  <2>7. Home(t)' = Home(t)
    BY <2>1 DEF Home
  <2>8. ASSUME Running, NEW m \in 1..n
        PROVE  /\ frames'[t][m].pre = IF m = 1 THEN Home(t) ELSE frames'[t][m - 1].job
               /\ m < n => frames'[t][m].phase = "parsing"
    <3>1. m # 1 => m - 1 \in 1..n /\ m - 1 # n
      BY <1>2
    <3>2. /\ frames[t][m].pre = IF m = 1 THEN Home(t) ELSE frames[t][m - 1].job
          /\ m < n => frames[t][m].phase = "parsing"
      BY <1>3, <2>8 DEF Chain
    <3>3. frames'[t][m].pre = frames[t][m].pre
      BY <1>2, <2>4 DEF Emitting
    <3> QED BY <1>2, <2>4, <3>1, <3>2, <3>3
  <2>9. Running => Chain(t)'
    BY <1>2, <2>2, <2>4, <2>5, <2>6, <2>7, <2>8 DEF Chain, Emitting
  <2>10. ASSUME Running, NEW u \in Thread \ {t}, registered'[u] \/ u = loader' PROVE Chain(u)'
    BY <2>1, <2>2, <2>10, ChainKept DEF PoolInv, ChainInv
  <2>11. ChainInv'
    BY <2>1, <2>9, <2>10 DEF ChainInv, Running
  <2>12. LibInv'
    BY <1>1, <2>1, <2>2 DEF PoolInv, LibInv
  <2>13. OutsideInv'
    BY <1>1, <2>1, <2>2 DEF PoolInv, OutsideInv
  <2> QED BY <2>11, <2>12, <2>13
<1>5. CASE CompileEnds(t)
  <2>1. /\ Top(t).phase = "emitting"
        /\ frames' = [frames EXCEPT ![t] = Front(@)]
        /\ UNCHANGED <<lib, loader, mainThread, registered, leaving, tls, live>>
    BY <1>5 DEF CompileEnds, InPhase, LeaveCompile, javaVars
  <2>2. /\ frames'[t] = Front(frames[t])
        /\ \A u \in Thread \ {t} : frames'[u] = frames[u]
    BY <2>1 DEF PoolInv, TypeOK
  <2>3. /\ frames'[t] \in Seq(Frame) /\ Len(frames'[t]) = n - 1
        /\ \A m \in 1..(n - 1) : frames'[t][m] = frames[t][m]
    <3>1. \A m \in 1..(n - 1) : frames[t][m] \in Frame
      <4>1. \A m \in 1..(n - 1) : m \in 1..n
        BY <1>2
      <4> QED BY <1>2, <4>1, ElementOfSeq
    <3>2. 1 \in Int /\ n - 1 \in Int
      BY <1>2
    <3>3. /\ Len(SubSeq(frames[t], 1, n - 1)) = IF 1 <= n - 1 THEN (n - 1) - 1 + 1 ELSE 0
          /\ \A m \in 1..((n - 1) - 1 + 1) : SubSeq(frames[t], 1, n - 1)[m] = frames[t][1 + m - 1]
          /\ SubSeq(frames[t], 1, n - 1) \in Seq(Frame)
      BY <3>1, <3>2, SubSeqProperties
    <3> QED BY <1>2, <2>2, <3>3 DEF Front
  <2>4. Home(t)' = Home(t)
    BY <2>1 DEF Home
  <2>5. ASSUME Running PROVE Chain(t)'
    <3>1. Chain(t)
      BY <1>3, <2>5
    <3>2. tls[t] = IF n = 1 THEN Home(t) ELSE frames[t][n - 1].job
      BY <1>1, <1>2, <2>1, <3>1 DEF Chain
    <3>3. CASE n = 1
      <4>1. Len(frames'[t]) = 0 /\ frames'[t] = <<>>
        BY <2>3, <3>3, EmptySeq
      <4> QED BY <2>1, <2>4, <3>2, <3>3, <4>1 DEF Chain
    <3>4. CASE n # 1
      <4>1. n - 1 \in 1..(n - 1) /\ n - 1 \in 1..n /\ n - 1 < n
        BY <1>2, <3>4, Predecessor
      <4>2. Top(t)' = frames[t][n - 1] /\ frames'[t] # <<>>
        BY <2>3, <4>1, EmptySeq DEF Top
      <4>3. frames[t][n - 1].phase = "parsing"
        BY <3>1, <4>1 DEF Chain
      <4>4. ASSUME NEW m \in 1..(n - 1)
            PROVE  /\ frames'[t][m].pre = IF m = 1 THEN Home(t) ELSE frames'[t][m - 1].job
                   /\ m < n - 1 => frames'[t][m].phase = "parsing"
        <5>1. m \in 1..n /\ (m # 1 => m - 1 \in 1..(n - 1)) /\ m < n
          BY <1>2, <4>4
        <5> QED BY <2>3, <3>1, <5>1 DEF Chain
      <4> QED BY <2>1, <2>3, <2>4, <3>2, <3>4, <4>2, <4>3, <4>4 DEF Chain
    <3> QED BY <3>3, <3>4
  <2>6. ASSUME Running, NEW u \in Thread \ {t}, registered'[u] \/ u = loader' PROVE Chain(u)'
    BY <2>1, <2>2, <2>6, ChainKept DEF PoolInv, ChainInv
  <2>7. ChainInv'
    BY <1>1, <2>1, <2>5, <2>6 DEF ChainInv, Running
  <2>8. LibInv'
    BY <1>1, <2>1, <2>2 DEF PoolInv, LibInv
  <2>9. OutsideInv'
    BY <1>1, <2>1, <2>2 DEF PoolInv, OutsideInv
  <2> QED BY <2>7, <2>8, <2>9
<1>6. CASE Misused(t)
  BY <1>1, <1>6, MisuseStep
<1> QED BY <1>4, <1>5, <1>6, CompileCases DEF ParseThrows, PoolInv

LEMMA PoolInvHolds ==
  ASSUME PoolsAssumption, ~ParseMayThrow, InitResults = {TRUE}
  PROVE  Spec => []PoolInv
<1>1. Init => PoolInv
  <2>1. Init => TypeOK
    BY TypeInit
  <2>2. Init => LibInv
    BY DEF Init, LibInv
  <2>3. Init => OutsideInv
    BY DEF Init, OutsideInv
  <2>4. Init => ChainInv
    <3> SUFFICES ASSUME Init, NEW t \in Thread PROVE ~(registered[t] \/ t = loader)
      BY DEF ChainInv
    <3> QED BY DEF Init, PoolsAssumption
  <2> QED BY <2>1, <2>2, <2>3, <2>4 DEF PoolInv
<1>2. PoolInv /\ [Next]_vars => PoolInv'
  <2> SUFFICES ASSUME PoolInv, [Next]_vars PROVE PoolInv'
    OBVIOUS
  <2>1. TypeOK'
    BY TypeStep DEF PoolInv
  <2>2. CASE UNCHANGED vars
    <3>1. /\ UNCHANGED <<lib, loader, mainThread, registered, leaving, tls, frames>>
          /\ live' = live /\ fault' = fault
      BY <2>2 DEF vars, javaVars, poolVars
    <3> QED BY <2>1, <3>1, QuietStep DEF PoolInv
  <2>3. CASE Next
    <3>1. ASSUME NEW t \in Thread, ManagerCall(t) PROVE (LibInv /\ OutsideInv /\ ChainInv)'
      BY <3>1, RegisterStep, UnregisterStep, DataStep DEF ManagerCall
    <3>2. ASSUME NEW t \in Thread, JobCall(t) PROVE (LibInv /\ OutsideInv /\ ChainInv)'
      BY <3>2, BeginStep, DataStep DEF JobCall
    <3>3. ASSUME NEW t \in Thread, CompileStep(t) PROVE (LibInv /\ OutsideInv /\ ChainInv)'
      BY <3>3, ReturnStep
    <3>4. ASSUME \/ \E t \in Thread : OnLoad(t)
                 \/ \E ok \in InitResults : FinishInit(ok)
                 \/ OnUnload
          PROVE  (LibInv /\ OutsideInv /\ ChainInv)'
      BY <3>4, LoadStep
    <3>5. (LibInv /\ OutsideInv /\ ChainInv)'
      BY <2>3, <3>1, <3>2, <3>3, <3>4 DEF Next
    <3> QED BY <2>1, <3>5 DEF PoolInv
  <2> QED BY <2>2, <2>3
<1> QED BY <1>1, <1>2, PTL DEF Spec

\* Every attached thread's pool pointer follows PoolChain, for any number of
\* threads and jobs, any nesting of compiles and whatever callbacks call.
THEOREM PoolChainHolds ==
  ASSUME PoolsAssumption, ~ParseMayThrow, InitResults = {TRUE}
  PROVE  Spec => []PoolChain
<1>1. PoolInv => PoolChain
  <2> SUFFICES ASSUME PoolInv, Running, NEW t \in Thread, Attached(t)
      PROVE  /\ tls[t] = IF frames[t] = <<>> THEN Own(t)
                         ELSE IF Top(t).phase = "parsing" THEN Top(t).job ELSE Top(t).pre
             /\ \A n \in DOMAIN frames[t] :
                  frames[t][n].pre = IF n = 1 THEN Own(t) ELSE frames[t][n - 1].job
    BY DEF PoolChain
  <2>1. registered[t] \/ t = loader
    BY DEF Attached, PoolInv, LibInv, PoolsAssumption
  <2>2. Chain(t)
    BY <2>1 DEF PoolInv, ChainInv
  <2>3. Own(t) = Home(t)
    <3>1. lib \in {"loaded", "available"} \/ registered[t]
      BY <2>1 DEF PoolInv, TypeOK, LibInv, Running, PoolsAssumption
    <3> QED BY <2>1, <3>1 DEF PoolInv, LibInv, Own, Home
  <2>4. DOMAIN frames[t] = 1..Len(frames[t])
    BY LenProperties DEF PoolInv, TypeOK
  <2> QED BY <2>2, <2>3, <2>4 DEF Chain
<1> QED BY <1>1, PoolInvHolds, PTL

-----------------------------------------------------------------------------
(* When callbacks stay out of the API: no attached thread faults.          *)

\* A thread that is attached has a live pool at every call and at every return.
LEMMA AttachedUsable ==
  ASSUME PoolsAssumption, ServedInv, NEW t \in Thread, Running, Attached(t),
         frames[t] # <<>> => Top(t).phase = "emitting"
  PROVE  Usable(t)
<1>1. (registered[t] \/ t = loader) /\ Home(t) \in live
  <2>1. registered[t] \/ (t = loader /\ lib = "available")
    BY DEF Attached, ServedInv, PoolInv, LibInv, PoolsAssumption, Running
  <2> QED BY <2>1 DEF ServedInv, PoolInv, LibInv, LiveInv, Home
<1>2. Chain(t)
  BY <1>1 DEF ServedInv, PoolInv, ChainInv
<1>3. CASE frames[t] = <<>>
  BY <1>1, <1>2, <1>3 DEF Chain, Usable
<1>4. CASE frames[t] # <<>>
  <2>1. frames[t] \in Seq(Frame) /\ Len(frames[t]) \in Nat /\ Len(frames[t]) # 0
    BY <1>4, LenProperties, EmptySeq DEF ServedInv, PoolInv, TypeOK
  <2>2. Len(frames[t]) = 1
    <3>1. Len(frames[t]) <= 1
      BY DEF ServedInv, NestInv
    <3> QED BY <2>1, <3>1, OnlyOne
  <2>3. Top(t).pre = Home(t)
    BY <1>2, <2>2 DEF Chain, Top
  <2> QED BY <1>1, <1>2, <1>4, <2>3 DEF Chain, Usable
<1> QED BY <1>3, <1>4

\* With callbacks out of the API a thread that is ready is outside the library.
LEMMA ReadyIdle ==
  ASSUME ~Reentrant, NEW t \in Thread, Ready(t)
  PROVE  frames[t] = <<>>
BY DEF Ready

\* The pool that unregisterWorkThread deletes is the thread's own.
LEMMA OwnPoolCurrent ==
  ASSUME ServedInv, ~Reentrant, NEW t \in Thread, Ready(t), registered[t]
  PROVE  tls[t] = t
<1>1. Running /\ frames[t] = <<>>
  BY ReadyFacts, ReadyIdle DEF ServedInv
<1> QED BY <1>1 DEF ServedInv, PoolInv, ChainInv, Chain, Home

\* A thread that fails to find its pool is not attached.
LEMMA FaultyOutside ==
  ASSUME PoolsAssumption, ServedInv, NEW t \in Thread, fault = NoFault,
         ~Usable(t), lib # "gone",
         frames[t] # <<>> => Top(t).phase = "emitting"
  PROVE  ~Attached(t)
BY AttachedUsable DEF Running

-----------------------------------------------------------------------------
(* What every step leaves alone, with or without callbacks.                *)

\* No call moves the library or makes a main thread.
LEMMA LibKept ==
  ASSUME NEW t \in Thread, ManagerCall(t) \/ JobCall(t) \/ CompileStep(t)
  PROVE  UNCHANGED <<lib, loader, mainThread>>
<1> DEFINE Goal == UNCHANGED <<lib, loader, mainThread>>
<1>s. ASSUME NEW op, NEW i, Stops(t, op, i) PROVE Goal
  BY <1>s DEF Stops, javaVars
<1>f. ASSUME NEW op, Faults(t, op) PROVE Goal
  BY <1>f, <1>s DEF Faults
<1>m. ASSUME NEW op, NEW i, Misuses(t, op, i) PROVE Goal
  BY <1>m, <1>s DEF Misuses
<1>1. CASE ManagerCall(t)
  BY <1>1, <1>f DEF ManagerCall, RegisterWorkThread, UnregisterWorkThread, UnregisterAgain,
     PushMemoryPool, PopMemoryPool
<1>2. CASE CompileStep(t)
  BY <1>2, <1>m DEF CompileStep, ParseReads, EmitReads, ParseReturns, ParseThrows,
     CompileEnds, LeaveCompile, javaVars
<1>3. ASSUME NEW j \in Job, CreateJob(t, j) \/ DeleteJob(t, j) \/ CompileBegin(t, j) PROVE Goal
  BY <1>3, <1>f, <1>m DEF CreateJob, DeleteJob, CompileBegin, javaVars
<1>4. ASSUME NEW j \in Job, NEW i \in Array, SetSource(t, j, i) PROVE Goal
  BY <1>4, <1>f DEF SetSource, javaVars
<1>5. ASSUME NEW j \in Job, NEW i \in Block, AddUniformBlock(t, j, i) PROVE Goal
  BY <1>5, <1>f, <1>m DEF AddUniformBlock, javaVars
<1>6. ASSUME NEW i \in Block, CreateUniformBlock(t, i) PROVE Goal
  BY <1>6, <1>f DEF CreateUniformBlock, javaVars
<1>7. ASSUME NEW i \in Block, AddMember(t, i) PROVE Goal
  BY <1>7, <1>f, <1>m DEF AddMember, javaVars
<1> QED BY <1>1, <1>2, <1>3, <1>4, <1>5, <1>6, <1>7 DEF JobCall

\* A call begins on a thread that is ready; anything else goes on with one.
LEMMA CallBegins ==
  ASSUME NEW t \in Thread, JobCall(t) PROVE Ready(t)
BY DEF JobCall, CreateJob, DeleteJob, CompileBegin, SetSource, AddUniformBlock,
       CreateUniformBlock, AddMember

LEMMA CallGoesOn ==
  ASSUME NEW t \in Thread, ManagerCall(t) \/ JobCall(t) \/ CompileStep(t)
  PROVE  fault = NoFault /\ (Ready(t) \/ leaving[t] \/ frames[t] # <<>>)
<1>1. CASE ManagerCall(t)
  BY <1>1 DEF ManagerCall, RegisterWorkThread, UnregisterWorkThread, UnregisterAgain,
     PushMemoryPool, PopMemoryPool, Ready
<1>2. CASE JobCall(t)
  BY <1>2, CallBegins DEF Ready
<1>3. CASE CompileStep(t)
  BY <1>3 DEF CompileStep, ParseReads, EmitReads, ParseReturns, ParseThrows, CompileEnds, InPhase
<1> QED BY <1>1, <1>2, <1>3

\* Memory is taken by calls about data alone.
LEMMA PlacesKept ==
  ASSUME PoolsAssumption, TypeOK, Next
  PROVE  \/ UNCHANGED <<places, origin>>
         \/ \E t \in Thread : JobCall(t) /\ Ready(t) /\ Gives(t)
<1> DEFINE Goal == \/ UNCHANGED <<places, origin>>
                   \/ \E t \in Thread : JobCall(t) /\ Ready(t) /\ Gives(t)
<1>1. ASSUME NEW t \in Thread, OnLoad(t) PROVE Goal
  BY <1>1 DEF OnLoad, itemVars
<1>2. ASSUME NEW ok \in InitResults, FinishInit(ok) PROVE Goal
  BY <1>2 DEF FinishInit, itemVars
<1>3. ASSUME OnUnload PROVE Goal
  BY <1>3 DEF OnUnload
<1>4. ASSUME NEW t \in Thread, ManagerCall(t) PROVE Goal
  BY <1>4 DEF ManagerCall, RegisterWorkThread, UnregisterWorkThread, UnregisterAgain,
     PushMemoryPool, PopMemoryPool, Faults, Stops, itemVars
<1>5. ASSUME NEW t \in Thread, CompileStep(t) PROVE Goal
  BY <1>5, CompileCases, StopsAlone
  DEF ParseReturns, ParseThrows, CompileEnds, LeaveCompile, itemVars
<1>6. ASSUME NEW t \in Thread, JobCall(t) PROVE Goal
  <2>1. CASE FindsNoPool(t) \/ Misused(t)
    BY <2>1, StopsAlone
  <2>2. CASE \E j \in Job : CreateJob(t, j) \/ DeleteJob(t, j) \/ Begins(t, j)
    BY <2>2 DEF CreateJob, DeleteJob, Begins, itemVars
  <2> QED BY <1>6, <2>1, <2>2, JobCases
<1> QED BY <1>1, <1>2, <1>3, <1>4, <1>5, <1>6 DEF Next

\* Unloading happens with no call running, and nothing runs after it.
LEMMA GoneStep ==
  ASSUME GoneInv, Next
  PROVE  GoneInv'
<1>1. CASE lib = "gone"
  <2>1. \A t \in Thread : frames[t] = <<>> /\ ~leaving[t] /\ ~Ready(t)
    BY <1>1 DEF GoneInv, Ready
  <2>2. \A t \in Thread : ~ManagerCall(t) /\ ~JobCall(t) /\ ~CompileStep(t)
    BY <2>1, CallGoesOn
  <2> QED BY <1>1, <2>2 DEF Next, OnLoad, FinishInit, OnUnload
<1>2. CASE lib # "gone" /\ lib' = "gone"
  <2>1. OnUnload
    <3>1. \A t \in Thread : ~OnLoad(t)
      BY <1>2 DEF OnLoad
    <3>2. \A ok \in InitResults : ~FinishInit(ok)
      BY <1>2 DEF FinishInit
    <3>3. \A t \in Thread : ~ManagerCall(t) /\ ~JobCall(t) /\ ~CompileStep(t)
      BY <1>2, LibKept
    <3> QED BY <3>1, <3>2, <3>3 DEF Next
  <2> QED BY <2>1 DEF OnUnload, GoneInv, javaVars
<1>3. CASE lib' # "gone"
  BY <1>3 DEF GoneInv
<1> QED BY <1>1, <1>2, <1>3

LEMMA GoneBack == ASSUME Next, lib' # "gone" PROVE lib # "gone"
<1>1. ASSUME NEW t \in Thread, OnLoad(t) PROVE lib # "gone"
  BY <1>1 DEF OnLoad
<1>2. ASSUME NEW ok \in InitResults, FinishInit(ok) PROVE lib # "gone"
  BY <1>2 DEF FinishInit
<1>3. ASSUME NEW t \in Thread, ManagerCall(t) \/ JobCall(t) \/ CompileStep(t) PROVE lib' = lib
  BY <1>3, LibKept
<1> QED BY <1>1, <1>2, <1>3 DEF Next, OnUnload

-----------------------------------------------------------------------------
(* The kinds of step, by what they do to threads and to data.              *)

SameMakers == \A i \in Item : Makers(i)' = Makers(i)
Whole      == torn' = torn /\ SameMakers
Tears(t)   == /\ torn \subseteq torn' /\ torn' \subseteq torn \cup {i \in Item : t \in Makers(i)}
              /\ SameMakers
Makes(t, i) ==
  /\ torn' = torn /\ Makers(i)' = Makers(i) \cup {t}
  /\ \A k \in Item \ {i} : Makers(k)' = Makers(k)

Quiet ==
  /\ UNCHANGED <<registered, mainThread, frames, fault>>
  /\ lib' # "gone" => \A t \in Thread : t \in live => t \in live'
  /\ \/ Whole
     \/ \E t \in Thread : /\ Attached(t) /\ frames[t] = <<>>
                          /\ Tears(t) \/ \E i \in Item : Makes(t, i)
Dies(t) ==
  /\ fault' # NoFault /\ fault'.thread = t
  /\ IF fault'.item = NoItem THEN ~Attached(t) ELSE torn # {}
  /\ UNCHANGED <<lib, registered, mainThread, frames>>
  /\ Whole
Registers(t) ==
  /\ ~Attached(t) /\ frames[t] = <<>>
  /\ registered' = [registered EXCEPT ![t] = TRUE] /\ live' = live \cup {t}
  /\ UNCHANGED <<mainThread, frames, fault>>
  /\ Whole
BecomesMain(t) ==
  /\ ~Attached(t) /\ frames[t] = <<>> /\ mainThread = NoThread /\ mainThread' = t
  /\ UNCHANGED <<registered, frames, fault, live>>
  /\ Whole
Leaves(t) ==
  /\ registered[t] /\ t # mainThread /\ frames[t] = <<>>
  /\ registered' = [registered EXCEPT ![t] = FALSE] /\ live' = live \ {t}
  /\ UNCHANGED <<mainThread, frames, fault>>
  /\ Tears(t)
Reframes(t, from, to) ==
  /\ Attached(t) /\ (frames[t] = <<>>) = from /\ (frames'[t] = <<>>) = to
  /\ Len(frames'[t]) <= 1 /\ \A u \in Thread \ {t} : frames'[u] = frames[u]
  /\ UNCHANGED <<registered, mainThread, fault, live>>
  /\ IF to THEN Tears(t) ELSE Whole
Kinds ==
  \/ Quiet
  \/ \E t \in Thread :
       \/ Dies(t) \/ Registers(t) \/ BecomesMain(t) \/ Leaves(t)
       \/ Reframes(t, TRUE, FALSE) \/ Reframes(t, FALSE, FALSE) \/ Reframes(t, FALSE, TRUE)

\* Who made what does not change while places and the loading thread stay.
LEMMA MakersStay ==
  ASSUME UNCHANGED <<places, loader>> PROVE SameMakers
BY DEF SameMakers, Makers

\* What a pop or the end of a thread's home takes is data that thread made.
LEMMA HomeTears ==
  ASSUME PoolsAssumption, TypeOK, NEW t \in Thread, registered[t] \/ t = loader,
         UNCHANGED <<places, loader>>,
         PopMark(Home(t)) \/ DropPool(Home(t))
  PROVE  Tears(t)
<1>1. \A n : \A i \in HeldAt(Home(t), n) : i \in Item /\ t \in Makers(i)
  BY DEF HeldAt, Makers, Home, TypeOK
<1>2. \E n : torn \subseteq torn' /\ torn' \subseteq torn \cup HeldAt(Home(t), n)
  BY DEF PopMark, DropPool
<1> QED BY <1>1, <1>2, MakersStay DEF Tears

\* A served thread outside a compile gives memory from its home, so is a maker.
LEMMA GivesMakes ==
  ASSUME PoolsAssumption, TypeOK, HomeInv, NEW t \in Thread, Gives(t),
         Usable(t) => tls[t] = Home(t) /\ (registered[t] \/ t = loader)
  PROVE  Whole \/ \E i \in Item : Makes(t, i)
<1>0. PICK k \in Item, new \in BOOLEAN : Adds(t, k, new)
  BY GivesAdds
<1>1. torn' = torn /\ loader' = loader
  BY DEF Gives
<1>2. ASSUME NEW m \in Item, ~(new /\ m = k) PROVE Makers(m)' = Makers(m)
  <2>1. places[m] \subseteq places'[m]
    BY <1>0 DEF Adds
  <2>2. \A pl \in places'[m] : \E ql \in places[m] : ql[1] = pl[1]
    BY <1>0, <1>2 DEF Adds, HomeInv
  <2> QED BY <1>1, <2>1, <2>2 DEF Makers
<1>3. ASSUME new PROVE Makers(k)' = Makers(k) \cup {t}
  <2>1. /\ places[k] \subseteq places'[k]
        /\ <<tls[t], level[tls[t]]>> \in places'[k]
        /\ \A pl \in places'[k] : pl[1] = tls[t] \/ \E ql \in places[k] : ql[1] = pl[1]
    BY <1>0, <1>3 DEF Adds, HomeInv
  <2>2. tls[t] = Home(t) /\ (registered[t] \/ t = loader)
    BY <1>0, <1>3 DEF Adds
  <2>3. \A u \in Thread : tls[t] = u \/ (tls[t] = MainPool /\ u = loader) <=> u = t
    BY <2>2 DEF Home, PoolsAssumption
  <2>4. \E pl \in places'[k] : pl[1] = tls[t]
    BY <2>1
  <2>5. ASSUME NEW u \in Thread PROVE u \in Makers(k)' <=> u \in Makers(k) \/ u = t
    BY <1>1, <2>1, <2>3, <2>4 DEF Makers
  <2>6. Makers(k)' \subseteq Thread /\ Makers(k) \subseteq Thread
    BY DEF Makers
  <2> QED BY <2>5, <2>6
<1>4. CASE new
  BY <1>1, <1>2, <1>3, <1>4 DEF Makes
<1>5. CASE ~new
  BY <1>1, <1>2, <1>5 DEF Whole, SameMakers
<1> QED BY <1>4, <1>5

LEMMA LoadKinds ==
  ASSUME PoolsAssumption, InitResults = {TRUE}, ServedInv,
         \/ \E t \in Thread : OnLoad(t)
         \/ \E ok \in InitResults : FinishInit(ok)
         \/ OnUnload
  PROVE  Kinds /\ fault = NoFault
<1>1. ASSUME NEW t \in Thread, OnLoad(t) PROVE Kinds /\ fault = NoFault
  <2>1. /\ lib = "unloaded" /\ fault = NoFault
        /\ UNCHANGED <<registered, mainThread, frames, fault, places, torn>>
        /\ live' = live \cup {MainPool}
    BY <1>1 DEF OnLoad, javaVars, itemVars, ServedInv, PoolInv, LibInv
  <2>2. SameMakers
    BY <2>1 DEF ServedInv, HomeInv, SameMakers, Makers
  <2> QED BY <2>1, <2>2 DEF Kinds, Quiet, Whole
<1>2. ASSUME FinishInit(TRUE) PROVE Kinds /\ fault = NoFault
  <2>1. /\ lib = "loaded" /\ fault = NoFault /\ mainThread' = loader
        /\ UNCHANGED <<loader, registered, frames, fault, live, places, torn>>
    BY <1>2 DEF FinishInit, poolVars, itemVars
  <2>2. /\ loader \in Thread /\ ~registered[loader] /\ mainThread = NoThread
        /\ frames[loader] = <<>>
    BY <2>1 DEF ServedInv, PoolInv, LibInv
  <2>3. BecomesMain(loader)
    BY <2>1, <2>2, MakersStay DEF BecomesMain, Attached, PoolsAssumption, Whole
  <2> QED BY <2>1, <2>2, <2>3 DEF Kinds
<1>3. ASSUME OnUnload PROVE Kinds /\ fault = NoFault
  <2>1. lib = "available" /\ MainPool \in live /\ lib' = "gone"
    BY <1>3 DEF OnUnload, ServedInv, PoolInv, LibInv
  <2>2. /\ loader \in Thread /\ Attached(loader) /\ Home(loader) = MainPool
    BY <2>1 DEF ServedInv, PoolInv, LibInv, Attached, Home
  <2>3. /\ DropPool(MainPool) /\ frames[loader] = <<>> /\ fault = NoFault
        /\ UNCHANGED <<loader, registered, mainThread, frames, fault, places>>
    BY <1>3, <2>1, <2>2 DEF OnUnload, javaVars
  <2>4. Tears(loader)
    BY <2>2, <2>3, HomeTears DEF ServedInv, PoolInv
  <2> QED BY <2>1, <2>2, <2>3, <2>4 DEF Kinds, Quiet
<1> QED BY <1>1, <1>2, <1>3

\* A call that stops is that of a thread outside, or data had been lost.
LEMMA StopKind ==
  ASSUME PoolsAssumption, NEW t \in Thread, FindsNoPool(t) \/ Misused(t),
         ~Usable(t) => ~Attached(t)
  PROVE  Dies(t)
<1>1. /\ UNCHANGED <<lib, loader, registered, mainThread, frames, places, torn>>
      /\ fault'.thread = t /\ fault' # NoFault
      /\ (fault'.item = NoItem /\ ~Usable(t)) \/ fault'.item \in torn \cap Item
  BY StopsAlone
<1>2. NoItem \notin Item
  BY DEF PoolsAssumption, Item, Made
<1> QED BY <1>1, <1>2, MakersStay DEF Dies, Whole

LEMMA ManagerKinds ==
  ASSUME PoolsAssumption, ~Reentrant, ServedInv, NEW t \in Thread, ManagerCall(t)
  PROVE  Kinds /\ fault = NoFault
<1>0. TypeOK
  BY DEF ServedInv, PoolInv
<1>1. CASE RegisterWorkThread(t)
  <2>1. fault = NoFault /\ frames[t] = <<>> /\ ~Attached(t)
    BY <1>1, ReadyIdle DEF RegisterWorkThread, Ready, Attached
  <2>2. Registers(t)
    BY <1>1, <2>1, MakersStay DEF RegisterWorkThread, Registers, itemVars, Whole
  <2> QED BY <2>1, <2>2 DEF Kinds
<1>2. CASE UnregisterWorkThread(t)
  <2>1. /\ Ready(t) /\ fault = NoFault /\ frames[t] = <<>> /\ registered[t] /\ t # mainThread
        /\ tls[t] = t /\ Running
    BY <1>2, ReadyIdle, OwnPoolCurrent, ReadyFacts DEF UnregisterWorkThread, Ready, ServedInv
  <2>2. Usable(t)
    BY <2>1, AttachedUsable DEF Attached
  <2>3. /\ DropPool(Home(t)) /\ registered' = [registered EXCEPT ![t] = FALSE]
        /\ UNCHANGED <<loader, mainThread, frames, fault, places>>
    BY <1>2, <2>1, <2>2
    DEF UnregisterWorkThread, RegisteredAfterwards, DetachPool, Home
  <2>4. Tears(t)
    BY <1>0, <2>1, <2>3, HomeTears
  <2>5. Leaves(t)
    BY <2>1, <2>3, <2>4 DEF DropPool, Leaves, Home
  <2> QED BY <2>1, <2>5 DEF Kinds
<1>3. CASE UnregisterAgain(t)
  <2>1. ~registered[t] /\ t # loader /\ fault = NoFault /\ t # mainThread
    <3>1. CASE leaving[t] /\ fault = NoFault
      BY <3>1 DEF ServedInv, PoolInv, OutsideInv, LibInv, PoolsAssumption
    <3>2. CASE Ready(t) /\ t # mainThread /\ ~registered[t]
      BY <3>2, ReadyFacts DEF ServedInv
    <3> QED BY <1>3, <3>1, <3>2 DEF UnregisterAgain
  <2>2. ~Usable(t) /\ ~Attached(t)
    BY <2>1, OutsideUnusable DEF ServedInv, PoolInv, Attached
  <2>3. FindsNoPool(t)
    BY <1>3, <2>2 DEF UnregisterAgain, FindsNoPool, Op
  <2>4. Dies(t)
    BY <2>2, <2>3, StopKind
  <2> QED BY <2>1, <2>4 DEF Kinds
<1>4. CASE PushMemoryPool(t) \/ PopMemoryPool(t)
  <2>1. Ready(t) /\ registered[t] /\ fault = NoFault /\ frames[t] = <<>> /\ Attached(t)
    BY <1>4, ReadyIdle DEF PushMemoryPool, PopMemoryPool, Ready, Attached
  <2>2. Running
    BY <2>1, ReadyFacts DEF ServedInv
  <2>3. Usable(t) /\ tls[t] = Home(t)
    BY <2>1, <2>2, AttachedUsable, OwnPoolCurrent DEF Home
  <2>4. UNCHANGED <<loader, registered, mainThread, live, frames, fault, places>>
    BY <1>4, <2>3 DEF PushMemoryPool, PopMemoryPool
  <2>5. torn' = torn \/ PopMark(Home(t))
    BY <1>4, <2>3 DEF PushMemoryPool, PopMemoryPool, PushMark
  <2>6. Whole \/ Tears(t)
    BY <1>0, <2>1, <2>4, <2>5, HomeTears, MakersStay DEF Whole
  <2>7. Quiet
    BY <2>1, <2>4, <2>6 DEF Quiet
  <2> QED BY <2>1, <2>7 DEF Kinds
<1> QED BY <1>1, <1>2, <1>3, <1>4 DEF ManagerCall

\* A thread that is ready and has a pool is attached, and the pool is its home.
LEMMA ReadyHome ==
  ASSUME PoolsAssumption, ~Reentrant, ServedInv, NEW t \in Thread, Ready(t)
  PROVE  IF Usable(t)
         THEN Attached(t) /\ (registered[t] \/ t = loader) /\ tls[t] = Home(t) /\ Home(t) \notin Job
         ELSE ~Attached(t)
<1>0. fault = NoFault /\ lib # "gone" /\ frames[t] = <<>> /\ Running
  BY ReadyFacts, ReadyIdle DEF ServedInv
<1>1. CASE Usable(t)
  <2>1. registered[t] \/ t = loader
    BY <1>1, OutsideUnusable DEF ServedInv, PoolInv
  <2>2. Attached(t)
    BY <2>1, ReadyFacts DEF Attached, ServedInv
  <2>3. Home(t) \notin Job
    BY DEF PoolsAssumption, Home
  <2> QED BY <1>0, <1>1, <2>1, <2>2, <2>3 DEF ServedInv, PoolInv, ChainInv, Chain
<1>2. CASE ~Usable(t)
  BY <1>0, <1>2, FaultyOutside
<1> QED BY <1>1, <1>2

LEMMA JobKinds ==
  ASSUME PoolsAssumption, ~Reentrant, ServedInv, NEW t \in Thread, JobCall(t)
  PROVE  Kinds /\ fault = NoFault
<1>0. Ready(t) /\ TypeOK
  BY CallBegins DEF ServedInv, PoolInv
<1>r. fault = NoFault /\ Running /\ frames[t] = <<>>
  BY <1>0, ReadyFacts, ReadyIdle DEF ServedInv
<1>1. CASE FindsNoPool(t) \/ Misused(t)
  BY <1>0, <1>r, <1>1, ReadyHome, StopKind DEF Kinds
<1>2. ASSUME NEW j \in Job, CreateJob(t, j) PROVE Kinds
  <2>1. /\ UNCHANGED <<loader, registered, mainThread, frames, fault, places, torn>>
        /\ live \subseteq live'
    BY <1>2 DEF CreateJob, javaVars, itemVars
  <2> QED BY <2>1, MakersStay DEF Kinds, Quiet, Whole
<1>3. ASSUME NEW j \in Job, DeleteJob(t, j) PROVE Kinds
  <2>1. j \notin Thread
    BY DEF PoolsAssumption
  <2>2. /\ UNCHANGED <<loader, registered, mainThread, frames, fault, places>>
        /\ live' = live \ {j} /\ torn' = torn \cup HeldAt(j, 0)
    BY <1>3 DEF DeleteJob, DropPool, javaVars
  <2>3. HeldAt(j, 0) = {}
    BY DEF HeldAt, ServedInv, HomeInv
  <2> QED BY <2>1, <2>2, <2>3, MakersStay DEF Kinds, Quiet, Whole
<1>4. CASE Gives(t)
  <2>1. Usable(t) => tls[t] = Home(t) /\ (registered[t] \/ t = loader)
    BY <1>0, ReadyHome
  <2>2. Whole \/ \E i \in Item : Makes(t, i)
    BY <1>0, <1>4, <2>1, GivesMakes DEF ServedInv
  <2>3. UNCHANGED <<registered, mainThread, frames, fault, live>>
    BY <1>4 DEF Gives, javaVars, poolVars
  <2>4. Attached(t) \/ Whole
    <3>1. PICK k \in Item, new \in BOOLEAN : Adds(t, k, new)
      BY <1>0, <1>4, GivesAdds
    <3>2. CASE new
      BY <1>0, <3>1, <3>2, ReadyHome DEF Adds
    <3>3. CASE ~new
      <4>1. ASSUME NEW m \in Item PROVE Makers(m)' = Makers(m)
        <5>1. /\ places[m] \subseteq places'[m]
              /\ \A pl \in places'[m] : \E ql \in places[m] : ql[1] = pl[1]
          BY <3>1, <3>3 DEF Adds, ServedInv, HomeInv
        <5>2. loader' = loader
          BY <1>4 DEF Gives
        <5> QED BY <5>1, <5>2 DEF Makers
      <4>2. torn' = torn
        BY <1>4 DEF Gives
      <4> QED BY <4>1, <4>2 DEF Whole, SameMakers
    <3> QED BY <3>2, <3>3
  <2> QED BY <1>r, <2>2, <2>3, <2>4 DEF Kinds, Quiet
<1>5. ASSUME NEW j \in Job, Begins(t, j) PROVE Kinds
  <2>1. Attached(t)
    BY <1>0, <1>5, ReadyHome DEF Begins
  <2>2. tls[t] \in Pool
    BY <1>0, <1>5 DEF Begins, Usable, TypeOK
  <2> DEFINE f == [job |-> j, pre |-> tls[t], phase |-> "parsing"]
  <2>3. f \in Frame
    BY <2>2 DEF Frame
  <2>4. /\ frames' = [frames EXCEPT ![t] = Append(@, f)]
        /\ UNCHANGED <<loader, registered, mainThread, fault, live, places, torn>>
    BY <1>5 DEF Begins, PushMark, javaVars
  <2>5. /\ frames'[t] = Append(frames[t], f)
        /\ \A u \in Thread \ {t} : frames'[u] = frames[u]
    BY <1>0, <2>4 DEF TypeOK
  <2>6. frames'[t] # <<>> /\ Len(frames'[t]) = 1
    <3>1. frames[t] \in Seq(Frame) /\ Len(frames[t]) = 0
      BY <1>r, EmptySeq
    <3> QED BY <2>3, <2>5, <3>1, AppendProperties
  <2>7. Reframes(t, TRUE, FALSE)
    BY <1>r, <2>1, <2>4, <2>5, <2>6, MakersStay DEF Reframes, Whole
  <2> QED BY <2>7 DEF Kinds
<1> QED BY <1>0, <1>r, <1>1, <1>2, <1>3, <1>4, <1>5, JobCases

LEMMA CompileKinds ==
  ASSUME PoolsAssumption, ~ParseMayThrow, ServedInv, NEW t \in Thread, CompileStep(t)
  PROVE  Kinds /\ fault = NoFault
<1>1. /\ fault = NoFault /\ ~leaving[t] /\ frames[t] # <<>> /\ Attached(t) /\ Running
      /\ Len(frames[t]) = 1 /\ (registered[t] \/ t = loader)
  <2>1. fault = NoFault /\ ~leaving[t] /\ frames[t] # <<>>
    BY CompileCases DEF ServedInv, PoolInv
  <2>2. registered[t] \/ (t = loader /\ lib \in {"available", "gone"})
    BY <2>1 DEF ServedInv, PoolInv, LibInv, OutsideInv, TypeOK
  <2>3. Attached(t)
    BY <2>2 DEF Attached, ServedInv, PoolInv, LibInv
  <2>4. Running
    BY <2>1 DEF Running, ServedInv, GoneInv
  <2>5. Len(frames[t]) \in Nat /\ Len(frames[t]) # 0
    BY <2>1, LenProperties, EmptySeq DEF ServedInv, PoolInv, TypeOK
  <2>6. Len(frames[t]) <= 1
    BY DEF ServedInv, NestInv
  <2>7. Len(frames[t]) = 1
    BY <2>5, <2>6, OnlyOne
  <2> QED BY <2>1, <2>2, <2>3, <2>4, <2>7
<1>2. frames[t] \in Seq(Frame) /\ Top(t) = frames[t][1] /\ Top(t) \in Frame
  BY <1>1, TopTypes DEF ServedInv, PoolInv, TypeOK, Top
<1>3. CASE ParseReturns(t)
  <2>1. /\ frames' = [frames EXCEPT ![t] = [@ EXCEPT ![Len(frames[t])] = Emitting(Top(t))]]
        /\ UNCHANGED <<loader, registered, mainThread, fault, live, places, torn>>
    BY <1>3 DEF ParseReturns, javaVars, itemVars
  <2>2. /\ frames'[t] = [frames[t] EXCEPT ![1] = Emitting(Top(t))]
        /\ \A u \in Thread \ {t} : frames'[u] = frames[u]
    BY <1>1, <2>1 DEF ServedInv, PoolInv, TypeOK
  <2>3. Emitting(Top(t)) \in Frame /\ 1 \in 1..Len(frames[t])
    BY <1>1, <1>2 DEF Emitting, Frame
  <2>4. frames'[t] \in Seq(Frame) /\ Len(frames'[t]) = 1
    BY <1>1, <1>2, <2>2, <2>3, ExceptSeq
  <2>5. frames'[t] # <<>>
    BY <2>4, EmptySeq
  <2>6. Reframes(t, FALSE, FALSE)
    BY <1>1, <2>1, <2>2, <2>4, <2>5, MakersStay DEF Reframes, Whole
  <2> QED BY <1>1, <2>6 DEF Kinds
<1>4. CASE CompileEnds(t)
  <2>1. Usable(t) /\ Top(t).phase = "emitting"
    BY <1>1, <1>4, AttachedUsable DEF CompileEnds, InPhase
  <2>2. /\ frames' = [frames EXCEPT ![t] = Front(@)]
        /\ PopMark(tls[t])
        /\ UNCHANGED <<loader, registered, mainThread, fault, live, places>>
    BY <1>4, <2>1 DEF CompileEnds, LeaveCompile, CompilePop, javaVars
  <2>3. frames'[t] = <<>> /\ Len(frames'[t]) = 0
    <3>1. Front(frames[t]) = <<>>
      BY <1>1, SubSeqEmpty DEF Front
    <3> QED BY <2>2, <3>1, EmptySeq DEF ServedInv, PoolInv, TypeOK
  <2>4. \A u \in Thread \ {t} : frames'[u] = frames[u]
    BY <2>2 DEF ServedInv, PoolInv, TypeOK
  <2>5. tls[t] = Home(t)
    <3>1. Chain(t)
      BY <1>1 DEF ServedInv, PoolInv, ChainInv
    <3> QED BY <1>1, <1>2, <2>1, <3>1 DEF Chain
  <2>6. Tears(t)
    BY <1>1, <2>2, <2>5, HomeTears DEF ServedInv, PoolInv
  <2>7. Reframes(t, FALSE, TRUE)
    BY <1>1, <2>2, <2>3, <2>4, <2>6 DEF Reframes
  <2> QED BY <1>1, <2>7 DEF Kinds
<1>5. CASE Misused(t)
  <2>1. fault'.item \in torn \cap Item \/ ~Usable(t)
    BY <1>5, StopsAlone
  <2>2. PICK op \in Op \ {"none"}, i \in Item : Misuses(t, op, i)
    BY <1>5 DEF Misused
  <2>3. fault' # NoFault /\ fault'.thread = t /\ fault'.item = i /\ i \in torn
    BY <2>2 DEF Misuses, Stops, NoFault
  <2>4. i # NoItem
    BY DEF PoolsAssumption, Item, Made
  <2>5. UNCHANGED <<lib, loader, registered, mainThread, frames, places, torn>>
    BY <1>5, StopsAlone
  <2>6. Dies(t)
    BY <2>3, <2>4, <2>5, MakersStay DEF Dies, Whole
  <2> QED BY <1>1, <2>6 DEF Kinds
<1> QED BY <1>3, <1>4, <1>5, CompileCases DEF ParseThrows, ServedInv, PoolInv

LEMMA NextKinds ==
  ASSUME PoolsAssumption, ~ParseMayThrow, ~Reentrant, InitResults = {TRUE},
         ServedInv, Next
  PROVE  Kinds /\ fault = NoFault
<1>1. ASSUME NEW t \in Thread, ManagerCall(t) \/ JobCall(t) \/ CompileStep(t)
      PROVE  Kinds /\ fault = NoFault
  BY <1>1, ManagerKinds, JobKinds, CompileKinds
<1> QED BY <1>1, LoadKinds DEF Next

\* Every kind of step keeps nesting, pools and faults as they should be.
LEMMA KindsPreserve ==
  ASSUME PoolsAssumption, ServedInv, Kinds, fault = NoFault, lib' # "gone" => lib # "gone"
  PROVE  (NestInv /\ LiveInv /\ FaultsOnlyOutside)'
<1> DEFINE Goal == (NestInv /\ LiveInv /\ FaultsOnlyOutside)'
<1>0. /\ NestInv /\ LiveInv
      /\ registered \in [Thread -> BOOLEAN]
  BY DEF ServedInv, PoolInv, TypeOK
<1>1. CASE Quiet
  BY <1>0, <1>1 DEF Quiet, NestInv, LiveInv, FaultsOnlyOutside, Running
<1>2. ASSUME NEW t \in Thread, Dies(t) PROVE Goal
  BY <1>0, <1>2 DEF Dies, NestInv, LiveInv, FaultsOnlyOutside, Running, Attached, PoolsAssumption
<1>3. ASSUME NEW t \in Thread, Registers(t) PROVE Goal
  BY <1>0, <1>3 DEF Registers, NestInv, LiveInv, FaultsOnlyOutside, Running
<1>4. ASSUME NEW t \in Thread, BecomesMain(t) PROVE Goal
  BY <1>0, <1>4 DEF BecomesMain, NestInv, LiveInv, FaultsOnlyOutside, Running
<1>5. ASSUME NEW t \in Thread, Leaves(t) PROVE Goal
  BY <1>0, <1>5 DEF Leaves, NestInv, LiveInv, FaultsOnlyOutside, Running
<1>6. ASSUME NEW t \in Thread, NEW from, NEW to, Reframes(t, from, to) PROVE Goal
  BY <1>0, <1>6 DEF Reframes, NestInv, LiveInv, FaultsOnlyOutside, Running
<1> QED BY <1>1, <1>2, <1>3, <1>4, <1>5, <1>6 DEF Kinds

\* Data comes from the homes of threads only.
LEMMA HomeStep ==
  ASSUME PoolsAssumption, ~Reentrant, ServedInv, Next
  PROVE  HomeInv'
<1>0. TypeOK /\ HomeInv
  BY DEF ServedInv, PoolInv
<1>1. lib' = "unloaded" => lib = "unloaded"
  <2>1. \A t \in Thread : ManagerCall(t) \/ JobCall(t) \/ CompileStep(t) => lib' = lib
    BY LibKept
  <2> QED BY <2>1 DEF Next, OnLoad, FinishInit, OnUnload
<1>2. CASE UNCHANGED <<places, origin>>
  BY <1>0, <1>1, <1>2 DEF HomeInv
<1>3. ASSUME NEW t \in Thread, Ready(t), Gives(t) PROVE HomeInv'
  <2>1. PICK k \in Item, new \in BOOLEAN : Adds(t, k, new)
    BY <1>0, <1>3, GivesAdds
  <2>2. new => tls[t] \notin Job /\ <<tls[t], level[tls[t]]>> \in places'[k]
    BY <1>3, <2>1, ReadyHome DEF Adds
  <2>3. lib # "unloaded"
    BY <1>3 DEF Ready
  <2>4. ASSUME NEW i \in Item, NEW pl \in places'[i] PROVE pl[1] \notin Job
    <3>1. \/ pl \in places[i]
          \/ new /\ pl = <<tls[t], level[tls[t]]>>
          \/ i \in Made /\ origin[i] # NoPool /\ pl[1] = origin[i]
      BY <2>1, <2>4 DEF Adds
    <3> QED BY <1>0, <2>2, <3>1 DEF HomeInv
  <2>5. ASSUME NEW i \in Made, origin'[i] # NoPool PROVE \E pl \in places'[i] : pl[1] = origin'[i]
    <3>1. i \in Item
      BY DEF Item
    <3>2. CASE origin'[i] = origin[i]
      <4>1. PICK pl \in places[i] : pl[1] = origin[i]
        BY <1>0, <2>5, <3>2 DEF HomeInv
      <4> QED BY <2>1, <3>1, <3>2, <4>1 DEF Adds
    <3>3. CASE new /\ i = k /\ origin'[i] = tls[t]
      BY <2>2, <3>3
    <3> QED BY <2>1, <3>2, <3>3 DEF Adds
  <2> QED BY <1>1, <2>3, <2>4, <2>5 DEF HomeInv
<1> QED BY <1>0, <1>2, <1>3, PlacesKept

LEMMA ServedInvHolds ==
  ASSUME PoolsAssumption, ~ParseMayThrow, ~Reentrant, InitResults = {TRUE}
  PROVE  Spec => []ServedInv
<1>1. Init => NestInv /\ LiveInv /\ GoneInv /\ HomeInv /\ FaultsOnlyOutside
  BY EmptySeq DEF Init, NestInv, LiveInv, GoneInv, HomeInv, FaultsOnlyOutside
<1>2. ServedInv /\ PoolInv' /\ [Next]_vars => ServedInv'
  <2> SUFFICES ASSUME ServedInv, PoolInv', [Next]_vars PROVE ServedInv'
    OBVIOUS
  <2>1. CASE Next
    <3>1. lib' # "gone" => lib # "gone"
      BY <2>1, GoneBack
    <3> QED BY <2>1, <3>1, NextKinds, KindsPreserve, GoneStep, HomeStep DEF ServedInv
  <2>2. CASE UNCHANGED vars
    <3>1. UNCHANGED <<lib, frames, leaving, registered, live, fault, mainThread, places, origin>>
      BY <2>2 DEF vars, javaVars, poolVars, itemVars
    <3> QED BY <3>1 DEF ServedInv, NestInv, LiveInv, GoneInv, HomeInv, FaultsOnlyOutside,
                        Running, Attached
  <2> QED BY <2>1, <2>2
<1> QED BY <1>1, <1>2, PoolInvHolds, PTL DEF Spec, ServedInv

\* No call of the main thread or of a registered worker ever uses a missing or
\* dead pool, whatever the other threads do, unregister included: what it can
\* come to is data that was lost.
THEOREM NoAttachedFault ==
  ASSUME PoolsAssumption, ~ParseMayThrow, ~Reentrant, InitResults = {TRUE}
  PROVE  Spec => []FaultsOnlyOutside
BY ServedInvHolds, PTL DEF ServedInv

-----------------------------------------------------------------------------
(* Refinement of WorkerThreads.                                            *)

LEMMA AbstractInit == ASSUME PoolsAssumption PROVE Init => Abstract!Init
BY DEF Init, Abstract!Init, ThreadState, Attached, PoolsAssumption, Makers

\* A step that moves one thread's state from one value to another.
LEMMA OneMoves ==
  ASSUME NEW t \in Thread, NEW from, NEW to, fault = NoFault, fault' = NoFault,
         ThreadState(t) = from, ThreadState(t)' = to, SameMakers,
         \A u \in Thread \ {t} : ThreadState(u)' = ThreadState(u)
  PROVE  Abstract!Moves(t, from, to)
BY DEF Abstract!Moves, SameMakers

\* Data that a step tears is data its thread gave memory to.
LEMMA TearsReclaims ==
  ASSUME NEW t \in Thread, Tears(t) PROVE Abstract!Reclaims(t) /\ SameMakers
<1> DEFINE S == torn' \ torn
<1>1. S \in SUBSET {i \in Item : t \in [k \in Item |-> Makers(k)][i]} /\ torn' = torn \cup S
  BY DEF Tears
<1> HIDE DEF S
<1> QED BY <1>1 DEF Abstract!Reclaims, Tears

LEMMA KindsRefine ==
  ASSUME PoolsAssumption, ServedInv, Kinds, fault = NoFault
  PROVE  Abstract!Next \/ UNCHANGED Abstract!wvars
<1>0. registered \in [Thread -> BOOLEAN]
  BY DEF ServedInv, PoolInv, TypeOK
<1>1. CASE Quiet
  <2>1. \A u \in Thread : ThreadState(u)' = ThreadState(u)
    BY <1>1 DEF Quiet, ThreadState, Attached
  <2>2. CASE Whole
    BY <1>1, <2>1, <2>2 DEF Quiet, Whole, SameMakers, Abstract!wvars
  <2>3. ASSUME NEW t \in Thread, Attached(t), frames[t] = <<>>, Tears(t) PROVE Abstract!Next
    <3>1. ThreadState(t) = "attached"
      BY <2>3 DEF ThreadState
    <3>2. Abstract!Close(t)
      BY <1>0, <1>1, <2>1, <2>3, <3>1, OneMoves, TearsReclaims DEF Abstract!Close, Quiet
    <3> QED BY <3>2 DEF Abstract!Next
  <2>4. ASSUME NEW t \in Thread, Attached(t), frames[t] = <<>>, NEW i \in Item, Makes(t, i)
        PROVE  Abstract!Next
    <3>1. ThreadState(t) = "attached"
      BY <2>4 DEF ThreadState
    <3>2. [k \in Item |-> Makers(k)]' = [[k \in Item |-> Makers(k)] EXCEPT ![i] = @ \cup {t}]
      BY <2>4 DEF Makes
    <3>3. Abstract!Make(t, i)
      BY <1>1, <2>1, <2>4, <3>1, <3>2 DEF Abstract!Make, Quiet, Makes
    <3> QED BY <3>3 DEF Abstract!Next
  <2> QED BY <1>1, <2>2, <2>3, <2>4 DEF Quiet
<1>2. ASSUME NEW t \in Thread, Dies(t) PROVE Abstract!Next
  <2>1. /\ ThreadState(t) = "outside" \/ torn # {}
        /\ \A u \in Thread : ThreadState(u)' = ThreadState(u)
    BY <1>2 DEF Dies, ThreadState, Attached
  <2>2. Abstract!Die(t)
    BY <1>2, <2>1 DEF Abstract!Die, Dies, Whole, SameMakers
  <2> QED BY <2>2 DEF Abstract!Next
<1>3. ASSUME NEW t \in Thread, Registers(t) PROVE Abstract!Next
  <2>1. /\ ThreadState(t) = "outside" /\ ThreadState(t)' = "attached"
        /\ \A u \in Thread \ {t} : ThreadState(u)' = ThreadState(u)
    BY <1>0, <1>3 DEF Registers, ThreadState, Attached
  <2>2. Abstract!Attach(t)
    BY <1>3, <2>1, OneMoves DEF Abstract!Attach, Registers, Whole
  <2> QED BY <2>2 DEF Abstract!Next
<1>4. ASSUME NEW t \in Thread, BecomesMain(t) PROVE Abstract!Next
  <2>1. /\ ThreadState(t) = "outside" /\ ThreadState(t)' = "attached"
        /\ \A u \in Thread \ {t} : ThreadState(u)' = ThreadState(u)
    BY <1>4 DEF BecomesMain, ThreadState, Attached, PoolsAssumption
  <2>2. Abstract!Attach(t)
    BY <1>4, <2>1, OneMoves DEF Abstract!Attach, BecomesMain, Whole
  <2> QED BY <2>2 DEF Abstract!Next
<1>5. ASSUME NEW t \in Thread, Leaves(t) PROVE Abstract!Next
  <2>1. /\ ThreadState(t) = "attached" /\ ThreadState(t)' = "outside"
        /\ \A u \in Thread \ {t} : ThreadState(u)' = ThreadState(u)
    BY <1>0, <1>5 DEF Leaves, ThreadState, Attached
  <2>2. Abstract!Leave(t)
    BY <1>5, <2>1, OneMoves, TearsReclaims DEF Abstract!Leave, Leaves
  <2> QED BY <2>2 DEF Abstract!Next
<1>6. ASSUME NEW t \in Thread, Reframes(t, TRUE, FALSE) PROVE Abstract!Next
  <2>1. /\ ThreadState(t) = "attached" /\ ThreadState(t)' = "compiling"
        /\ \A u \in Thread \ {t} : ThreadState(u)' = ThreadState(u)
    BY <1>6 DEF Reframes, ThreadState, Attached
  <2>2. Abstract!Compile(t)
    BY <1>6, <2>1, OneMoves DEF Abstract!Compile, Reframes, Whole
  <2> QED BY <2>2 DEF Abstract!Next
<1>7. ASSUME NEW t \in Thread, Reframes(t, FALSE, FALSE) PROVE UNCHANGED Abstract!wvars
  <2>1. \A u \in Thread : ThreadState(u)' = ThreadState(u)
    BY <1>7 DEF Reframes, ThreadState, Attached
  <2> QED BY <1>7, <2>1 DEF Reframes, Whole, SameMakers, Abstract!wvars
<1>8. ASSUME NEW t \in Thread, Reframes(t, FALSE, TRUE) PROVE Abstract!Next
  <2>1. /\ ThreadState(t) = "compiling" /\ ThreadState(t)' = "attached"
        /\ \A u \in Thread \ {t} : ThreadState(u)' = ThreadState(u)
    BY <1>8 DEF Reframes, ThreadState, Attached
  <2>2. Abstract!Finish(t)
    BY <1>8, <2>1, OneMoves, TearsReclaims DEF Abstract!Finish, Reframes
  <2> QED BY <2>2 DEF Abstract!Next
<1> QED BY <1>1, <1>2, <1>3, <1>4, <1>5, <1>6, <1>7, <1>8 DEF Kinds

\* The memory pools implement the thread API promised by WorkerThreads: calls of
\* attached threads are safe while no data is lost, and data is lost only by a
\* call of a thread that gave it memory.
THEOREM PoolsServeWorkers ==
  ASSUME PoolsAssumption, ~ParseMayThrow, ~Reentrant, InitResults = {TRUE}
  PROVE  Spec => ServesWorkers
<1>1. ServedInv /\ [Next]_vars => [Abstract!Next]_(Abstract!wvars)
  <2> SUFFICES ASSUME ServedInv, [Next]_vars
      PROVE  Abstract!Next \/ UNCHANGED Abstract!wvars
    OBVIOUS
  <2>1. CASE Next
    BY <2>1, NextKinds, KindsRefine
  <2>2. CASE UNCHANGED vars
    BY <2>2 DEF vars, javaVars, itemVars, Abstract!wvars, ThreadState, Attached, Makers
  <2> QED BY <2>1, <2>2
<1> QED BY <1>1, AbstractInit, ServedInvHolds, PTL DEF Spec, ServesWorkers, Abstract!Spec

-----------------------------------------------------------------------------
(* Who can have which pool.                                                *)

\* A served thread has its own pool or the shader's pool of one of its compiles.
LEMMA CurrentPool ==
  ASSUME PoolsAssumption, PoolInv, Running, NEW t \in Thread, registered[t] \/ t = loader
  PROVE  \/ tls[t] = Home(t)
         \/ \E n \in DOMAIN frames[t] : frames[t][n] \in Frame /\ frames[t][n].job = tls[t]
<1>2. Chain(t)
  BY DEF PoolInv, ChainInv
<1>3. CASE frames[t] = <<>>
  BY <1>2, <1>3 DEF Chain
<1>4. CASE frames[t] # <<>>
  <2> DEFINE n == Len(frames[t])
  <2>1. n \in 1 .. n /\ Top(t) = frames[t][n] /\ Top(t) \in Frame
    BY <1>4, TopTypes DEF PoolInv, Top
  <2>2. frames[t] \in Seq(Frame) /\ n \in Nat
    BY LenProperties DEF PoolInv, TypeOK
  <2>3. DOMAIN frames[t] = 1 .. n
    BY <2>2, LenProperties
  <2>4. CASE Top(t).phase = "parsing"
    BY <1>2, <1>4, <2>1, <2>3, <2>4 DEF Chain
  <2>5. CASE Top(t).phase # "parsing"
    <3>1. tls[t] = frames[t][n].pre
      BY <1>2, <1>4, <2>1, <2>5 DEF Chain
    <3>2. frames[t][n].pre = IF n = 1 THEN Home(t) ELSE frames[t][n - 1].job
      BY <1>2, <2>1 DEF Chain
    <3>3. n # 1 => n - 1 \in 1 .. n
      BY <2>1, <2>2, Predecessor
    <3>4. n # 1 => frames[t][n - 1] \in Frame
      BY <2>2, <3>3, ElementOfSeq
    <3> QED BY <2>3, <3>1, <3>2, <3>3, <3>4
  <2> QED BY <2>4, <2>5
<1> QED BY <1>3, <1>4

\* Two served threads have two homes.
LEMMA HomesApart ==
  ASSUME PoolsAssumption, PoolInv, NEW t \in Thread, NEW u \in Thread,
         registered[t] \/ t = loader, registered[u] \/ u = loader, Home(t) = Home(u)
  PROVE  t = u
BY DEF PoolsAssumption, Home

LEMMA HomeNoJob ==
  ASSUME PoolsAssumption, NEW t \in Thread PROVE Home(t) \notin Job
BY DEF PoolsAssumption, Home

\* Two threads allocate from one pool only inside compiles of one job: whatever
\* pools compile switches to, no other thread's pool is ever current on a thread.
THEOREM OnePoolOneThread ==
  ASSUME PoolsAssumption, ~ParseMayThrow, InitResults = {TRUE}
  PROVE  Spec => []PoolsShared
<1>1. PoolInv => PoolsShared
  <2> SUFFICES ASSUME PoolInv, Running, NEW t \in Thread, NEW u \in Thread,
                      t # u, tls[t] = tls[u], tls[t] # NoPool
               PROVE  \A v \in {t, u} : \E n \in DOMAIN frames[v] : frames[v][n].job = tls[v]
    BY DEF PoolsShared
  <2> DEFINE InJob(v) == \E n \in DOMAIN frames[v] :
                           frames[v][n] \in Frame /\ frames[v][n].job = tls[v]
  <2>1. (registered[t] \/ t = loader) /\ (tls[t] = Home(t) \/ InJob(t))
    BY CurrentPool DEF PoolInv, OutsideInv
  <2>2. (registered[u] \/ u = loader) /\ (tls[u] = Home(u) \/ InJob(u))
    BY CurrentPool DEF PoolInv, OutsideInv
  <2>3. \A v \in {t, u} : InJob(v) => tls[v] \in Job
    BY DEF Frame
  <2>4. InJob(t) /\ InJob(u)
    <3>1. Home(t) # Home(u)
      BY <2>1, <2>2, HomesApart
    <3>2. Home(t) \notin Job /\ Home(u) \notin Job
      BY HomeNoJob
    <3> QED BY <2>1, <2>2, <2>3, <3>1, <3>2
  <2> QED BY <2>4
<1> QED BY <1>1, PoolInvHolds, PTL


-----------------------------------------------------------------------------
(* Why a use of a missing or dead pool happens.                            *)

\* The pool of every registered thread and of every job being compiled exists.
Alive ==
  \A t \in Thread :
    /\ registered[t] => t \in live
    /\ \A n \in DOMAIN frames[t] : frames[t][n].job \in live

\* Until a thread unregisters that is so, and only threads outside the API fault.
AliveInv == (\A u \in Thread : ~leaving[u]) => FaultsOnlyOutside /\ (Running => Alive)

LEMMA GoneInvHolds == Spec => []GoneInv
<1>1. Init => GoneInv
  BY DEF Init, GoneInv
<1>2. GoneInv /\ [Next]_vars => GoneInv'
  <2>1. GoneInv /\ UNCHANGED vars => GoneInv'
    BY DEF GoneInv, vars, javaVars
  <2> QED BY <2>1, GoneStep
<1> QED BY <1>1, <1>2, PTL DEF Spec

\* Nothing happens after a fault or an unload.
LEMMA NextRunning ==
  ASSUME PoolInv, GoneInv, Next
  PROVE  Running
<1>1. ASSUME NEW t \in Thread, OnLoad(t) PROVE Running
  BY <1>1 DEF OnLoad, Running, PoolInv, LibInv
<1>2. ASSUME NEW ok \in InitResults, FinishInit(ok) PROVE Running
  BY <1>2 DEF FinishInit, Running
<1>3. ASSUME OnUnload PROVE Running
  BY <1>3 DEF OnUnload, Running
<1>4. ASSUME NEW t \in Thread, Ready(t) PROVE Running
  BY <1>4, ReadyFacts
<1>5. ASSUME NEW t \in Thread, fault = NoFault, leaving[t] \/ frames[t] # <<>> PROVE Running
  BY <1>5 DEF GoneInv, Running
<1>6. ASSUME NEW t \in Thread, ManagerCall(t) \/ JobCall(t) \/ CompileStep(t) PROVE Running
  BY <1>4, <1>5, <1>6, CallGoesOn
<1> QED BY <1>1, <1>2, <1>3, <1>6 DEF Next

\* The second native call of unregisterWorkThread never finds a pool.
LEMMA AgainFaults ==
  ASSUME PoolsAssumption, PoolInv, NEW t \in Thread, UnregisterAgain(t)
  PROVE  Faults(t, "unregister") /\ ~Attached(t) /\ ~Usable(t)
<1>1. ~registered[t] /\ t # loader /\ t # mainThread
  <2>1. CASE leaving[t] /\ fault = NoFault
    BY <2>1 DEF PoolInv, OutsideInv, LibInv, PoolsAssumption
  <2>2. CASE Ready(t) /\ t # mainThread /\ ~registered[t]
    BY <2>2, ReadyFacts
  <2> QED BY <2>1, <2>2 DEF UnregisterAgain
<1>2. ~Usable(t)
  BY <1>1, OutsideUnusable DEF PoolInv
<1> QED BY <1>1, <1>2 DEF UnregisterAgain, Attached

\* A thread that begins to unregister never comes back, jobs and the library are
\* created once.
LEMMA Standing ==
  ASSUME PoolsAssumption, PoolInv, Next
  PROVE  /\ \A t \in Thread : leaving[t] => leaving'[t]
         /\ \A t \in Thread : registered[t] => registered'[t] \/ leaving'[t]
         /\ born \subseteq born'
         /\ lib # "unloaded" => lib' # "unloaded"
<1> DEFINE Goal == /\ \A t \in Thread : leaving[t] => leaving'[t]
                   /\ \A t \in Thread : registered[t] => registered'[t] \/ leaving'[t]
                   /\ born \subseteq born'
                   /\ lib # "unloaded" => lib' # "unloaded"
<1>0. TypeOK /\ registered \in [Thread -> BOOLEAN] /\ leaving \in [Thread -> BOOLEAN]
  BY DEF PoolInv, TypeOK
<1>f. ASSUME NEW t \in Thread, NEW op \in Op, Faults(t, op) PROVE Goal
  BY <1>f DEF Faults, Stops, javaVars, jobVars
<1>1. ASSUME NEW t \in Thread, OnLoad(t) PROVE Goal
  BY <1>1 DEF OnLoad, javaVars, jobVars
<1>2. ASSUME NEW ok \in InitResults, FinishInit(ok) PROVE Goal
  BY <1>2 DEF FinishInit, jobVars
<1>3. ASSUME OnUnload PROVE Goal
  BY <1>3 DEF OnUnload, javaVars, jobVars
<1>4. ASSUME NEW t \in Thread, RegisterWorkThread(t) PROVE Goal
  BY <1>0, <1>4 DEF RegisterWorkThread, jobVars
<1>5. ASSUME NEW t \in Thread, UnregisterWorkThread(t) PROVE Goal
  <2>1. CASE Usable(t)
    BY <1>0, <1>5, <2>1 DEF UnregisterWorkThread, jobVars
  <2>2. CASE ~Usable(t)
    BY <1>5, <1>f, <2>2 DEF UnregisterWorkThread, Op
  <2> QED BY <2>1, <2>2
<1>6. ASSUME NEW t \in Thread, UnregisterAgain(t) PROVE Goal
  BY <1>6, <1>f, AgainFaults DEF Op
<1>7. ASSUME NEW t \in Thread, PushMemoryPool(t) \/ PopMemoryPool(t) PROVE Goal
  BY <1>7 DEF PushMemoryPool, PopMemoryPool, jobVars
<1>s. ASSUME NEW t \in Thread, FindsNoPool(t) \/ Misused(t) PROVE Goal
  BY <1>s, StopsAlone
<1>8. ASSUME NEW t \in Thread, JobCall(t) PROVE Goal
  <2>1. ASSUME NEW j \in Job, CreateJob(t, j) \/ DeleteJob(t, j) \/ Begins(t, j) PROVE Goal
    BY <1>0, <2>1 DEF CreateJob, DeleteJob, Begins, javaVars, jobVars
  <2>2. CASE Gives(t)
    BY <1>0, <2>2 DEF Gives, javaVars
  <2> QED BY <1>0, <1>8, <1>s, <2>1, <2>2, JobCases
<1>9. ASSUME NEW t \in Thread, CompileStep(t) PROVE Goal
  BY <1>0, <1>9, <1>s, CompileCases
  DEF ParseReturns, ParseThrows, CompileEnds, LeaveCompile, javaVars, jobVars
<1> QED BY <1>1, <1>2, <1>3, <1>4, <1>5, <1>6, <1>7, <1>8, <1>9 DEF Next, ManagerCall

LEMMA AttachedAlive ==
  ASSUME PoolsAssumption, PoolInv, Alive, Running, NEW t \in Thread, Attached(t)
  PROVE  Usable(t)
<1>1. registered[t] \/ t = loader
  BY DEF Attached, PoolInv, LibInv, PoolsAssumption
<1>2. Home(t) \in live
  <2>1. CASE registered[t]
    BY <2>1 DEF Home, Alive
  <2>2. CASE ~registered[t]
    <3>1. lib = "available"
      BY <2>2 DEF Attached, PoolInv, LibInv, PoolsAssumption, Running
    <3> QED BY <2>2, <3>1 DEF PoolInv, LibInv, Home
  <2> QED BY <2>1, <2>2
<1>3. tls[t] = Home(t) \/ \E n \in DOMAIN frames[t] : frames[t][n].job = tls[t]
  BY <1>1, CurrentPool
<1> QED BY <1>2, <1>3 DEF Alive, Usable

\* The jobs of a thread's frames when one is added, changed or taken away.
LEMMA FramesAdd ==
  ASSUME NEW s \in Seq(Frame), NEW f \in Frame, NEW n \in DOMAIN Append(s, f)
  PROVE  Append(s, f)[n] = f \/ (n \in DOMAIN s /\ Append(s, f)[n] = s[n])
<1>1. Len(s) \in Nat /\ DOMAIN s = 1 .. Len(s)
  BY LenProperties
<1>2. /\ Append(s, f) \in Seq(Frame) /\ Len(Append(s, f)) = Len(s) + 1
      /\ \A i \in 1 .. Len(s) : Append(s, f)[i] = s[i]
      /\ Append(s, f)[Len(s) + 1] = f
  BY AppendProperties
<1>3. n \in 1 .. Len(s) + 1
  BY <1>2, LenProperties
<1>4. n \in 1 .. Len(s) \/ n = Len(s) + 1
  BY <1>1, <1>3
<1> QED BY <1>1, <1>2, <1>4

LEMMA FramesLess ==
  ASSUME NEW s \in Seq(Frame), s # <<>>, NEW n \in DOMAIN Front(s)
  PROVE  n \in DOMAIN s /\ Front(s)[n] = s[n]
<1>1. Len(s) \in Nat \ {0} /\ DOMAIN s = 1 .. Len(s)
  BY LenProperties, EmptySeq
<1>2. Front(s) = [i \in 1 .. (Len(s) - 1) |-> s[i]]
  BY <1>1 DEF Front
<1>3. n \in 1 .. (Len(s) - 1)
  BY <1>2
<1>4. n \in 1 .. Len(s)
  BY <1>1, <1>3
<1> QED BY <1>1, <1>2, <1>3, <1>4

LEMMA FramesChange ==
  ASSUME NEW s \in Seq(Frame), NEW k \in DOMAIN s, NEW f, f.job = s[k].job,
         NEW n \in DOMAIN [s EXCEPT ![k] = f]
  PROVE  n \in DOMAIN s /\ [s EXCEPT ![k] = f][n].job = s[n].job
OBVIOUS

LEMMA AliveStep ==
  ASSUME PoolsAssumption, ~ParseMayThrow, InitResults = {TRUE}, PoolInv, GoneInv, AliveInv,
         Next, \A u \in Thread : ~leaving'[u]
  PROVE  FaultsOnlyOutside' /\ (Running' => Alive')
<1> DEFINE Goal == FaultsOnlyOutside' /\ (Running' => Alive')
<1>0. /\ TypeOK /\ Running /\ Alive /\ fault = NoFault
      /\ registered \in [Thread -> BOOLEAN] /\ leaving \in [Thread -> BOOLEAN]
      /\ frames \in [Thread -> Seq(Frame)]
  BY NextRunning, Standing DEF AliveInv, Running, PoolInv, TypeOK
<1>s. ASSUME NEW t \in Thread, FindsNoPool(t) \/ Misused(t) PROVE Goal
  <2>1. /\ UNCHANGED <<registered, mainThread>> /\ fault'.thread = t /\ fault' # NoFault
        /\ (fault'.item = NoItem /\ ~Usable(t)) \/ fault'.item \in torn \cap Item
    BY <1>s, StopsAlone
  <2>2. ~Usable(t) => ~Attached(t)'
    BY <1>0, <2>1, AttachedAlive DEF Attached
  <2>3. NoItem \notin Item
    BY DEF PoolsAssumption, Item, Made
  <2> QED BY <2>1, <2>2, <2>3 DEF FaultsOnlyOutside, Running, PoolsAssumption
<1>u. ASSUME NEW t \in Thread, NEW op \in Op \ {"none"}, Faults(t, op), ~Usable(t)
      PROVE  Goal
  BY <1>s, <1>u DEF FindsNoPool
<1>k. ASSUME UNCHANGED <<registered, frames, fault>>, live \subseteq live' PROVE Goal
  BY <1>0, <1>k DEF FaultsOnlyOutside, Alive
<1>1. ASSUME NEW t \in Thread, OnLoad(t) PROVE Goal
  BY <1>1, <1>k DEF OnLoad, javaVars
<1>2. ASSUME NEW ok \in InitResults, FinishInit(ok) PROVE Goal
  BY <1>2, <1>k DEF FinishInit, poolVars
<1>3. ASSUME OnUnload PROVE Goal
  <2>1. MainPool \in live
    BY <1>3 DEF OnUnload, PoolInv, LibInv
  <2>2. fault' = NoFault /\ lib' = "gone"
    BY <1>0, <1>3, <2>1 DEF OnUnload
  <2> QED BY <2>2 DEF FaultsOnlyOutside, Running
<1>4. ASSUME NEW t \in Thread, RegisterWorkThread(t) PROVE Goal
  BY <1>0, <1>4 DEF RegisterWorkThread, FaultsOnlyOutside, Alive
<1>5. ASSUME NEW t \in Thread, UnregisterWorkThread(t) PROVE Goal
  <2>1. CASE Usable(t)
    BY <1>0, <1>5, <2>1 DEF UnregisterWorkThread
  <2>2. CASE ~Usable(t)
    BY <1>5, <1>u, <2>2 DEF UnregisterWorkThread, Op
  <2> QED BY <2>1, <2>2
<1>6. ASSUME NEW t \in Thread, UnregisterAgain(t) PROVE Goal
  BY <1>0, <1>6, <1>u, AgainFaults, AttachedAlive DEF Op
<1>7. ASSUME NEW t \in Thread, PushMemoryPool(t) \/ PopMemoryPool(t) PROVE Goal
  <2>1. Usable(t)
    BY <1>0, <1>7, AttachedAlive DEF PushMemoryPool, PopMemoryPool, Attached
  <2> QED BY <1>7, <1>k, <2>1 DEF PushMemoryPool, PopMemoryPool
<1>8. ASSUME NEW t \in Thread, JobCall(t) PROVE Goal
  <2>1. ASSUME NEW j \in Job, CreateJob(t, j) PROVE Goal
    BY <1>k, <2>1 DEF CreateJob, javaVars
  <2>2. ASSUME NEW j \in Job, DeleteJob(t, j) PROVE Goal
    <3>1. j \notin Thread
      BY DEF PoolsAssumption
    <3>2. \A u \in Thread : \A n \in DOMAIN frames[u] : frames[u][n].job # j
      BY <2>2 DEF DeleteJob, InUse
    <3>3. live' = live \ {j} /\ UNCHANGED <<registered, frames, fault>>
      BY <2>2 DEF DeleteJob, DropPool, javaVars
    <3> QED BY <1>0, <3>1, <3>2, <3>3 DEF FaultsOnlyOutside, Alive
  <2>3. ASSUME NEW j \in Job, j \in live, Begins(t, j) PROVE Goal
    <3> DEFINE f == [job |-> j, pre |-> tls[t], phase |-> "parsing"]
    <3>1. f \in Frame
      <4>1. tls[t] \in Pool
        BY <2>3 DEF Begins, Usable, PoolInv, TypeOK
      <4> QED BY <4>1 DEF Frame
    <3>2. /\ frames' = [frames EXCEPT ![t] = Append(@, f)]
          /\ UNCHANGED <<registered, live, fault>>
      BY <2>3 DEF Begins, javaVars
    <3>3. f.job = j
      OBVIOUS
    <3> HIDE DEF f
    <3>4. ASSUME NEW n \in DOMAIN frames'[t] PROVE frames'[t][n].job \in live
      <4>1. frames'[t] = Append(frames[t], f) /\ frames[t] \in Seq(Frame)
        BY <1>0, <3>2
      <4>2. frames'[t][n] = f \/ (n \in DOMAIN frames[t] /\ frames'[t][n] = frames[t][n])
        BY <3>1, <3>4, <4>1, FramesAdd
      <4> QED BY <1>0, <2>3, <3>3, <4>2 DEF Alive
    <3>5. \A u \in Thread \ {t} : frames'[u] = frames[u]
      BY <1>0, <3>2
    <3> QED BY <1>0, <3>2, <3>4, <3>5 DEF FaultsOnlyOutside, Alive
  <2>4. CASE Gives(t)
    BY <1>k, <2>4 DEF Gives, javaVars, poolVars
  <2> QED BY <1>0, <1>8, <1>s, <2>1, <2>2, <2>3, <2>4, JobCases
<1>9. ASSUME NEW t \in Thread, CompileStep(t) PROVE Goal
  <2>1. /\ frames[t] # <<>> /\ frames[t] \in Seq(Frame)
        /\ Len(frames[t]) \in DOMAIN frames[t] /\ Top(t) = frames[t][Len(frames[t])]
    <3>1. frames[t] # <<>>
      BY <1>0, <1>9, CompileCases
    <3>2. Len(frames[t]) \in 1 .. Len(frames[t])
      BY <3>1, TopTypes DEF PoolInv
    <3> QED BY <1>0, <3>1, <3>2, LenProperties DEF Top
  <2>2. CASE ParseReturns(t)
    <3>1. /\ frames' = [frames EXCEPT ![t] = [@ EXCEPT ![Len(frames[t])] = Emitting(Top(t))]]
          /\ UNCHANGED <<registered, live, fault>>
      BY <2>2 DEF ParseReturns, javaVars
    <3>2. Emitting(Top(t)).job = frames[t][Len(frames[t])].job
      BY <2>1 DEF Emitting
    <3>3. /\ frames'[t] = [frames[t] EXCEPT ![Len(frames[t])] = Emitting(Top(t))]
          /\ \A u \in Thread \ {t} : frames'[u] = frames[u]
      BY <1>0, <3>1
    <3>4. ASSUME NEW n \in DOMAIN frames'[t] PROVE frames'[t][n].job \in live
      <4>1. n \in DOMAIN frames[t] /\ frames'[t][n].job = frames[t][n].job
        BY <2>1, <3>2, <3>3, <3>4, FramesChange
      <4> QED BY <1>0, <4>1 DEF Alive
    <3> QED BY <1>0, <3>1, <3>3, <3>4 DEF FaultsOnlyOutside, Alive
  <2>3. CASE CompileEnds(t)
    <3>1. Attached(t)
      <4>1. registered[t] \/ t = loader
        BY <1>0, <2>1, Standing DEF PoolInv, OutsideInv
      <4>2. t = loader => lib = "available"
        BY <1>0, <2>1 DEF PoolInv, LibInv, Running, TypeOK
      <4> QED BY <4>1, <4>2 DEF Attached, PoolInv, LibInv
    <3>2. Usable(t)
      BY <1>0, <3>1, AttachedAlive
    <3>3. frames' = [frames EXCEPT ![t] = Front(@)] /\ UNCHANGED <<registered, live, fault>>
      BY <2>3, <3>2 DEF CompileEnds, LeaveCompile, javaVars
    <3>4. frames'[t] = Front(frames[t]) /\ \A u \in Thread \ {t} : frames'[u] = frames[u]
      BY <1>0, <3>3
    <3>5. ASSUME NEW n \in DOMAIN frames'[t] PROVE frames'[t][n].job \in live
      <4>1. n \in DOMAIN frames[t] /\ frames'[t][n] = frames[t][n]
        BY <2>1, <3>4, <3>5, FramesLess
      <4> QED BY <1>0, <4>1 DEF Alive
    <3> QED BY <1>0, <3>3, <3>4, <3>5 DEF FaultsOnlyOutside, Alive
  <2> QED BY <1>0, <1>9, <1>s, <2>2, <2>3, CompileCases DEF ParseThrows
<1> QED BY <1>1, <1>2, <1>3, <1>4, <1>5, <1>6, <1>7, <1>8, <1>9 DEF Next, ManagerCall

LEMMA AliveInvHolds ==
  ASSUME PoolsAssumption, ~ParseMayThrow, InitResults = {TRUE}
  PROVE  Spec => []AliveInv
<1>1. Init => AliveInv
  BY DEF Init, AliveInv, Alive, FaultsOnlyOutside
<1>2. PoolInv /\ GoneInv /\ AliveInv /\ [Next]_vars => AliveInv'
  <2> SUFFICES ASSUME PoolInv, GoneInv, AliveInv, [Next]_vars PROVE AliveInv'
    OBVIOUS
  <2>1. CASE Next
    BY <2>1, AliveStep DEF AliveInv
  <2>2. CASE UNCHANGED vars
    BY <2>2 DEF AliveInv, Alive, FaultsOnlyOutside, Attached, Running, vars, javaVars, poolVars
  <2> QED BY <2>1, <2>2
<1> QED BY <1>1, <1>2, PoolInvHolds, GoneInvHolds, PTL DEF Spec

\* A call that finds data lost changes nothing but fault.
LEMMA LostStep ==
  ASSUME PoolsAssumption, PoolInv, Next, fault'.item # NoItem
  PROVE  /\ fault'.item \in torn \cap Item
         /\ UNCHANGED <<lib, loader, registered, leaving, live, places, torn>>
<1> DEFINE Goal == /\ fault'.item \in torn \cap Item
                   /\ UNCHANGED <<lib, loader, registered, leaving, live, places, torn>>
<1>0. TypeOK /\ NoFault.item = NoItem
  BY DEF PoolInv, NoFault
<1>1. \A t \in Thread : ~OnLoad(t)
  BY <1>0 DEF OnLoad, PoolInv, LibInv
<1>2. \A ok \in InitResults : ~FinishInit(ok)
  BY <1>0 DEF FinishInit
<1>3. ~OnUnload
  BY <1>0 DEF OnUnload
<1>s. ASSUME NEW t \in Thread, FindsNoPool(t) \/ Misused(t) PROVE Goal
  BY <1>s, StopsAlone
<1>4. ASSUME NEW t \in Thread, ManagerCall(t) PROVE Goal
  <2>1. fault = NoFault
    BY <1>4, CallGoesOn
  <2> QED BY <1>0, <1>4, <2>1 DEF ManagerCall, RegisterWorkThread, UnregisterWorkThread,
          UnregisterAgain, PushMemoryPool, PopMemoryPool, Faults, Stops
<1>5. ASSUME NEW t \in Thread, JobCall(t) PROVE Goal
  <2>1. fault = NoFault
    BY <1>5, CallGoesOn
  <2>2. ~Gives(t) /\ \A j \in Job : ~CreateJob(t, j) /\ ~DeleteJob(t, j) /\ ~Begins(t, j)
    BY <1>0, <2>1 DEF Gives, CreateJob, DeleteJob, Begins
  <2> QED BY <1>0, <1>5, <1>s, <2>2, JobCases
<1>6. ASSUME NEW t \in Thread, CompileStep(t) PROVE Goal
  <2>1. fault = NoFault
    BY <1>6, CallGoesOn
  <2>2. ~ParseReturns(t) /\ ~ParseThrows(t) /\ ~CompileEnds(t)
    BY <1>0, <2>1 DEF ParseReturns, ParseThrows, CompileEnds, LeaveCompile
  <2> QED BY <1>0, <1>6, <1>s, <2>2, CompileCases
<1> QED BY <1>1, <1>2, <1>3, <1>4, <1>5, <1>6 DEF Next

-----------------------------------------------------------------------------
(* Where pools and data come from.                                         *)

\* The pool p has come to be: it will not be created again.
Taken(p) ==
  /\ p \in Thread => registered[p] \/ leaving[p]
  /\ p \in Job => p \in born
  /\ p = MainPool => lib # "unloaded"

TakenInv ==
  /\ \A p \in live : Taken(p)
  /\ \A i \in Item : \A pl \in places[i] : Taken(pl[1])
  /\ \A i \in Made : origin[i] # NoPool => Taken(origin[i])

LEMMA TakenStays ==
  ASSUME PoolsAssumption, PoolInv, Next, NEW p, Taken(p)
  PROVE  Taken(p)'
BY Standing DEF Taken

\* A pool is created once.
LEMMA NewPools ==
  ASSUME PoolsAssumption, PoolInv, Next, NEW p \in live'
  PROVE  p \in live \/ (~Taken(p) /\ Taken(p)')
<1> DEFINE Goal == p \in live \/ (~Taken(p) /\ Taken(p)')
<1>0. TypeOK /\ registered \in [Thread -> BOOLEAN] /\ leaving \in [Thread -> BOOLEAN]
  BY DEF PoolInv, TypeOK
<1>f. ASSUME NEW t \in Thread, NEW op \in Op, Faults(t, op) PROVE Goal
  BY <1>f DEF Faults, Stops, poolVars
<1>s. ASSUME NEW t \in Thread, FindsNoPool(t) \/ Misused(t) PROVE Goal
  BY <1>s, StopsAlone
<1>1. ASSUME NEW t \in Thread, OnLoad(t) PROVE Goal
  BY <1>1 DEF OnLoad, Taken, PoolsAssumption
<1>2. ASSUME NEW ok \in InitResults, FinishInit(ok) PROVE Goal
  BY <1>2 DEF FinishInit, poolVars
<1>3. ASSUME OnUnload PROVE Goal
  BY <1>3 DEF OnUnload, DropPool
<1>4. ASSUME NEW t \in Thread, RegisterWorkThread(t) PROVE Goal
  BY <1>0, <1>4 DEF RegisterWorkThread, Ready, Taken, PoolsAssumption
<1>5. ASSUME NEW t \in Thread, UnregisterWorkThread(t) PROVE Goal
  <2>1. CASE Usable(t)
    BY <1>5, <2>1 DEF UnregisterWorkThread, DetachPool, DropPool
  <2>2. CASE ~Usable(t)
    BY <1>5, <1>f, <2>2 DEF UnregisterWorkThread, Op
  <2> QED BY <2>1, <2>2
<1>6. ASSUME NEW t \in Thread, UnregisterAgain(t) PROVE Goal
  BY <1>6, <1>f, AgainFaults DEF Op
<1>7. ASSUME NEW t \in Thread, PushMemoryPool(t) \/ PopMemoryPool(t) PROVE Goal
  BY <1>7 DEF PushMemoryPool, PopMemoryPool
<1>8. ASSUME NEW t \in Thread, JobCall(t) PROVE Goal
  <2>1. ASSUME NEW j \in Job, CreateJob(t, j) PROVE Goal
    BY <2>1 DEF CreateJob, Taken, PoolsAssumption
  <2>2. ASSUME NEW j \in Job, DeleteJob(t, j) \/ Begins(t, j) PROVE Goal
    BY <2>2 DEF DeleteJob, DropPool, Begins
  <2>3. CASE Gives(t)
    BY <2>3 DEF Gives, poolVars
  <2> QED BY <1>0, <1>8, <1>s, <2>1, <2>2, <2>3, JobCases
<1>9. ASSUME NEW t \in Thread, CompileStep(t) PROVE Goal
  BY <1>0, <1>9, <1>s, CompileCases DEF ParseReturns, ParseThrows, CompileEnds, LeaveCompile
<1> QED BY <1>1, <1>2, <1>3, <1>4, <1>5, <1>6, <1>7, <1>8, <1>9 DEF Next, ManagerCall

\* Memory of an item is only ever added, and from a pool that was created.
LEMMA NewPlaces ==
  ASSUME PoolsAssumption, PoolInv, TakenInv, Next
  PROVE  /\ \A k \in Item : /\ places[k] \subseteq places'[k]
                            /\ \A pl \in places'[k] : pl \in places[k] \/ Taken(pl[1])
         /\ \A k \in Made : origin'[k] = origin[k] \/ Taken(origin'[k])
<1>0. TypeOK
  BY DEF PoolInv
<1>1. CASE UNCHANGED <<places, origin>>
  BY <1>1
<1>2. ASSUME NEW t \in Thread, Gives(t)
      PROVE  /\ \A k \in Item : /\ places[k] \subseteq places'[k]
                                /\ \A pl \in places'[k] : pl \in places[k] \/ Taken(pl[1])
             /\ \A k \in Made : origin'[k] = origin[k] \/ Taken(origin'[k])
  <2>1. PICK i \in Item, new \in BOOLEAN : Adds(t, i, new)
    BY <1>0, <1>2, GivesAdds
  <2>2. new => Taken(tls[t])
    BY <2>1 DEF Adds, Usable, TakenInv
  <2> QED BY <2>1, <2>2 DEF Adds, TakenInv
<1> QED BY <1>0, <1>1, <1>2, PlacesKept

LEMMA TakenInvHolds ==
  ASSUME PoolsAssumption, ~ParseMayThrow, InitResults = {TRUE}
  PROVE  Spec => []TakenInv
<1>1. Init => TakenInv
  BY DEF Init, TakenInv
<1>2. PoolInv /\ TakenInv /\ [Next]_vars => TakenInv'
  <2> SUFFICES ASSUME PoolInv, TakenInv, [Next]_vars PROVE TakenInv'
    OBVIOUS
  <2>1. CASE Next
    <3>1. ASSUME NEW p \in live' PROVE Taken(p)'
      <4>1. p \in live \/ Taken(p)'
        BY <2>1, NewPools
      <4> QED BY <2>1, <4>1, TakenStays DEF TakenInv
    <3>2. ASSUME NEW i \in Item, NEW pl \in places'[i] PROVE Taken(pl[1])'
      <4>1. Taken(pl[1])
        BY <2>1, NewPlaces DEF TakenInv
      <4> QED BY <2>1, <4>1, TakenStays
    <3>3. ASSUME NEW i \in Made, NEW o, o = origin'[i], o # NoPool PROVE Taken(o)'
      <4>1. Taken(o)
        BY <2>1, <3>3, NewPlaces DEF TakenInv
      <4> QED BY <2>1, <4>1, TakenStays
    <3>4. \A i \in Made : origin'[i] # NoPool =>
            /\ origin'[i] \in Thread => registered'[origin'[i]] \/ leaving'[origin'[i]]
            /\ origin'[i] \in Job => origin'[i] \in born'
            /\ origin'[i] = MainPool => lib' # "unloaded"
      BY <3>3 DEF Taken
    <3> QED BY <3>1, <3>2, <3>4 DEF TakenInv, Taken
  <2>2. CASE UNCHANGED vars
    BY <2>2 DEF TakenInv, Taken, vars, javaVars, poolVars, itemVars, jobVars
  <2> QED BY <2>1, <2>2
<1> QED BY <1>1, <1>2, PoolInvHolds, PTL DEF Spec

-----------------------------------------------------------------------------
(* The marks on the pools, when callbacks stay out of the API.             *)

CompileMark(t) == IF frames[t] = <<>> THEN 0 ELSE 1

\* Every mark on a worker's pool is one the Java API pushed or that of the one
\* compile running on it, and a worker's pool exists only while it is registered.
Marks(t) ==
  /\ registered[t] => level[t] = JavaMarks(t) + CompileMark(t)
  /\ t \in live => registered[t]
  /\ leaving[t] => frames[t] = <<>>

\* Likewise the main pool, which JNI_OnLoad gives a mark of its own.
MainMarks ==
  /\ lib # "unloaded" => level[MainPool] = 1 + CompileMark(loader)
  /\ lib = "unloaded" => MainPool \notin live

MarkInv == Running => MainMarks /\ \A t \in Thread : Marks(t)

\* The Java API's two natives are both there or both missing.
Paired == Links("pushMemoryPool_do") <=> Links("popMemoryPool_do")

LEMMA MarksStay ==
  ASSUME NEW t \in Thread, Marks(t), registered'[t] = registered[t],
         stackDepth'[t] = stackDepth[t], level'[t] = level[t], leaving'[t] = leaving[t],
         frames'[t] = frames[t], t \in live' => t \in live
  PROVE  Marks(t)'
BY DEF Marks, JavaMarks, CompileMark, Links

LEMMA MainStays ==
  ASSUME MainMarks, lib # "unloaded", lib' # "unloaded", loader' = loader,
         level'[MainPool] = level[MainPool],
         (frames'[loader] = <<>>) = (frames[loader] = <<>>)
  PROVE  MainMarks'
BY DEF MainMarks, CompileMark

\* A step that leaves marks, pools and calls alone.
LEMMA MarksQuiet ==
  ASSUME MarkInv, Running, lib # "unloaded", lib' # "unloaded",
         UNCHANGED <<loader, registered, stackDepth, leaving, frames, level>>,
         \A t \in Thread : t \in live' => t \in live
  PROVE  MarkInv'
BY MarksStay, MainStays DEF MarkInv

\* With one call at most, the pool of a thread in the library's service is its
\* own outside a parse, and the marks of compiles on it are those of its own.
LEMMA IdleHome ==
  ASSUME PoolsAssumption, ServedInv, Running, NEW t \in Thread, registered[t] \/ t = loader,
         frames[t] # <<>> => Top(t).phase = "emitting"
  PROVE  tls[t] = Home(t)
<1>1. Chain(t)
  BY DEF ServedInv, PoolInv, ChainInv
<1>2. CASE frames[t] = <<>>
  BY <1>1, <1>2 DEF Chain
<1>3. CASE frames[t] # <<>>
  <2>1. Len(frames[t]) \in Nat /\ Len(frames[t]) # 0 /\ Len(frames[t]) <= 1
    BY <1>3, LenProperties, EmptySeq DEF ServedInv, PoolInv, TypeOK, NestInv
  <2>2. Len(frames[t]) = 1
    BY <2>1, OnlyOne
  <2>3. Top(t).pre = Home(t)
    BY <1>1, <2>2 DEF Chain, Top
  <2> QED BY <1>1, <1>3, <2>3 DEF Chain
<1> QED BY <1>2, <1>3

\* Adding to and taking from the marks of one pool.
LEMMA PushCounts ==
  ASSUME TypeOK, NEW p \in Pool, PushMark(p)
  PROVE  level'[p] = level[p] + 1 /\ level[p] \in Nat /\ \A q \in Pool \ {p} : level'[q] = level[q]
BY DEF PushMark, TypeOK

LEMMA PopCounts ==
  ASSUME TypeOK, NEW p \in Pool, PopMark(p), level[p] # 0
  PROVE  level'[p] = level[p] - 1 /\ level[p] \in Nat /\ \A q \in Pool \ {p} : level'[q] = level[q]
BY DEF PopMark, TypeOK

LEMMA LoadMarks ==
  ASSUME PoolsAssumption, InitResults = {TRUE}, ServedInv, MarkInv,
         \/ \E t \in Thread : OnLoad(t)
         \/ \E ok \in InitResults : FinishInit(ok)
         \/ OnUnload
  PROVE  MarkInv'
<1>1. ASSUME NEW t \in Thread, OnLoad(t) PROVE MarkInv'
  <2>1. /\ lib = "unloaded" /\ lib' = "loaded" /\ loader' = t
        /\ live' = live \cup {MainPool} /\ level' = [level EXCEPT ![MainPool] = 1]
        /\ UNCHANGED <<registered, stackDepth, leaving, frames>>
    BY <1>1 DEF OnLoad, javaVars
  <2>2. Running /\ \A u \in Thread : frames[u] = <<>> /\ u # MainPool
    BY <2>1 DEF ServedInv, PoolInv, LibInv, Running, PoolsAssumption
  <2>3. level'[MainPool] = 1 /\ \A u \in Thread : level'[u] = level[u]
    BY <2>1, <2>2 DEF ServedInv, PoolInv, TypeOK, Pool
  <2>4. MainMarks'
    BY <2>1, <2>2, <2>3 DEF MainMarks, CompileMark
  <2>5. \A u \in Thread : Marks(u)'
    BY <2>1, <2>2, <2>3, MarksStay DEF MarkInv
  <2> QED BY <2>4, <2>5 DEF MarkInv
<1>2. ASSUME FinishInit(TRUE) PROVE MarkInv'
  BY <1>2, MarksQuiet DEF FinishInit, poolVars, Running
<1>3. ASSUME OnUnload PROVE MarkInv'
  BY <1>3 DEF OnUnload, MarkInv, Running
<1> QED BY <1>1, <1>2, <1>3

LEMMA ManagerMarks ==
  ASSUME PoolsAssumption, ~Reentrant, Paired, ServedInv, MarkInv, Running,
         NEW t \in Thread, ManagerCall(t)
  PROVE  MarkInv'
<1>0. /\ registered \in [Thread -> BOOLEAN] /\ leaving \in [Thread -> BOOLEAN]
      /\ stackDepth \in [Thread -> Nat] /\ level \in [Pool -> Nat] /\ TypeOK
      /\ Thread \subseteq Pool /\ MainPool \in Pool /\ MainPool \notin Thread
  BY DEF ServedInv, PoolInv, TypeOK, Pool, PoolsAssumption
<1>m. MainMarks /\ \A u \in Thread : Marks(u)
  BY DEF MarkInv
<1>f. ASSUME NEW op \in Op, op # "none", Faults(t, op) PROVE MarkInv'
  BY <1>f DEF Faults, Stops, NoFault, MarkInv, Running
<1>r. ASSUME Ready(t) PROVE frames[t] = <<>> /\ lib # "unloaded"
  BY <1>r, ReadyIdle DEF Ready
<1>1. CASE RegisterWorkThread(t)
  <2>1. /\ registered' = [registered EXCEPT ![t] = TRUE]
        /\ stackDepth' = [stackDepth EXCEPT ![t] = 0]
        /\ level' = [level EXCEPT ![t] = 0] /\ live' = live \cup {t}
        /\ UNCHANGED <<lib, loader, leaving, frames>>
        /\ Ready(t) /\ ~leaving[t]
    BY <1>1 DEF RegisterWorkThread, Ready
  <2>2. Marks(t)'
    <3>1. registered'[t] /\ stackDepth'[t] = 0 /\ level'[t] = 0 /\ frames'[t] = <<>> /\ ~leaving'[t]
      BY <1>0, <1>r, <2>1
    <3> QED BY <3>1 DEF Marks, JavaMarks, CompileMark
  <2>3. ASSUME NEW u \in Thread \ {t} PROVE Marks(u)'
    BY <1>0, <1>m, <2>1, MarksStay
  <2>4. MainMarks'
    BY <1>0, <1>m, <1>r, <2>1, MainStays
  <2> QED BY <2>2, <2>3, <2>4 DEF MarkInv
<1>2. CASE UnregisterWorkThread(t)
  <2>1. CASE Usable(t)
    <3>1. Ready(t) /\ registered[t] /\ tls[t] = t
      BY <1>2, OwnPoolCurrent DEF UnregisterWorkThread
    <3>2. /\ registered' = [registered EXCEPT ![t] = FALSE]
          /\ leaving' = [leaving EXCEPT ![t] = TRUE]
          /\ level' = [level EXCEPT ![t] = 0] /\ live' = live \ {t}
          /\ UNCHANGED <<lib, loader, stackDepth, frames>>
      BY <1>2, <2>1, <3>1
      DEF UnregisterWorkThread, RegisteredAfterwards, DetachPool, DropPool
    <3>3. Marks(t)'
      <4>1. ~registered'[t] /\ t \notin live' /\ frames'[t] = <<>>
        BY <1>0, <1>r, <3>1, <3>2
      <4> QED BY <4>1 DEF Marks
    <3>4. ASSUME NEW u \in Thread \ {t} PROVE Marks(u)'
      BY <1>0, <1>m, <3>2, MarksStay
    <3>5. MainMarks'
      BY <1>0, <1>m, <1>r, <3>1, <3>2, MainStays
    <3> QED BY <3>3, <3>4, <3>5 DEF MarkInv
  <2>2. CASE ~Usable(t)
    BY <1>2, <1>f, <2>2 DEF UnregisterWorkThread, Op
  <2> QED BY <2>1, <2>2
<1>3. CASE UnregisterAgain(t)
  BY <1>3, <1>f, AgainFaults DEF ServedInv, Op
<1>4. CASE PushMemoryPool(t)
  <2>1. /\ Ready(t) /\ registered[t] /\ tls[t] = t /\ frames[t] = <<>> /\ ~leaving[t]
        /\ lib # "unloaded"
    BY <1>4, <1>r, OwnPoolCurrent DEF PushMemoryPool, Ready
  <2>2. Usable(t)
    BY <2>1, AttachedUsable DEF Attached
  <2>3. /\ stackDepth' = [stackDepth EXCEPT ![t] = @ + 1]
        /\ UNCHANGED <<lib, loader, registered, leaving, live, frames>>
    BY <1>4 DEF PushMemoryPool
  <2>4. /\ Links("pushMemoryPool_do") => level'[t] = level[t] + 1
        /\ ~Links("pushMemoryPool_do") => level'[t] = level[t]
        /\ level[t] \in Nat /\ \A q \in Pool \ {t} : level'[q] = level[q]
    BY <1>0, <1>4, <2>1, <2>2, PushCounts DEF PushMemoryPool
  <2>5. Marks(t)'
    <3>1. level[t] = JavaMarks(t)
      <4>1. \A k \in Nat : k + 0 = k
        OBVIOUS
      <4>2. JavaMarks(t) \in Nat
        BY <1>0 DEF JavaMarks
      <4> QED BY <1>m, <2>1, <4>1, <4>2 DEF Marks, CompileMark
    <3>2. stackDepth'[t] = stackDepth[t] + 1 /\ stackDepth[t] \in Nat
      BY <1>0, <2>3
    <3>3. level'[t] = JavaMarks(t)'
      BY <2>4, <3>1, <3>2 DEF JavaMarks, Links
    <3>4. level'[t] = JavaMarks(t)' + CompileMark(t)'
      <4>1. CompileMark(t)' = 0 /\ level'[t] \in Nat
        BY <2>1, <2>3, <2>4 DEF CompileMark
      <4> QED BY <3>3, <4>1
    <3> QED BY <1>m, <2>1, <2>3, <3>4 DEF Marks
  <2>6. ASSUME NEW u \in Thread \ {t} PROVE Marks(u)'
    <3>1. level'[u] = level[u] /\ stackDepth'[u] = stackDepth[u]
      BY <1>0, <2>3, <2>4
    <3> QED BY <1>m, <2>3, <3>1, MarksStay
  <2>7. MainMarks'
    BY <1>0, <1>m, <2>1, <2>3, <2>4, MainStays
  <2> QED BY <2>5, <2>6, <2>7 DEF MarkInv
<1>5. CASE PopMemoryPool(t)
  <2>1. /\ Ready(t) /\ registered[t] /\ tls[t] = t /\ frames[t] = <<>> /\ ~leaving[t]
        /\ lib # "unloaded" /\ stackDepth[t] - 1 >= 0
    BY <1>5, <1>r, OwnPoolCurrent DEF PopMemoryPool, NewDepthAllowed, Ready
  <2>2. Usable(t)
    BY <2>1, AttachedUsable DEF Attached
  <2>3. /\ stackDepth' = [stackDepth EXCEPT ![t] = @ - 1]
        /\ UNCHANGED <<lib, loader, registered, leaving, live, frames>>
    BY <1>5 DEF PopMemoryPool
  <2>4. level[t] = JavaMarks(t)
    <3>1. \A k \in Nat : k + 0 = k
      OBVIOUS
    <3>2. JavaMarks(t) \in Nat
      BY <1>0 DEF JavaMarks
    <3> QED BY <1>m, <2>1, <3>1, <3>2 DEF Marks, CompileMark
  <2>5. Links("popMemoryPool_do") => level[t] # 0
    BY <1>0, <2>1, <2>4 DEF JavaMarks, Paired
  <2>6. /\ Links("pushMemoryPool_do") => level'[t] = level[t] - 1
        /\ ~Links("pushMemoryPool_do") => level'[t] = level[t]
        /\ \A q \in Pool \ {t} : level'[q] = level[q]
    <3>1. CASE Links("popMemoryPool_do")
      BY <1>0, <1>5, <2>1, <2>2, <2>5, <3>1, PopCounts DEF PopMemoryPool, Paired
    <3>2. CASE ~Links("popMemoryPool_do")
      BY <1>5, <3>2 DEF PopMemoryPool, Paired
    <3> QED BY <3>1, <3>2
  <2>7. Marks(t)'
    <3>1. stackDepth'[t] = stackDepth[t] - 1 /\ stackDepth[t] \in Nat
      BY <1>0, <2>3
    <3>2. level'[t] = JavaMarks(t)' /\ JavaMarks(t)' \in Nat
      BY <1>0, <2>1, <2>4, <2>6, <3>1 DEF JavaMarks, Links
    <3>3. level'[t] = JavaMarks(t)' + CompileMark(t)'
      <4>1. CompileMark(t)' = 0
        BY <2>1, <2>3 DEF CompileMark
      <4> QED BY <3>2, <4>1
    <3> QED BY <1>m, <2>1, <2>3, <3>3 DEF Marks
  <2>8. ASSUME NEW u \in Thread \ {t} PROVE Marks(u)'
    <3>1. level'[u] = level[u] /\ stackDepth'[u] = stackDepth[u]
      BY <1>0, <2>3, <2>6
    <3> QED BY <1>m, <2>3, <3>1, MarksStay
  <2>9. MainMarks'
    BY <1>0, <1>m, <2>1, <2>3, <2>6, MainStays
  <2> QED BY <2>7, <2>8, <2>9 DEF MarkInv
<1> QED BY <1>1, <1>2, <1>3, <1>4, <1>5 DEF ManagerCall

\* A compile that begins or ends moves the mark of its thread's home and nothing else.
LEMMA HomeMoves ==
  ASSUME PoolsAssumption, ServedInv, MarkInv, Running, NEW t \in Thread,
         registered[t] \/ t = loader, lib # "unloaded", ~leaving[t],
         UNCHANGED <<lib, loader, registered, stackDepth, leaving, live>>,
         level'[Home(t)] = level[Home(t)] + (CompileMark(t)' - CompileMark(t)),
         \A q \in Pool \ {Home(t)} : level'[q] = level[q],
         \A u \in Thread \ {t} : frames'[u] = frames[u]
  PROVE  MarkInv'
<1>0. /\ Thread \subseteq Pool /\ MainPool \in Pool /\ MainPool \notin Thread
      /\ loader \in Thread /\ ~registered[loader] /\ stackDepth \in [Thread -> Nat]
  BY DEF ServedInv, PoolInv, TypeOK, LibInv, Pool, PoolsAssumption
<1>m. MainMarks /\ \A u \in Thread : Marks(u)
  BY DEF MarkInv
<1>a. /\ CompileMark(t) \in {0, 1} /\ CompileMark(t)' \in {0, 1}
      /\ JavaMarks(t) \in Nat /\ JavaMarks(t)' = JavaMarks(t)
      /\ \A j \in Nat : \A c, d \in {0, 1} : j + c + (d - c) = j + d
  BY <1>0 DEF CompileMark, JavaMarks, Links
<1>1. ASSUME NEW u \in Thread \ {t} PROVE Marks(u)'
  <2>1. u # Home(t)
    BY <1>0, <1>1 DEF Home
  <2> QED BY <1>0, <1>m, <2>1, MarksStay
<1>2. CASE registered[t]
  <2>1. Home(t) = t /\ t # loader /\ MainPool # t
    BY <1>0, <1>2 DEF Home
  <2>2. level'[t] = JavaMarks(t)' + CompileMark(t)'
    <3>1. level[t] = JavaMarks(t) + CompileMark(t)
      BY <1>m, <1>2 DEF Marks
    <3> QED BY <1>a, <2>1, <3>1
  <2>3. Marks(t)'
    BY <1>m, <1>2, <2>2 DEF Marks
  <2>4. MainMarks'
    BY <1>0, <1>m, <2>1, MainStays
  <2> QED BY <1>1, <2>3, <2>4 DEF MarkInv
<1>3. CASE ~registered[t]
  <2>1. Home(t) = MainPool /\ t = loader
    BY <1>3 DEF Home
  <2>2. level'[MainPool] = 1 + CompileMark(t)'
    <3>1. level[MainPool] = 1 + CompileMark(t)
      BY <1>m, <2>1 DEF MainMarks
    <3> QED BY <1>a, <2>1, <3>1
  <2>3. MainMarks'
    BY <2>1, <2>2 DEF MainMarks
  <2>4. Marks(t)'
    BY <1>m, <1>3 DEF Marks
  <2> QED BY <1>1, <2>3, <2>4 DEF MarkInv
<1> QED BY <1>2, <1>3

LEMMA JobMarks ==
  ASSUME PoolsAssumption, ~Reentrant, ServedInv, MarkInv, Running, NEW t \in Thread, JobCall(t)
  PROVE  MarkInv'
<1>0. /\ level \in [Pool -> Nat] /\ TypeOK /\ frames \in [Thread -> Seq(Frame)]
      /\ \A j \in Job : j \notin Thread /\ j # MainPool
      /\ Thread \subseteq Pool /\ MainPool \in Pool
  BY DEF ServedInv, PoolInv, TypeOK, Pool, PoolsAssumption
<1>r. Ready(t) /\ frames[t] = <<>> /\ lib # "unloaded" /\ ~leaving[t]
  <2>1. Ready(t)
    BY CallBegins
  <2> QED BY <2>1, ReadyIdle DEF Ready
<1>s. ASSUME FindsNoPool(t) \/ Misused(t) PROVE MarkInv'
  BY <1>s, StopsAlone DEF MarkInv, Running
<1>1. ASSUME NEW j \in Job, CreateJob(t, j) PROVE MarkInv'
  BY <1>0, <1>1, <1>r, MarksQuiet DEF CreateJob, javaVars
<1>2. ASSUME NEW j \in Job, DeleteJob(t, j) PROVE MarkInv'
  <2>1. /\ level' = [level EXCEPT ![j] = 0] /\ live' = live \ {j}
        /\ UNCHANGED <<lib, loader, registered, stackDepth, leaving, frames>>
    BY <1>2 DEF DeleteJob, DropPool, javaVars
  <2>2. level'[MainPool] = level[MainPool] /\ \A u \in Thread : level'[u] = level[u]
    BY <1>0, <2>1
  <2>3. \A u \in Thread : Marks(u)'
    BY <2>1, <2>2, MarksStay DEF MarkInv
  <2>4. MainMarks'
    BY <1>r, <2>1, <2>2, MainStays DEF MarkInv
  <2> QED BY <2>3, <2>4 DEF MarkInv
<1>3. ASSUME NEW j \in Job, Begins(t, j) PROVE MarkInv'
  <2>1. Usable(t)
    BY <1>3 DEF Begins
  <2> QED
    <3>1. registered[t] \/ t = loader
      BY <2>1, OutsideUnusable DEF ServedInv, PoolInv
    <3>2. tls[t] = Home(t) /\ tls[t] \in Pool
      BY <1>0, <1>r, <2>1, <3>1, IdleHome DEF Usable, TypeOK
    <3> DEFINE f == [job |-> j, pre |-> tls[t], phase |-> "parsing"]
    <3>3. /\ PushMark(tls[t]) /\ frames' = [frames EXCEPT ![t] = Append(@, f)]
          /\ UNCHANGED <<lib, loader, registered, stackDepth, leaving, live>>
      BY <1>3 DEF Begins, javaVars
    <3>4. f \in Frame
      BY <3>2 DEF Frame
    <3> HIDE DEF f
    <3>5. frames'[t] = Append(frames[t], f) /\ \A u \in Thread \ {t} : frames'[u] = frames[u]
      BY <1>0, <3>3
    <3>6. frames'[t] # <<>>
      <4>1. frames[t] \in Seq(Frame)
        BY <1>0
      <4> QED BY <3>4, <3>5, <4>1, AppendProperties
    <3>7. CompileMark(t) = 0 /\ CompileMark(t)' = 1
      BY <1>r, <3>6 DEF CompileMark
    <3>8. level'[tls[t]] = level[tls[t]] + 1 /\ \A q \in Pool \ {tls[t]} : level'[q] = level[q]
      BY <1>0, <3>2, <3>3, PushCounts
    <3>9. level'[Home(t)] = level[Home(t)] + (CompileMark(t)' - CompileMark(t))
      BY <3>2, <3>7, <3>8
    <3>10. \A q \in Pool \ {Home(t)} : level'[q] = level[q]
      BY <3>2, <3>8
    <3> QED BY <1>r, <3>1, <3>3, <3>5, <3>9, <3>10, HomeMoves
<1>4. CASE Gives(t)
  BY <1>4, <1>r, MarksQuiet DEF Gives, javaVars, poolVars
<1> QED BY <1>0, <1>1, <1>2, <1>3, <1>4, <1>s, JobCases

\* The pool a compile pops is the home of its thread, with a mark to pop.
LEMMA EndPops ==
  ASSUME PoolsAssumption, ServedInv, MarkInv, Running, NEW t \in Thread, CompileEnds(t)
  PROVE  /\ registered[t] \/ t = loader
         /\ lib # "unloaded" /\ ~leaving[t] /\ Usable(t) /\ tls[t] = Home(t) /\ Home(t) \in Pool
         /\ level[Home(t)] \in Nat /\ level[Home(t)] > Base(Home(t)) /\ level[Home(t)] # 0
         /\ PopMark(Home(t)) /\ frames' = [frames EXCEPT ![t] = Front(@)]
         /\ UNCHANGED <<lib, loader, javaVars, tls, live, origin, places, jobVars, fault>>
<1>1. /\ fault = NoFault /\ ~leaving[t] /\ frames[t] # <<>> /\ Top(t).phase = "emitting"
      /\ LeaveCompile(t)
  BY DEF CompileEnds, InPhase
<1>2. lib # "unloaded" /\ (registered[t] \/ t = loader)
  BY <1>1 DEF ServedInv, PoolInv, LibInv, OutsideInv
<1>3. Attached(t)
  BY <1>1, <1>2 DEF Attached, ServedInv, PoolInv, LibInv, TypeOK
<1>4. Usable(t) /\ tls[t] = Home(t) /\ Home(t) \in Pool
  BY <1>1, <1>2, <1>3, AttachedUsable, IdleHome DEF Usable, ServedInv, PoolInv, TypeOK
<1>5. level[Home(t)] \in Nat
  BY <1>4 DEF ServedInv, PoolInv, TypeOK
<1>6. level[Home(t)] > Base(Home(t)) /\ level[Home(t)] # 0
  <2>1. CompileMark(t) = 1
    BY <1>1 DEF CompileMark
  <2>2. CASE registered[t]
    <3>1. Home(t) = t /\ Base(t) = 0 /\ JavaMarks(t) \in Nat
      BY <2>2 DEF Home, Base, JavaMarks, PoolsAssumption, ServedInv, PoolInv, TypeOK
    <3>2. level[t] = JavaMarks(t) + 1
      BY <2>1, <2>2 DEF MarkInv, Marks
    <3> QED BY <3>1, <3>2
  <2>3. CASE ~registered[t]
    <3>1. Home(t) = MainPool /\ t = loader /\ Base(MainPool) = 1
      BY <1>2, <2>3 DEF Home, Base
    <3>2. level[MainPool] = 1 + 1
      BY <1>2, <2>1, <3>1 DEF MarkInv, MainMarks
    <3> QED BY <3>1, <3>2
  <2> QED BY <2>2, <2>3
<1> QED BY <1>1, <1>2, <1>4, <1>5, <1>6 DEF LeaveCompile, CompilePop

LEMMA CompileStepMarks ==
  ASSUME PoolsAssumption, ~ParseMayThrow, ServedInv, MarkInv, Running, NEW t \in Thread,
         CompileStep(t)
  PROVE  MarkInv'
<1>0. TypeOK /\ frames \in [Thread -> Seq(Frame)] /\ level \in [Pool -> Nat]
      /\ frames[t] \in Seq(Frame)
  BY DEF ServedInv, PoolInv, TypeOK
<1>1. CASE ParseReturns(t)
  <2>1. /\ frames[t] # <<>> /\ ~leaving[t] /\ lib # "unloaded"
        /\ registered[t] \/ t = loader
    BY <1>1 DEF ParseReturns, InPhase, ServedInv, PoolInv, LibInv, OutsideInv
  <2>2. /\ frames' = [frames EXCEPT ![t] = [@ EXCEPT ![Len(frames[t])] = Emitting(Top(t))]]
        /\ UNCHANGED <<lib, loader, registered, stackDepth, leaving, live, level>>
    BY <1>1 DEF ParseReturns, javaVars
  <2>3. /\ frames'[t] = [frames[t] EXCEPT ![Len(frames[t])] = Emitting(Top(t))]
        /\ \A u \in Thread \ {t} : frames'[u] = frames[u]
    BY <1>0, <2>2
  <2>4. frames'[t] # <<>>
    <3>1. /\ Len(frames[t]) \in 1 .. Len(frames[t])
          /\ [frames[t] EXCEPT ![Len(frames[t])] = Emitting(Top(t))] \in Seq(Frame)
      BY <1>0, <2>1, TopTypes
    <3>2. DOMAIN frames'[t] = DOMAIN frames[t]
      BY <2>3
    <3>3. Len(frames[t]) \in DOMAIN frames[t]
      BY <1>0, <3>1, LenProperties
    <3>4. DOMAIN <<>> = {}
      OBVIOUS
    <3> QED BY <3>2, <3>3, <3>4
  <2>5. CompileMark(t) = 1 /\ CompileMark(t)' = 1
    BY <2>1, <2>4 DEF CompileMark
  <2>6. Home(t) \in Pool
    BY DEF Home, Pool
  <2>7. level'[Home(t)] = level[Home(t)] + (CompileMark(t)' - CompileMark(t))
    <3>1. \A k \in Nat : k + (1 - 1) = k
      OBVIOUS
    <3>2. level[Home(t)] \in Nat
      BY <1>0, <2>6
    <3> QED BY <2>2, <2>5, <3>1, <3>2
  <2>8. \A q \in Pool \ {Home(t)} : level'[q] = level[q]
    BY <2>2
  <2> QED BY <2>1, <2>2, <2>3, <2>7, <2>8, HomeMoves
<1>2. CASE CompileEnds(t)
  <2>1. /\ registered[t] \/ t = loader
        /\ lib # "unloaded" /\ ~leaving[t] /\ Home(t) \in Pool
        /\ level[Home(t)] \in Nat /\ level[Home(t)] # 0 /\ PopMark(Home(t))
        /\ frames' = [frames EXCEPT ![t] = Front(@)]
        /\ UNCHANGED <<lib, loader, registered, stackDepth, leaving, live>>
    BY <1>2, EndPops DEF javaVars
  <2>2. frames'[t] = Front(frames[t]) /\ \A u \in Thread \ {t} : frames'[u] = frames[u]
    BY <1>0, <2>1
  <2>3. frames[t] # <<>> /\ Len(frames[t]) = 1
    <3>1. frames[t] # <<>>
      BY <1>2 DEF CompileEnds, InPhase
    <3>2. Len(frames[t]) \in Nat /\ Len(frames[t]) # 0 /\ Len(frames[t]) <= 1
      BY <1>0, <3>1, LenProperties, EmptySeq DEF ServedInv, NestInv
    <3> QED BY <3>1, <3>2, OnlyOne
  <2>4. frames'[t] = <<>>
    BY <2>2, <2>3, SubSeqEmpty DEF Front
  <2>5. CompileMark(t) = 1 /\ CompileMark(t)' = 0
    BY <2>3, <2>4 DEF CompileMark
  <2>6. level'[Home(t)] = level[Home(t)] - 1 /\ \A q \in Pool \ {Home(t)} : level'[q] = level[q]
    BY <1>0, <2>1, PopCounts
  <2>7. level'[Home(t)] = level[Home(t)] + (CompileMark(t)' - CompileMark(t))
    <3>1. \A k \in Nat : k + (0 - 1) = k - 1
      OBVIOUS
    <3> QED BY <2>1, <2>5, <2>6, <3>1
  <2> QED BY <2>1, <2>2, <2>6, <2>7, HomeMoves
<1>3. CASE Misused(t)
  BY <1>3, StopsAlone DEF MarkInv, Running
<1> QED BY <1>0, <1>1, <1>2, <1>3, CompileCases DEF ParseThrows

LEMMA MarkInvHolds ==
  ASSUME PoolsAssumption, ~ParseMayThrow, ~Reentrant, InitResults = {TRUE}, Paired
  PROVE  Spec => []MarkInv
<1>1. Init => MarkInv
  BY DEF Init, MarkInv, MainMarks, Marks
<1>2. ServedInv /\ MarkInv /\ [Next]_vars => MarkInv'
  <2> SUFFICES ASSUME ServedInv, MarkInv, [Next]_vars PROVE MarkInv'
    OBVIOUS
  <2>1. CASE Next
    <3>1. Running
      BY <2>1, NextRunning DEF ServedInv
    <3>2. ASSUME NEW t \in Thread, ManagerCall(t) \/ JobCall(t) \/ CompileStep(t) PROVE MarkInv'
      BY <3>1, <3>2, ManagerMarks, JobMarks, CompileStepMarks
    <3> QED BY <2>1, <3>2, LoadMarks DEF Next
  <2>2. CASE UNCHANGED vars
    BY <2>2 DEF MarkInv, MainMarks, Marks, JavaMarks, CompileMark, Links, Running, vars,
                javaVars, poolVars
  <2> QED BY <2>1, <2>2
<1> QED BY <1>1, <1>2, ServedInvHolds, PTL DEF Spec

\* The compiles running with p as the pool they return to are those of p's thread.
LEMMA CompileMarkCount ==
  ASSUME PoolsAssumption, ServedInv, MarkInv, Running, NEW t \in Thread,
         registered[t] \/ t = loader
  PROVE  CompileMarks(Home(t)) = CompileMark(t)
<1> DEFINE S == {tn \in Thread \X (1 .. MaxNest) :
                   tn[2] \in DOMAIN frames[tn[1]] /\ frames[tn[1]][tn[2]].pre = Home(t)}
<1>1. /\ CompileMarks(Home(t)) = Cardinality(S)
      /\ frames \in [Thread -> Seq(Frame)] /\ MaxNest \in Nat \ {0}
  BY DEF CompileMarks, ServedInv, PoolInv, TypeOK, PoolsAssumption
<1>2. ASSUME NEW u \in Thread, frames[u] # <<>>
      PROVE  /\ registered[u] \/ u = loader
             /\ DOMAIN frames[u] = {1} /\ frames[u][1].pre = Home(u)
  <2>1. ~leaving[u]
    BY <1>2 DEF MarkInv, Marks
  <2>2. registered[u] \/ u = loader
    BY <1>2, <2>1 DEF ServedInv, PoolInv, OutsideInv
  <2>3. Chain(u)
    BY <2>2 DEF ServedInv, PoolInv, ChainInv
  <2>4. Len(frames[u]) = 1 /\ DOMAIN frames[u] = 1 .. 1
    <3>1. Len(frames[u]) \in Nat /\ Len(frames[u]) # 0 /\ Len(frames[u]) <= 1
      BY <1>1, <1>2, LenProperties, EmptySeq DEF ServedInv, NestInv
    <3>2. Len(frames[u]) = 1
      BY <3>1, OnlyOne
    <3> QED BY <1>1, <3>2, LenProperties
  <2>5. frames[u][1].pre = Home(u)
    <3>1. 1 \in 1 .. 1
      OBVIOUS
    <3> QED BY <2>3, <2>4, <3>1 DEF Chain
  <2>6. 1 .. 1 = {1}
    OBVIOUS
  <2> QED BY <2>2, <2>4, <2>5, <2>6
<1>3. ASSUME NEW u \in Thread, frames[u] = <<>> PROVE DOMAIN frames[u] = {}
  BY <1>3
<1>4. ASSUME NEW tn \in S PROVE tn = <<t, 1>> /\ frames[t] # <<>>
  <2>1. PICK u \in Thread, n \in 1 .. MaxNest : tn = <<u, n>>
    BY <1>4
  <2>2. n \in DOMAIN frames[u] /\ frames[u][n].pre = Home(t)
    BY <1>4, <2>1
  <2>3. frames[u] # <<>>
    BY <1>3, <2>2
  <2>4. n = 1 /\ Home(u) = Home(t) /\ (registered[u] \/ u = loader)
    BY <1>2, <2>2, <2>3
  <2>5. u = t
    BY <2>4, HomesApart DEF ServedInv
  <2> QED BY <2>1, <2>3, <2>4, <2>5
<1>5. CASE frames[t] = <<>>
  <2>1. S = {}
    BY <1>4, <1>5
  <2> QED BY <1>1, <1>5, <2>1, FS_EmptySet DEF CompileMark
<1>6. CASE frames[t] # <<>>
  <2>1. 1 \in 1 .. MaxNest
    BY <1>1
  <2>2. 1 \in DOMAIN frames[t] /\ frames[t][1].pre = Home(t)
    BY <1>2, <1>6
  <2>3. <<t, 1>> \in S
    BY <2>1, <2>2
  <2>4. S = {<<t, 1>>}
    BY <1>4, <2>3
  <2> QED BY <1>1, <1>6, <2>4, FS_Singleton DEF CompileMark
<1> QED BY <1>5, <1>6

\* Every mark on a pool is accounted for, whatever the threads do: compile_do
\* pops on every way out what it pushed, and stackDepth counts the rest.
THEOREM MarksMatch ==
  ASSUME PoolsAssumption, ~ParseMayThrow, ~Reentrant, InitResults = {TRUE}, Paired
  PROVE  Spec => []MarksBalanced
<1>1. ServedInv /\ MarkInv => MarksBalanced
  <2> SUFFICES ASSUME ServedInv, MarkInv, Running, NEW p \in live \ Job
               PROVE  level[p] = Base(p) + JavaMarks(p) + CompileMarks(p)
    BY DEF MarksBalanced
  <2>1. p \in Thread \/ p = MainPool
    BY DEF ServedInv, PoolInv, TypeOK, Pool
  <2>2. CASE p \in Thread
    <3>1. registered[p] /\ Home(p) = p /\ Base(p) = 0
      BY <2>2 DEF MarkInv, Marks, Home, Base, PoolsAssumption
    <3>2. level[p] = JavaMarks(p) + CompileMark(p) /\ CompileMarks(p) = CompileMark(p)
      BY <2>2, <3>1, CompileMarkCount DEF MarkInv, Marks
    <3>3. JavaMarks(p) \in Nat
      BY <2>2 DEF JavaMarks, ServedInv, PoolInv, TypeOK
    <3>4. \A j \in Nat : 0 + j = j
      OBVIOUS
    <3> QED BY <3>1, <3>2, <3>3, <3>4
  <2>3. CASE p = MainPool
    <3>1. lib # "unloaded"
      BY <2>3 DEF MarkInv, MainMarks
    <3>2. loader \in Thread /\ Home(loader) = MainPool
      BY <3>1 DEF ServedInv, PoolInv, LibInv, Home
    <3>3. level[p] = 1 + CompileMark(loader) /\ CompileMarks(p) = CompileMark(loader)
      BY <2>3, <3>1, <3>2, CompileMarkCount DEF MarkInv, MainMarks
    <3>4. Base(p) = 1 /\ JavaMarks(p) = 0
      BY <2>3 DEF Base, JavaMarks, PoolsAssumption
    <3>5. CompileMark(loader) \in {0, 1} /\ 1 + 0 = 1
      BY DEF CompileMark
    <3> QED BY <3>3, <3>4, <3>5
  <2> QED BY <2>1, <2>2, <2>3
<1> QED BY <1>1, MarkInvHolds, ServedInvHolds, PTL

-----------------------------------------------------------------------------
(* Data at the base of a pool, whatever callbacks call.                    *)

\* The main pool keeps the mark of JNI_OnLoad, below that of its thread's compile.
DeepInv == Running /\ lib # "unloaded" => level[MainPool] >= 1 + CompileMark(loader)

\* The main pool is current on the loading thread alone, outside a parse.
LEMMA MainCurrent ==
  ASSUME PoolsAssumption, PoolInv, Running, NEW t \in Thread, registered[t] \/ t = loader,
         lib # "unloaded"
  PROVE  IF tls[t] = MainPool
         THEN /\ t = loader
              /\ frames[t] # <<>> => Top(t).phase # "parsing" /\ Len(frames[t]) = 1
         ELSE t = loader => frames[t] # <<>> /\ (Top(t).phase # "parsing" => Len(frames[t]) # 1)
<1>1. Chain(t) /\ TypeOK
  BY DEF PoolInv, ChainInv
<1>2. registered[t] => tls[t] # MainPool
  BY <1>1, OffMainPool
<1>3. t = loader => Home(t) = MainPool /\ ~registered[t]
  BY DEF PoolInv, LibInv, Home
<1>4. CASE frames[t] = <<>>
  BY <1>1, <1>2, <1>3, <1>4 DEF Chain
<1>5. CASE frames[t] # <<>>
  <2> DEFINE n == Len(frames[t])
  <2>1. n \in 1 .. n /\ Top(t) = frames[t][n] /\ Top(t) \in Frame /\ frames[t] \in Seq(Frame)
    BY <1>1, <1>5, TopTypes DEF Top, TypeOK
  <2>2. frames[t][n].pre = IF n = 1 THEN Home(t) ELSE frames[t][n - 1].job
    BY <1>1, <2>1 DEF Chain
  <2>3. n # 1 => frames[t][n - 1] \in Frame
    <3>1. n \in Nat
      BY <2>1, LenProperties
    <3>2. n # 1 => n - 1 \in 1 .. n
      BY <2>1, <3>1, Predecessor
    <3> QED BY <2>1, <3>2, ElementOfSeq
  <2>4. \A f \in Frame : f.job # MainPool
    BY DEF Frame, PoolsAssumption
  <2> QED BY <1>1, <1>2, <1>3, <1>5, <2>1, <2>2, <2>3, <2>4 DEF Chain
<1> QED BY <1>4, <1>5

LEMMA DeepStays ==
  ASSUME PoolInv, DeepInv, Running, lib # "unloaded", loader' = loader,
         level'[MainPool] = level[MainPool],
         (frames'[loader] = <<>>) = (frames[loader] = <<>>)
  PROVE  DeepInv'
BY DEF DeepInv, CompileMark

LEMMA DeepStep ==
  ASSUME PoolsAssumption, ~ParseMayThrow, InitResults = {TRUE}, PoolInv, Running, DeepInv, Next
  PROVE  DeepInv'
<1>0. /\ TypeOK /\ level \in [Pool -> Nat] /\ frames \in [Thread -> Seq(Frame)]
      /\ MainPool \in Pool /\ MainPool \notin Thread /\ MainPool \notin Job
      /\ Thread \subseteq Pool /\ Job \subseteq Pool
  BY DEF PoolInv, TypeOK, Pool, PoolsAssumption
<1>s. ASSUME fault' # NoFault PROVE DeepInv'
  BY <1>s DEF DeepInv, Running
<1>f. ASSUME NEW t \in Thread, NEW op \in Op \ {"none"}, Faults(t, op) PROVE DeepInv'
  BY <1>f, <1>s DEF Faults, Stops, NoFault
<1>l. ASSUME NEW t \in Thread, Ready(t) \/ leaving[t] \/ frames[t] # <<>> PROVE lib # "unloaded"
  BY <1>l, ReadyFacts DEF PoolInv, LibInv
<1>1. ASSUME NEW t \in Thread, OnLoad(t) PROVE DeepInv'
  <2>1. frames'[t] = <<>> /\ loader' = t /\ level'[MainPool] = 1
    BY <1>0, <1>1 DEF OnLoad, PoolInv, LibInv
  <2> QED BY <2>1 DEF DeepInv, CompileMark
<1>2. ASSUME NEW ok \in InitResults, FinishInit(ok) PROVE DeepInv'
  BY <1>2, DeepStays DEF FinishInit, poolVars
<1>3. ASSUME OnUnload PROVE DeepInv'
  BY <1>3 DEF OnUnload, DeepInv, Running
<1>4. ASSUME NEW t \in Thread, ManagerCall(t) PROVE DeepInv'
  <2>1. lib # "unloaded" /\ loader' = loader
    BY <1>4, <1>l, CallGoesOn, LibKept
  <2>2. ASSUME registered[t] PROVE tls[t] # MainPool
    BY <1>0, <2>2, OffMainPool DEF PoolInv, ChainInv
  <2>3. CASE RegisterWorkThread(t)
    <3>1. level'[MainPool] = level[MainPool] /\ frames' = frames
      BY <1>0, <2>3 DEF RegisterWorkThread
    <3> QED BY <2>1, <3>1, DeepStays
  <2>4. CASE UnregisterWorkThread(t)
    <3>1. CASE Usable(t)
      <4>1. level'[MainPool] = level[MainPool] /\ frames' = frames
        BY <1>0, <2>2, <2>4, <3>1 DEF UnregisterWorkThread, DetachPool, DropPool
      <4> QED BY <2>1, <4>1, DeepStays
    <3>2. CASE ~Usable(t)
      BY <1>f, <2>4, <3>2 DEF UnregisterWorkThread, Op
    <3> QED BY <3>1, <3>2
  <2>5. CASE UnregisterAgain(t)
    BY <1>f, <2>5, AgainFaults DEF Op
  <2>6. CASE PushMemoryPool(t) \/ PopMemoryPool(t)
    <3>1. level'[MainPool] = level[MainPool] /\ frames' = frames
      BY <1>0, <2>2, <2>6 DEF PushMemoryPool, PopMemoryPool, PushMark, PopMark
    <3> QED BY <2>1, <3>1, DeepStays
  <2> QED BY <1>4, <2>3, <2>4, <2>5, <2>6 DEF ManagerCall
<1>5. ASSUME NEW t \in Thread, JobCall(t) PROVE DeepInv'
  <2>1. Ready(t) /\ lib # "unloaded" /\ loader' = loader
    BY <1>5, <1>l, CallBegins, LibKept
  <2>2. CASE FindsNoPool(t) \/ Misused(t)
    BY <1>s, <2>2, StopsAlone
  <2>3. CASE Gives(t)
    BY <2>1, <2>3, DeepStays DEF Gives, poolVars
  <2>4. ASSUME NEW j \in Job, CreateJob(t, j) \/ DeleteJob(t, j) PROVE DeepInv'
    <3>1. level'[MainPool] = level[MainPool] /\ frames' = frames
      BY <1>0, <2>4 DEF CreateJob, DeleteJob, DropPool
    <3> QED BY <2>1, <3>1, DeepStays
  <2>5. ASSUME NEW j \in Job, Begins(t, j) PROVE DeepInv'
    <3> DEFINE f == [job |-> j, pre |-> tls[t], phase |-> "parsing"]
    <3>1. /\ Usable(t) /\ PushMark(tls[t]) /\ frames' = [frames EXCEPT ![t] = Append(@, f)]
          /\ tls[t] \in Pool
      BY <1>0, <2>5 DEF Begins, Usable, TypeOK
    <3>2. f \in Frame
      BY <3>1 DEF Frame
    <3> HIDE DEF f
    <3>3. frames'[t] = Append(frames[t], f) /\ \A u \in Thread \ {t} : frames'[u] = frames[u]
      BY <1>0, <3>1
    <3>4. frames'[t] # <<>>
      <4>1. frames[t] \in Seq(Frame)
        BY <1>0
      <4> QED BY <3>2, <3>3, <4>1, AppendProperties
    <3>5. (registered[t] \/ t = loader) /\ loader \in Thread
      BY <2>1, <3>1, OutsideUnusable DEF PoolInv, LibInv
    <3>6. level'[tls[t]] = level[tls[t]] + 1 /\ \A q \in Pool \ {tls[t]} : level'[q] = level[q]
      BY <1>0, <3>1, PushCounts
    <3>7. CASE tls[t] = MainPool
      <4>1. t = loader /\ frames[t] = <<>>
        BY <2>1, <3>5, <3>7, MainCurrent DEF Ready
      <4>2. level[MainPool] >= 1 /\ level[MainPool] \in Nat
        BY <1>0, <2>1, <4>1 DEF DeepInv, CompileMark
      <4>3. level'[MainPool] >= 1 + 1 /\ CompileMark(loader)' = 1
        BY <2>1, <3>4, <3>6, <3>7, <4>1, <4>2 DEF CompileMark
      <4> QED BY <4>3 DEF DeepInv
    <3>8. CASE tls[t] # MainPool
      <4>1. t = loader => frames[t] # <<>>
        BY <2>1, <3>5, <3>8, MainCurrent
      <4>2. (frames'[loader] = <<>>) = (frames[loader] = <<>>)
        BY <3>3, <3>4, <3>5, <4>1
      <4>3. level'[MainPool] = level[MainPool]
        BY <1>0, <3>6, <3>8
      <4> QED BY <2>1, <4>2, <4>3, DeepStays
    <3> QED BY <3>7, <3>8
  <2> QED BY <1>0, <1>5, <2>2, <2>3, <2>4, <2>5, JobCases
<1>6. ASSUME NEW t \in Thread, CompileStep(t) PROVE DeepInv'
  <2>1. /\ frames[t] # <<>> /\ ~leaving[t] /\ frames[t] \in Seq(Frame)
        /\ Misused(t) \/ ParseReturns(t) \/ CompileEnds(t)
    BY <1>0, <1>6, CompileCases DEF ParseThrows
  <2>2. lib # "unloaded" /\ loader' = loader /\ (registered[t] \/ t = loader) /\ loader \in Thread
    BY <1>6, <1>l, <2>1, LibKept DEF PoolInv, OutsideInv, LibInv
  <2>3. Len(frames[t]) \in Nat \ {0} /\ DOMAIN frames[t] = 1 .. Len(frames[t])
    BY <2>1, LenProperties, EmptySeq
  <2>4. CASE Misused(t)
    BY <1>s, <2>4, StopsAlone
  <2>5. CASE ParseReturns(t)
    <3>1. /\ level' = level
          /\ frames'[t] = [frames[t] EXCEPT ![Len(frames[t])] = Emitting(Top(t))]
          /\ \A u \in Thread \ {t} : frames'[u] = frames[u]
      BY <1>0, <2>5 DEF ParseReturns
    <3>2. DOMAIN frames'[t] = DOMAIN frames[t]
      BY <3>1
    <3>3. frames'[t] # <<>>
      BY <2>3, <3>2
    <3>4. (frames'[loader] = <<>>) = (frames[loader] = <<>>)
      BY <2>1, <2>2, <3>1, <3>3
    <3> QED BY <2>2, <3>1, <3>4, DeepStays
  <2>6. CASE CompileEnds(t) /\ ~Usable(t)
    BY <1>s, <2>6 DEF CompileEnds, LeaveCompile, NoFault
  <2>7. CASE CompileEnds(t) /\ Usable(t)
    <3>1. /\ PopMark(tls[t]) /\ tls[t] \in Pool /\ Top(t).phase # "parsing"
          /\ frames' = [frames EXCEPT ![t] = Front(@)]
      BY <1>0, <2>7 DEF CompileEnds, InPhase, LeaveCompile, CompilePop, Usable, TypeOK
    <3>2. frames'[t] = Front(frames[t]) /\ \A u \in Thread \ {t} : frames'[u] = frames[u]
      BY <1>0, <3>1
    <3>3. CASE tls[t] = MainPool
      <4>1. t = loader /\ Len(frames[t]) = 1
        BY <2>1, <2>2, <3>1, <3>3, MainCurrent
      <4>2. level[MainPool] >= 2 /\ level[MainPool] \in Nat
        BY <1>0, <2>1, <2>2, <4>1 DEF DeepInv, CompileMark
      <4>3. level'[MainPool] = level[MainPool] - 1
        BY <1>0, <3>1, <3>3, <4>2, PopCounts
      <4>4. frames'[t] = <<>>
        BY <3>2, <4>1, SubSeqEmpty DEF Front
      <4>5. CompileMark(loader)' = 0 /\ level'[MainPool] >= 1 + 0
        BY <2>2, <4>1, <4>2, <4>3, <4>4 DEF CompileMark
      <4> QED BY <4>5 DEF DeepInv
    <3>4. CASE tls[t] # MainPool
      <4>1. level'[MainPool] = level[MainPool]
        BY <1>0, <3>1, <3>4 DEF PopMark
      <4>2. t = loader => Len(frames[t]) # 1
        BY <2>2, <3>1, <3>4, MainCurrent
      <4>3. t = loader => frames'[t] # <<>>
        <5>1. Front(frames[t]) = [i \in 1 .. (Len(frames[t]) - 1) |-> frames[t][i]]
          BY <2>3 DEF Front
        <5> DEFINE k == Len(frames[t])
        <5>2. k # 1 => 1 \in 1 .. (k - 1)
          <6>1. \A m \in Nat \ {0} : m # 1 => 1 \in 1 .. (m - 1)
            OBVIOUS
          <6> QED BY <2>3, <6>1
        <5>3. k # 1 => 1 \in DOMAIN Front(frames[t])
          BY <5>1, <5>2
        <5> QED BY <3>2, <4>2, <5>3
      <4>4. (frames'[loader] = <<>>) = (frames[loader] = <<>>)
        BY <2>1, <2>2, <3>2, <4>3
      <4> QED BY <2>2, <4>1, <4>4, DeepStays
    <3> QED BY <3>3, <3>4
  <2> QED BY <2>1, <2>4, <2>5, <2>6, <2>7
<1> QED BY <1>1, <1>2, <1>3, <1>4, <1>5, <1>6 DEF Next

LEMMA DeepInvHolds ==
  ASSUME PoolsAssumption, ~ParseMayThrow, InitResults = {TRUE}
  PROVE  Spec => []DeepInv
<1>1. Init => DeepInv
  BY DEF Init, DeepInv
<1>2. PoolInv /\ GoneInv /\ DeepInv /\ [Next]_vars => DeepInv'
  <2>1. DeepInv /\ UNCHANGED vars => DeepInv'
    BY DEF DeepInv, CompileMark, Running, vars, poolVars
  <2> QED BY <2>1, NextRunning, DeepStep
<1> QED BY <1>1, <1>2, PoolInvHolds, GoneInvHolds, PTL DEF Spec

\* What was reclaimed stays reclaimed: its pool does not come back.
LEMMA ReclaimedStays ==
  ASSUME PoolsAssumption, PoolInv, TakenInv, Next, NEW i \in Item, Reclaimed(i)
  PROVE  Reclaimed(i)'
<1>1. PICK pl \in places[i] : pl[1] \notin live \/ pl[2] > Base(pl[1])
  BY DEF Reclaimed
<1>2. pl \in places'[i]
  BY NewPlaces
<1>3. pl[1] \notin live => pl[1] \notin live'
  BY <1>1, NewPools DEF TakenInv
<1> QED BY <1>1, <1>2, <1>3 DEF Reclaimed, Base

\* A pop above the base of a pool, and the deletion of a pool.
LEMMA PopTears ==
  ASSUME PoolsAssumption, PoolInv, TakenInv, Next, BaseDataSurvives,
         NEW p \in Pool, PopMark(p), level[p] # 0 => level[p] > Base(p), UNCHANGED places
  PROVE  BaseDataSurvives'
<1>0. level[p] \in Nat /\ torn \in SUBSET Item /\ places \in [Item -> SUBSET (Pool \X Nat)]
  BY DEF PoolInv, TypeOK
<1>1. \/ torn' = torn
      \/ level[p] # 0 /\ torn' = torn \cup HeldAt(p, level[p])
  BY DEF PopMark
<1>2. ASSUME level[p] # 0, NEW i \in HeldAt(p, level[p]) PROVE Reclaimed(i)'
  <2>1. i \in Item
    BY DEF HeldAt
  <2>2. PICK pl \in places[i] : pl[1] = p /\ pl[2] >= level[p]
    BY DEF HeldAt
  <2>3. pl[2] \in Nat
    BY <1>0, <2>1, <2>2
  <2>4. pl[2] > Base(p)
    <3>1. Base(p) \in Nat
      BY DEF Base
    <3> QED BY <1>0, <1>2, <2>2, <2>3, <3>1
  <2> QED BY <2>1, <2>2, <2>4 DEF Reclaimed, Base
<1>3. ASSUME NEW i \in torn PROVE Reclaimed(i)'
  BY <1>0, <1>3, ReclaimedStays DEF BaseDataSurvives
<1> QED BY <1>1, <1>2, <1>3 DEF BaseDataSurvives, Reclaimed

LEMMA DropTears ==
  ASSUME PoolsAssumption, PoolInv, TakenInv, Next, BaseDataSurvives,
         NEW p \in Pool, DropPool(p), UNCHANGED places
  PROVE  BaseDataSurvives'
<1>0. torn \in SUBSET Item
  BY DEF PoolInv, TypeOK
<1>1. torn' = torn \cup HeldAt(p, 0) /\ p \notin live'
  BY DEF DropPool
<1>2. ASSUME NEW i \in HeldAt(p, 0) PROVE Reclaimed(i)'
  <2>1. PICK pl \in places[i] : pl[1] = p
    BY DEF HeldAt
  <2> QED BY <1>1, <2>1 DEF Reclaimed
<1>3. ASSUME NEW i \in torn PROVE Reclaimed(i)'
  BY <1>0, <1>3, ReclaimedStays DEF BaseDataSurvives, Reclaimed
<1> QED BY <1>1, <1>2, <1>3 DEF BaseDataSurvives, Reclaimed

LEMMA KeepTears ==
  ASSUME PoolsAssumption, PoolInv, TakenInv, Next, BaseDataSurvives, UNCHANGED torn
  PROVE  BaseDataSurvives'
<1>1. ASSUME NEW i \in torn PROVE Reclaimed(i)'
  BY <1>1, ReclaimedStays DEF BaseDataSurvives, Reclaimed, PoolInv, TypeOK
<1> QED BY <1>1 DEF BaseDataSurvives, Reclaimed

LEMMA DataSurvivesStep ==
  ASSUME PoolsAssumption, ~ParseMayThrow, InitResults = {TRUE},
         PoolInv, GoneInv, TakenInv, DeepInv, BaseDataSurvives, Next
  PROVE  BaseDataSurvives'
<1>0. /\ PoolInv /\ TypeOK /\ Running /\ level \in [Pool -> Nat]
      /\ MainPool \in Pool /\ Thread \subseteq Pool /\ Job \subseteq Pool
  BY NextRunning DEF PoolInv, TypeOK, Pool
<1>k. ASSUME UNCHANGED torn PROVE BaseDataSurvives'
  BY <1>0, <1>k, KeepTears
<1>f. ASSUME NEW t \in Thread, NEW op \in Op, Faults(t, op) PROVE BaseDataSurvives'
  BY <1>f, <1>k DEF Faults, Stops, itemVars
<1>s. ASSUME NEW t \in Thread, FindsNoPool(t) \/ Misused(t) PROVE BaseDataSurvives'
  BY <1>k, <1>s, StopsAlone
<1>b. \A p \in Pool : p # MainPool => (level[p] # 0 => level[p] > Base(p))
  BY <1>0 DEF Base
<1>d. ASSUME NEW p \in Pool, DropPool(p), UNCHANGED places PROVE BaseDataSurvives'
  BY <1>0, <1>d, DropTears
<1>1. ASSUME NEW t \in Thread, OnLoad(t) PROVE BaseDataSurvives'
  BY <1>1, <1>k DEF OnLoad, itemVars
<1>2. ASSUME NEW ok \in InitResults, FinishInit(ok) PROVE BaseDataSurvives'
  BY <1>2, <1>k DEF FinishInit, itemVars
<1>3. ASSUME OnUnload PROVE BaseDataSurvives'
  <2>1. CASE MainPool \in live
    BY <1>0, <1>3, <1>d, <2>1 DEF OnUnload
  <2>2. CASE MainPool \notin live
    BY <1>3, <1>k, <2>2 DEF OnUnload
  <2> QED BY <2>1, <2>2
<1>4. ASSUME NEW t \in Thread, RegisterWorkThread(t) PROVE BaseDataSurvives'
  BY <1>4, <1>k DEF RegisterWorkThread, itemVars
<1>5. ASSUME NEW t \in Thread, UnregisterWorkThread(t) PROVE BaseDataSurvives'
  <2>1. CASE Usable(t)
    <3>1. tls[t] \in Pool
      BY <1>0, <2>1 DEF Usable, TypeOK
    <3> QED BY <1>5, <1>d, <2>1, <3>1 DEF UnregisterWorkThread, DetachPool
  <2>2. CASE ~Usable(t)
    BY <1>5, <1>f, <2>2 DEF UnregisterWorkThread, Op
  <2> QED BY <2>1, <2>2
<1>6. ASSUME NEW t \in Thread, UnregisterAgain(t) PROVE BaseDataSurvives'
  BY <1>0, <1>6, <1>f, AgainFaults DEF Op
<1>7. ASSUME NEW t \in Thread, PushMemoryPool(t) PROVE BaseDataSurvives'
  BY <1>7, <1>k DEF PushMemoryPool, PushMark
<1>8. ASSUME NEW t \in Thread, PopMemoryPool(t) PROVE BaseDataSurvives'
  <2>1. CASE Links("popMemoryPool_do") /\ Usable(t)
    <3>1. registered[t] /\ PopMark(tls[t]) /\ UNCHANGED places /\ tls[t] \in Pool
      BY <1>0, <1>8, <2>1 DEF PopMemoryPool, Usable, TypeOK
    <3>2. tls[t] # MainPool
      BY <1>0, <3>1, OffMainPool DEF PoolInv, ChainInv
    <3> QED BY <1>0, <1>b, <3>1, <3>2, PopTears
  <2>2. CASE ~(Links("popMemoryPool_do") /\ Usable(t))
    BY <1>8, <1>k, <2>2 DEF PopMemoryPool
  <2> QED BY <2>1, <2>2
<1>9. ASSUME NEW t \in Thread, JobCall(t) PROVE BaseDataSurvives'
  <2>1. ASSUME NEW j \in Job, CreateJob(t, j) PROVE BaseDataSurvives'
    BY <1>k, <2>1 DEF CreateJob, itemVars
  <2>2. ASSUME NEW j \in Job, DeleteJob(t, j) PROVE BaseDataSurvives'
    BY <1>0, <1>d, <2>2 DEF DeleteJob
  <2>3. ASSUME NEW j \in Job, Begins(t, j) PROVE BaseDataSurvives'
    BY <1>k, <2>3 DEF Begins, PushMark
  <2>4. CASE Gives(t)
    BY <1>k, <2>4 DEF Gives
  <2> QED BY <1>0, <1>9, <1>s, <2>1, <2>2, <2>3, <2>4, JobCases
<1>10. ASSUME NEW t \in Thread, CompileStep(t) PROVE BaseDataSurvives'
  <2>1. CASE ParseReturns(t)
    BY <1>k, <2>1 DEF ParseReturns, itemVars
  <2>2. CASE CompileEnds(t) /\ Usable(t)
    <3>1. PopMark(tls[t]) /\ UNCHANGED places /\ tls[t] \in Pool /\ Top(t).phase # "parsing"
      BY <1>0, <2>2 DEF CompileEnds, InPhase, LeaveCompile, CompilePop, Usable, TypeOK
    <3>2. frames[t] # <<>> /\ lib # "unloaded" /\ (registered[t] \/ t = loader)
      BY <1>0, <1>10, CompileCases DEF PoolInv, OutsideInv, LibInv
    <3>3. CASE tls[t] = MainPool
      <4>1. t = loader
        BY <1>0, <3>2, <3>3, MainCurrent
      <4>2. level[MainPool] >= 1 + 1
        BY <1>0, <3>2, <4>1 DEF DeepInv, CompileMark
      <4>3. level[tls[t]] > Base(tls[t])
        BY <1>0, <3>3, <4>2 DEF Base
      <4> QED BY <1>0, <3>1, <4>3, PopTears
    <3>4. CASE tls[t] # MainPool
      BY <1>0, <1>b, <3>1, <3>4, PopTears
    <3> QED BY <3>3, <3>4
  <2>3. CASE CompileEnds(t) /\ ~Usable(t)
    BY <1>k, <2>3 DEF CompileEnds, LeaveCompile
  <2> QED BY <1>0, <1>10, <1>s, <2>1, <2>2, <2>3, CompileCases DEF ParseThrows
<1> QED BY <1>1, <1>2, <1>3, <1>4, <1>5, <1>6, <1>7, <1>8, <1>9, <1>10 DEF Next, ManagerCall

\* Data allocated outside any push/pop scope and compile keeps its memory while
\* its pool exists, whatever callbacks call: no pop of any thread, call or way out
\* ever reaches the base, of the main pool neither.
THEOREM BaseDataStays ==
  ASSUME PoolsAssumption, ~ParseMayThrow, InitResults = {TRUE}
  PROVE  Spec => []BaseDataSurvives
<1>1. Init => BaseDataSurvives
  BY DEF Init, BaseDataSurvives
<1>2. PoolInv /\ GoneInv /\ TakenInv /\ DeepInv /\ BaseDataSurvives /\ [Next]_vars
        => BaseDataSurvives'
  <2>1. BaseDataSurvives /\ UNCHANGED vars => BaseDataSurvives'
    BY DEF BaseDataSurvives, Reclaimed, Base, vars, poolVars, itemVars
  <2> QED BY <2>1, DataSurvivesStep
<1> QED BY <1>1, <1>2, PoolInvHolds, GoneInvHolds, TakenInvHolds, DeepInvHolds, PTL DEF Spec

-----------------------------------------------------------------------------
(* Data that a call finds lost.                                            *)

LostInv == fault.item # NoItem => fault.item \in torn \cap Item

LEMMA LostInvHolds ==
  ASSUME PoolsAssumption, ~ParseMayThrow, InitResults = {TRUE}
  PROVE  Spec => []LostInv
<1>1. Init => LostInv
  BY DEF Init, LostInv, NoFault
<1>2. PoolInv /\ LostInv /\ [Next]_vars => LostInv'
  <2>1. LostInv /\ UNCHANGED vars => LostInv'
    BY DEF LostInv, vars, itemVars
  <2>2. PoolInv /\ Next => LostInv'
    BY LostStep DEF LostInv
  <2> QED BY <2>1, <2>2
<1> QED BY <1>1, <1>2, PoolInvHolds, PTL DEF Spec

\* A missing or dead pool is used only outside the API or after some thread began
\* to unregister, and a call finds data lost only with its pool or with a mark it
\* was taken under, however threads and re-entrant callbacks interleave.
THEOREM FaultsHaveReason ==
  ASSUME PoolsAssumption, ~ParseMayThrow, InitResults = {TRUE}
  PROVE  Spec => []FaultsExplained
<1>1. AliveInv /\ LostInv /\ BaseDataSurvives => FaultsExplained
  BY DEF AliveInv, LostInv, BaseDataSurvives, FaultsExplained
<1> QED BY <1>1, AliveInvHolds, LostInvHolds, BaseDataStays, PTL

\* When callbacks stay out of the API, the call that finds data lost finds it in
\* the pool of a worker that is unregistering, or taken under a mark.
LEMMA LostDataStep ==
  ASSUME PoolsAssumption, ~ParseMayThrow, ~Reentrant, InitResults = {TRUE},
         ServedInv, TakenInv, BaseDataSurvives, LostDataExplained, Next
  PROVE  LostDataExplained'
<1>0. PoolInv /\ GoneInv /\ Running /\ fault.item = NoItem
  BY NextRunning DEF ServedInv, Running, NoFault
<1> SUFFICES ASSUME fault'.item # NoItem
             PROVE  \E pl \in places'[fault'.item] :
                      pl[2] > Base(pl[1]) \/ (pl[1] \in Thread /\ leaving'[pl[1]])
  BY DEF LostDataExplained, Base
<1> DEFINE i == fault'.item
<1>1. i \in torn \cap Item /\ UNCHANGED <<lib, registered, leaving, live, places>>
  BY <1>0, LostStep
<1>2. PICK pl \in places[i] : pl[1] \notin live \/ pl[2] > Base(pl[1])
  BY <1>1 DEF BaseDataSurvives, Reclaimed
<1>3. Taken(pl[1]) /\ pl[1] \notin Job /\ pl[1] \in Pool
  BY <1>0, <1>1, <1>2 DEF TakenInv, ServedInv, HomeInv, PoolInv, TypeOK
<1>4. CASE pl[1] \notin live
  <2>1. pl[1] # MainPool
    BY <1>0, <1>3, <1>4 DEF Taken, PoolInv, LibInv, Running, TypeOK
  <2>2. pl[1] \in Thread
    BY <1>3, <2>1 DEF Pool
  <2>3. ~registered[pl[1]]
    BY <1>0, <1>4, <2>2 DEF ServedInv, LiveInv
  <2>4. leaving[pl[1]]
    BY <1>3, <2>2, <2>3 DEF Taken
  <2> QED BY <1>1, <1>2, <2>2, <2>4
<1> QED BY <1>1, <1>2, <1>4

\* When callbacks stay out of the API, data that a call finds gone (a source read
\* by parse, a block extended or written out, a name of a job's map compared) was
\* taken under a mark or from the pool of a worker that is unregistering.
THEOREM LostDataHasReason ==
  ASSUME PoolsAssumption, ~ParseMayThrow, ~Reentrant, InitResults = {TRUE}
  PROVE  Spec => []LostDataExplained
<1>1. Init => LostDataExplained
  BY DEF Init, LostDataExplained, NoFault
<1>2. ServedInv /\ TakenInv /\ BaseDataSurvives /\ LostDataExplained /\ [Next]_vars
        => LostDataExplained'
  <2>1. LostDataExplained /\ UNCHANGED vars => LostDataExplained'
    BY DEF LostDataExplained, Base, vars, javaVars, itemVars
  <2> QED BY <2>1, LostDataStep
<1> QED BY <1>1, <1>2, ServedInvHolds, TakenInvHolds, BaseDataStays, PTL DEF Spec
-----------------------------------------------------------------------------
(* How every thread stands to the pool it calls home.                      *)

\* The two ways an attached thread can stand: its own pool current (or to be
\* restored) at its usual depth, or a shader's pool with a mark left on its own.
Stands(t) ==
  IF frames[t] = <<>>
  THEN \/ tls[t] = Home(t) /\ level[Home(t)] = Base(Home(t))
       \/ tls[t] \in Job /\ level[Home(t)] > Base(Home(t))
  ELSE \/ Top(t).pre = Home(t) /\ level[Home(t)] = Base(Home(t)) + 1
       \/ Top(t).pre \in Job /\ level[Home(t)] > Base(Home(t))

\* The pools a thread can have current, and what a thread outside the API has.
Place(t) ==
  /\ Len(frames[t]) <= 1
  /\ tls[t] \in Job \cup {Home(t), NoPool}
  /\ frames[t] # <<>> =>
       /\ Top(t).pre \in Job \cup {Home(t)}
       /\ tls[t] = IF Top(t).phase = "parsing" THEN Top(t).job ELSE Top(t).pre
  /\ t # loader /\ ~registered[t] => tls[t] = NoPool /\ frames[t] = <<>>
  /\ leaving[t] => ~registered[t] /\ tls[t] = NoPool /\ frames[t] = <<>>
  /\ Attached(t) => Stands(t)

\* Where the library stands, initialised or not.
Footing ==
  /\ lib = "unloaded" => loader = NoThread /\ \A t \in Thread : ~registered[t] /\ ~leaving[t]
  /\ lib # "unloaded" => loader \in Thread
  /\ mainThread = IF lib = "available" THEN loader ELSE NoThread
  /\ lib \in {"loaded", "available"} => ~registered[loader] /\ MainPool \in live
  /\ lib = "loaded" => frames[loader] = <<>> /\ tls[loader] = MainPool /\ level[MainPool] = 1

StrayInv == Running => Footing /\ \A t \in Thread : Place(t)

LEMMA HomePool ==
  ASSUME PoolsAssumption, NEW t \in Thread
  PROVE  Home(t) \in Pool /\ Home(t) \notin Job /\ Home(t) # NoPool
BY DEF PoolsAssumption, Home, Pool

\* A thread keeps its place when neither its own state nor its own pool changes.
LEMMA PlaceKept ==
  ASSUME NEW u \in Thread, Place(u),
         frames'[u] = frames[u], tls'[u] = tls[u], registered'[u] = registered[u],
         leaving'[u] = leaving[u], UNCHANGED <<loader, mainThread>>,
         Attached(u) => level'[Home(u)] = level[Home(u)]
  PROVE  Place(u)'
<1>1. Home(u)' = Home(u) /\ (Attached(u)' <=> Attached(u))
  BY DEF Home, Attached
<1>2. Top(u)' = Top(u) /\ \A p : Base(p)' = Base(p)
  BY DEF Top, Base
<1>3. Attached(u) => Stands(u)'
  BY <1>1, <1>2 DEF Stands, Place
<1> QED BY <1>1, <1>2, <1>3 DEF Place

\* No thread has another attached thread's own pool current.
LEMMA HomeAlone ==
  ASSUME PoolsAssumption, StrayInv, Running, NEW t \in Thread, NEW u \in Thread, t # u,
         Attached(u)
  PROVE  Home(u) # tls[t] /\ Home(u) # t /\ Home(u) \notin Job
<1>1. Place(t) /\ Footing
  BY DEF StrayInv
<1>2. Home(u) # t /\ Home(u) \notin Job
  BY DEF PoolsAssumption, Home
<1>3. CASE registered[u]
  BY <1>1, <1>2, <1>3 DEF PoolsAssumption, Home, Place
<1>4. CASE ~registered[u]
  <2>1. u = loader /\ lib = "available" /\ Home(u) = MainPool
    BY <1>1, <1>4 DEF Footing, Attached, Home, PoolsAssumption
  <2>2. CASE registered[t]
    BY <1>1, <2>1, <2>2 DEF PoolsAssumption, Home, Place
  <2>3. CASE ~registered[t]
    BY <1>1, <2>1, <2>3 DEF PoolsAssumption, Place
  <2> QED BY <1>2, <2>2, <2>3
<1> QED BY <1>2, <1>3, <1>4

\* A step of one thread that touches only shaders' pools, its current pool and
\* the pool it registers leaves every other thread its place.
LEMMA OthersPlaced ==
  ASSUME PoolsAssumption, TypeOK, StrayInv, Running, NEW t \in Thread,
         lib # "unloaded", lib = "loaded" => t # loader,
         UNCHANGED <<lib, loader, mainThread>>,
         \A u \in Thread \ {t} : /\ frames'[u] = frames[u] /\ tls'[u] = tls[u]
                                 /\ registered'[u] = registered[u] /\ leaving'[u] = leaving[u],
         t = mainThread => registered'[t] = registered[t],
         \A p \in Pool \ (Job \cup {tls[t], t}) : level'[p] = level[p],
         lib # "failed" /\ MainPool \in live => MainPool \in live',
         Place(t)'
  PROVE  StrayInv'
<1>1. Footing /\ \A u \in Thread : Place(u)
  BY DEF StrayInv
<1>2. ASSUME NEW u \in Thread, u # t PROVE Place(u)'
  <2>1. Attached(u) => level'[Home(u)] = level[Home(u)]
    BY <1>2, HomeAlone, HomePool
  <2> QED BY <1>1, <1>2, <2>1, PlaceKept
<1>3. ASSUME lib = "loaded" PROVE level'[MainPool] = level[MainPool]
  <2>1. t # loader /\ MainPool \in Pool /\ MainPool \notin Job /\ MainPool # t /\ MainPool # NoPool
    BY <1>3 DEF PoolsAssumption, Pool
  <2>2. tls[t] # MainPool
    BY <1>1, <2>1 DEF Place, Home, PoolsAssumption
  <2> QED BY <2>1, <2>2
<1>4. Footing'
  <2>1. loader \in Thread
    BY <1>1 DEF Footing
  <2>2. lib = "loaded" => frames'[loader] = frames[loader] /\ tls'[loader] = tls[loader]
    BY <2>1
  <2>3. lib \in {"loaded", "available"} => registered'[loader] = registered[loader]
    BY <1>1, <2>1 DEF Footing
  <2> QED BY <1>1, <1>3, <2>1, <2>2, <2>3 DEF Footing
<1>5. \A u \in Thread : Place(u)'
  BY <1>2
<1> QED BY <1>4, <1>5 DEF StrayInv

-----------------------------------------------------------------------------
(* The steps.                                                              *)

LEMMA ReadyPlace ==
  ASSUME ~Reentrant, StrayInv, NEW t \in Thread, Ready(t)
  PROVE  /\ Running /\ Footing /\ Place(t) /\ frames[t] = <<>> /\ ~leaving[t]
         /\ lib # "unloaded" /\ (lib = "loaded" => t # loader)
BY DEF Ready, Running, StrayInv

\* A fault ends the run.
LEMMA FaultPlace == ASSUME fault' # NoFault PROVE StrayInv'
BY DEF StrayInv, Running

\* OnLoad gives its thread the main pool with its mark; init may succeed or not.
LEMMA LoadPlaces ==
  ASSUME PoolsAssumption, TypeOK, StrayInv,
         \/ \E t \in Thread : OnLoad(t)
         \/ \E ok \in InitResults : FinishInit(ok)
         \/ OnUnload
  PROVE  StrayInv'
<1>0. /\ tls \in [Thread -> Pool \cup {NoPool}] /\ level \in [Pool -> Nat]
      /\ MainPool \in Pool
  BY DEF TypeOK, Pool
<1>1. ASSUME NEW t \in Thread, OnLoad(t) PROVE StrayInv'
  <2> SUFFICES ASSUME Running' PROVE Footing' /\ \A u \in Thread : Place(u)'
    BY DEF StrayInv
  <2>1. /\ lib = "unloaded" /\ lib' = "loaded" /\ loader' = t
        /\ tls' = [tls EXCEPT ![t] = MainPool]
        /\ live' = live \cup {MainPool}
        /\ level' = [level EXCEPT ![MainPool] = 1]
        /\ UNCHANGED <<mainThread, registered, leaving, frames, fault>>
    BY <1>1 DEF OnLoad, javaVars
  <2>2. Running
    BY <2>1 DEF Running
  <2>3. Footing /\ \A u \in Thread : Place(u)
    BY <2>2 DEF StrayInv
  <2>4. /\ loader = NoThread /\ mainThread = NoThread /\ NoThread \notin Thread
        /\ \A u \in Thread : /\ ~registered[u] /\ ~leaving[u] /\ ~Attached(u)
                             /\ tls[u] = NoPool /\ frames[u] = <<>>
    BY <2>1, <2>3 DEF Footing, Place, PoolsAssumption, Attached
  <2>5. tls'[t] = MainPool /\ \A u \in Thread \ {t} : tls'[u] = tls[u]
    BY <1>0, <2>1
  <2>6. level'[MainPool] = 1
    BY <1>0, <2>1
  <2>7. Footing'
    BY <2>1, <2>4, <2>5, <2>6 DEF Footing
  <2>8. ASSUME NEW u \in Thread PROVE Place(u)'
    <3>1. ~Attached(u)' /\ frames'[u] = <<>> /\ ~registered'[u] /\ ~leaving'[u]
      BY <2>1, <2>4 DEF Attached
    <3>2. Len(<<>>) <= 1
      OBVIOUS
    <3>3. tls'[u] = IF u = t THEN MainPool ELSE NoPool
      BY <2>4, <2>5
    <3>4. Home(u)' = MainPool
      BY <3>1 DEF Home
    <3> QED BY <2>1, <3>1, <3>2, <3>3, <3>4 DEF Place
  <2> QED BY <2>7, <2>8
<1>2. ASSUME NEW ok \in InitResults, FinishInit(ok) PROVE StrayInv'
  <2>1. /\ lib = "loaded" /\ fault = NoFault
        /\ lib' = IF ok THEN "available" ELSE "failed"
        /\ mainThread' = IF ok THEN loader ELSE mainThread
        /\ UNCHANGED <<loader, registered, leaving, tls, live, level, frames, fault>>
    BY <1>2 DEF FinishInit, poolVars
  <2>2. Footing /\ \A u \in Thread : Place(u)
    BY <2>1 DEF StrayInv, Running
  <2>3. /\ loader \in Thread /\ mainThread = NoThread /\ NoThread \notin Thread
        /\ ~registered[loader] /\ MainPool \in live
        /\ frames[loader] = <<>> /\ tls[loader] = MainPool /\ level[MainPool] = 1
    BY <2>1, <2>2 DEF Footing, PoolsAssumption
  <2>4. Footing'
    <3>1. ok => lib' = "available" /\ mainThread' = loader
      BY <2>1
    <3>2. ~ok => lib' = "failed" /\ mainThread' = NoThread
      BY <2>1, <2>3
    <3> QED BY <2>1, <2>3, <3>1, <3>2 DEF Footing
  <2>5. ASSUME NEW u \in Thread PROVE Place(u)'
    <3>1. Home(u)' = Home(u) /\ Top(u)' = Top(u) /\ \A p : Base(p)' = Base(p)
      BY <2>1 DEF Home, Top, Base
    <3>2. CASE u = loader
      <4>1. Home(u) = MainPool /\ Base(MainPool) = 1
        BY <2>3, <3>2 DEF Home, Base
      <4>2. Stands(u)'
        BY <2>1, <2>3, <3>1, <3>2, <4>1 DEF Stands
      <4> QED BY <2>1, <2>2, <3>1, <4>2 DEF Place
    <3>3. CASE u # loader
      <4>1. Attached(u)' => Attached(u)
        BY <2>1, <2>3, <3>3 DEF Attached
      <4>2. Stands(u) => Stands(u)'
        BY <2>1, <3>1 DEF Stands
      <4> QED BY <2>1, <2>2, <3>1, <4>1, <4>2 DEF Place
    <3> QED BY <3>2, <3>3
  <2> QED BY <2>4, <2>5 DEF StrayInv
<1>3. ASSUME OnUnload PROVE StrayInv'
  BY <1>3 DEF OnUnload, StrayInv, Running
<1> QED BY <1>1, <1>2, <1>3

LEMMA EmptyFrames == Len(<<>>) <= 1
OBVIOUS

\* A thread outside a compile that has no pool, or is served and has its own.
LEMMA IdlePlace ==
  ASSUME NEW t \in Thread, frames'[t] = <<>>, leaving'[t] => ~registered'[t],
         ~registered'[t] => tls'[t] = NoPool /\ ~Attached(t)',
         registered'[t] => tls'[t] = t /\ level'[t] = 0 /\ t # MainPool
  PROVE  Place(t)'
<1>1. CASE registered'[t]
  <2>1. Home(t)' = t /\ Base(t)' = 0
    BY <1>1 DEF Home, Base
  <2> QED BY <1>1, <2>1, EmptyFrames DEF Place, Stands
<1>2. CASE ~registered'[t]
  BY <1>2, EmptyFrames DEF Place
<1> QED BY <1>1, <1>2

\* Registering gives a thread a pool without marks, unregistering leaves it none.
LEMMA ManagerPlaces ==
  ASSUME PoolsAssumption, ~Reentrant, ~Links("pushMemoryPool_do"), ~Links("popMemoryPool_do"),
         TypeOK, StrayInv, Running, NEW t \in Thread, ManagerCall(t)
  PROVE  StrayInv'
<1>0. /\ registered \in [Thread -> BOOLEAN] /\ leaving \in [Thread -> BOOLEAN]
      /\ tls \in [Thread -> Pool \cup {NoPool}] /\ level \in [Pool -> Nat] /\ t \in Pool
      /\ t # MainPool /\ MainPool \notin Job /\ NoPool \notin Pool /\ live \subseteq Pool
      /\ Footing /\ Place(t)
  BY DEF TypeOK, Pool, PoolsAssumption, StrayInv
<1>1. CASE RegisterWorkThread(t)
  <2>1. /\ Ready(t) /\ t # mainThread /\ ~registered[t]
        /\ registered' = [registered EXCEPT ![t] = TRUE]
        /\ tls' = [tls EXCEPT ![t] = t]
        /\ live' = live \cup {t}
        /\ level' = [level EXCEPT ![t] = 0]
        /\ UNCHANGED <<lib, loader, mainThread, leaving, frames>>
    BY <1>1 DEF RegisterWorkThread, WorkerPool
  <2>2. /\ frames[t] = <<>> /\ ~leaving[t] /\ lib # "unloaded" /\ (lib = "loaded" => t # loader)
    BY <2>1, ReadyPlace
  <2>3. Place(t)'
    BY <1>0, <2>1, <2>2, IdlePlace
  <2>4. /\ \A u \in Thread \ {t} : /\ frames'[u] = frames[u] /\ tls'[u] = tls[u]
                                   /\ registered'[u] = registered[u] /\ leaving'[u] = leaving[u]
        /\ \A p \in Pool \ (Job \cup {tls[t], t}) : level'[p] = level[p]
        /\ MainPool \in live => MainPool \in live'
    BY <1>0, <2>1
  <2> QED BY <2>1, <2>2, <2>3, <2>4, OthersPlaced
<1>2. CASE UnregisterWorkThread(t) /\ Usable(t)
  <2>1. /\ Ready(t) /\ t # mainThread /\ registered[t] /\ tls[t] \in live
        /\ registered' = [registered EXCEPT ![t] = FALSE]
        /\ leaving' = [leaving EXCEPT ![t] = TRUE]
        /\ tls' = [tls EXCEPT ![t] = NoPool]
        /\ live' = live \ {tls[t]}
        /\ level' = [level EXCEPT ![tls[t]] = 0]
        /\ UNCHANGED <<lib, loader, mainThread, frames>>
    BY <1>2 DEF UnregisterWorkThread, RegisteredAfterwards, DetachPool, DropPool, Usable
  <2>2. /\ frames[t] = <<>> /\ lib # "unloaded" /\ (lib = "loaded" => t # loader)
    BY <2>1, ReadyPlace
  <2>3. ~Attached(t)' /\ frames'[t] = <<>> /\ ~registered'[t] /\ tls'[t] = NoPool
    BY <1>0, <2>1, <2>2 DEF Attached
  <2>4. Place(t)'
    BY <2>3, IdlePlace
  <2>5. tls[t] # MainPool
    BY <1>0, <2>1 DEF Place, Home
  <2>6. /\ \A u \in Thread \ {t} : /\ frames'[u] = frames[u] /\ tls'[u] = tls[u]
                                   /\ registered'[u] = registered[u] /\ leaving'[u] = leaving[u]
        /\ \A p \in Pool \ (Job \cup {tls[t], t}) : level'[p] = level[p]
        /\ MainPool \in live => MainPool \in live'
    BY <1>0, <2>1, <2>5
  <2> QED BY <2>1, <2>2, <2>4, <2>6, OthersPlaced
<1>3. CASE UnregisterAgain(t) /\ Usable(t)
  <2>1. /\ \/ leaving[t]
           \/ Ready(t) /\ t # mainThread /\ ~registered[t]
        /\ tls[t] \in live
        /\ leaving' = [leaving EXCEPT ![t] = FALSE]
        /\ tls' = [tls EXCEPT ![t] = NoPool]
        /\ live' = live \ {tls[t]}
        /\ level' = [level EXCEPT ![tls[t]] = 0]
        /\ UNCHANGED <<lib, loader, mainThread, registered, frames>>
    BY <1>3 DEF UnregisterAgain, DetachPool, DropPool, Usable
  <2>2. tls[t] # NoPool
    BY <1>0, <2>1
  <2>3. Ready(t) /\ t # mainThread /\ ~registered[t] /\ t = loader
    BY <1>0, <2>1, <2>2 DEF Place
  <2>4. /\ frames[t] = <<>> /\ lib # "unloaded" /\ lib # "loaded"
    BY <2>3, ReadyPlace
  <2>5. lib = "failed"
    BY <1>0, <2>3, <2>4 DEF Footing, Ready
  <2>6. ~Attached(t)' /\ frames'[t] = <<>> /\ ~registered'[t] /\ tls'[t] = NoPool
    BY <1>0, <2>1, <2>3, <2>4 DEF Attached
  <2>7. Place(t)'
    BY <2>6, IdlePlace
  <2>8. /\ \A u \in Thread \ {t} : /\ frames'[u] = frames[u] /\ tls'[u] = tls[u]
                                   /\ registered'[u] = registered[u] /\ leaving'[u] = leaving[u]
        /\ \A p \in Pool \ (Job \cup {tls[t], t}) : level'[p] = level[p]
        /\ t = mainThread => registered'[t] = registered[t]
    BY <1>0, <2>1
  <2> QED BY <2>1, <2>4, <2>5, <2>7, <2>8, OthersPlaced
<1>4. CASE Faults(t, "unregister")
  BY <1>4, FaultPlace DEF Faults, Stops, NoFault
<1>5. CASE PushMemoryPool(t) \/ PopMemoryPool(t)
  <2>1. /\ Ready(t)
        /\ UNCHANGED <<lib, loader, mainThread, registered, leaving, tls, live, frames, level>>
    BY <1>5 DEF PushMemoryPool, PopMemoryPool
  <2>2. lib # "unloaded" /\ (lib = "loaded" => t # loader)
    BY <2>1, ReadyPlace
  <2>3. Place(t)'
    BY <1>0, <2>1, PlaceKept
  <2> QED BY <2>1, <2>2, <2>3, OthersPlaced
<1> QED BY <1>1, <1>2, <1>3, <1>4, <1>5 DEF ManagerCall, UnregisterWorkThread, UnregisterAgain

\* A call that begins a compile leaves its mark, and remembers the pool it left.
LEMMA BeginPlaces ==
  ASSUME PoolsAssumption, ~Reentrant, TypeOK, StrayInv, Running,
         NEW t \in Thread, NEW j \in Job, Ready(t), Begins(t, j)
  PROVE  StrayInv'
<1> DEFINE f == [job |-> j, pre |-> tls[t], phase |-> "parsing"]
<1>0. /\ tls \in [Thread -> Pool \cup {NoPool}] /\ level \in [Pool -> Nat]
      /\ frames \in [Thread -> Seq(Frame)] /\ NoPool \notin Pool /\ live \subseteq Pool
      /\ Footing /\ Place(t)
  BY DEF TypeOK, Pool, PoolsAssumption, StrayInv
<1>1. /\ Ready(t) /\ tls[t] \in Pool
      /\ PushMark(tls[t])
      /\ frames' = [frames EXCEPT ![t] = Append(@, f)]
      /\ tls' = [tls EXCEPT ![t] = j]
      /\ UNCHANGED <<lib, loader, mainThread, registered, leaving, live>>
  BY <1>0 DEF Begins, Usable, javaVars
<1>2. /\ frames[t] = <<>> /\ ~leaving[t] /\ lib # "unloaded" /\ (lib = "loaded" => t # loader)
  BY <1>1, ReadyPlace
<1>3. f \in Frame /\ f.job = j /\ f.pre = tls[t] /\ f.phase = "parsing"
  BY <1>1 DEF Frame
<1> HIDE DEF f
<1>4. /\ frames'[t] = Append(<<>>, f) /\ tls'[t] = j
      /\ \A u \in Thread \ {t} : frames'[u] = frames[u] /\ tls'[u] = tls[u]
  BY <1>0, <1>1, <1>2
<1>5. Len(frames'[t]) = 1 /\ frames'[t] # <<>> /\ Top(t)' = f
  <2>1. <<>> \in Seq(Frame) /\ Len(<<>>) = 0
    BY EmptySeq
  <2>2. Len(Append(<<>>, f)) = Len(<<>>) + 1 /\ Append(<<>>, f)[Len(<<>>) + 1] = f
    BY <1>3, <2>1, AppendProperties
  <2>3. 0 + 1 = 1 /\ 0 # 1
    OBVIOUS
  <2> QED BY <1>4, <2>1, <2>2, <2>3 DEF Top
<1>6. /\ level'[tls[t]] = level[tls[t]] + 1
      /\ \A q \in Pool \ {tls[t]} : level'[q] = level[q]
  BY <1>1, PushCounts
<1>7. Home(t)' = Home(t) /\ (Attached(t)' <=> Attached(t)) /\ Base(Home(t))' = Base(Home(t))
  BY <1>1 DEF Home, Attached, Base
<1>8. /\ tls[t] \in Job \cup {Home(t)} /\ (registered[t] \/ t = loader)
      /\ Attached(t) => Stands(t)
  BY <1>0, <1>1 DEF Place
<1>9. Attached(t) => Stands(t)'
  <2> SUFFICES ASSUME Attached(t) PROVE Stands(t)'
    OBVIOUS
  <2>1. CASE tls[t] = Home(t)
    <3>1. level[Home(t)] = Base(Home(t))
      BY <1>2, <1>8, <2>1, HomePool DEF Stands
    <3>2. level'[Home(t)] = Base(Home(t)) + 1
      BY <1>6, <2>1, <3>1
    <3> QED BY <1>3, <1>5, <1>7, <2>1, <3>2 DEF Stands
  <2>2. CASE tls[t] \in Job
    <3>1. level[Home(t)] > Base(Home(t)) /\ level'[Home(t)] = level[Home(t)]
      BY <1>2, <1>6, <1>8, <2>2, HomePool DEF Stands
    <3> QED BY <1>3, <1>5, <1>7, <2>2, <3>1 DEF Stands
  <2> QED BY <1>8, <2>1, <2>2
<1>10. Place(t)'
  <2>1. Len(frames'[t]) <= 1
    BY <1>5
  <2> QED BY <1>1, <1>2, <1>3, <1>4, <1>5, <1>7, <1>8, <1>9, <2>1 DEF Place
<1> QED BY <1>1, <1>2, <1>4, <1>6, <1>10, OthersPlaced

\* Jobs come and go with their own pools; data is allocated without a mark.
LEMMA JobPlaces ==
  ASSUME PoolsAssumption, ~Reentrant, TypeOK, StrayInv, Running, NEW t \in Thread, JobCall(t)
  PROVE  StrayInv'
<1>0. Place(t) /\ Footing /\ MainPool \notin Job /\ level \in [Pool -> Nat]
  BY DEF StrayInv, PoolsAssumption, TypeOK
<1>k. ASSUME Ready(t), UNCHANGED <<lib, loader, mainThread, registered, leaving, tls, frames>>,
             \A p \in Pool \ Job : level'[p] = level[p],
             MainPool \in live => MainPool \in live'
      PROVE  StrayInv'
  <2>1. lib # "unloaded" /\ (lib = "loaded" => t # loader)
    BY <1>k, ReadyPlace
  <2>2. Place(t)'
    BY <1>0, <1>k, HomePool, PlaceKept
  <2> QED BY <1>k, <2>1, <2>2, OthersPlaced
<1>r. Ready(t)
  BY CallBegins
<1>1. ASSUME NEW j \in Job, CreateJob(t, j) PROVE StrayInv'
  BY <1>k, <1>1 DEF CreateJob, javaVars
<1>2. ASSUME NEW j \in Job, DeleteJob(t, j) PROVE StrayInv'
  <2>1. /\ Ready(t) /\ live' = live \ {j} /\ level' = [level EXCEPT ![j] = 0]
        /\ UNCHANGED <<lib, loader, mainThread, registered, leaving, tls, frames>>
    BY <1>2 DEF DeleteJob, DropPool, javaVars
  <2>2. \A p \in Pool \ Job : level'[p] = level[p]
    BY <1>0, <2>1
  <2>3. MainPool \in live => MainPool \in live'
    BY <1>0, <2>1
  <2> QED BY <1>k, <2>1, <2>2, <2>3
<1>3. ASSUME NEW j \in Job, Begins(t, j) PROVE StrayInv'
  BY <1>3, <1>r, BeginPlaces
<1>4. CASE Gives(t)
  BY <1>4, <1>k, <1>r DEF Gives, javaVars, poolVars
<1>5. CASE FindsNoPool(t) \/ Misused(t)
  BY <1>5, StopsAlone, FaultPlace
<1> QED BY <1>1, <1>2, <1>3, <1>4, <1>5, JobCases

\* Parse returning restores the pool remembered; an ending compile pops it, and an
\* exception out of parse pops the shader's pool instead and stays with it.
LEMMA CompilePlaces ==
  ASSUME PoolsAssumption, TypeOK, StrayInv, Running, NEW t \in Thread, CompileStep(t)
  PROVE  StrayInv'
<1>0. /\ tls \in [Thread -> Pool \cup {NoPool}] /\ level \in [Pool -> Nat]
      /\ frames \in [Thread -> Seq(Frame)] /\ frames[t] \in Seq(Frame)
      /\ Footing /\ Place(t) /\ live \subseteq Pool
  BY DEF TypeOK, StrayInv
<1>1. /\ frames[t] # <<>> /\ ~leaving[t]
      /\ lib # "unloaded" /\ (lib = "loaded" => t # loader)
  <2>1. frames[t] # <<>> /\ ~leaving[t]
    BY CompileCases
  <2>2. ASSUME lib = "unloaded" PROVE FALSE
    BY <1>0, <2>1, <2>2 DEF Footing, Place, PoolsAssumption
  <2> QED BY <1>0, <2>1, <2>2 DEF Footing
<1>2. Len(frames[t]) = 1 /\ Top(t) = frames[t][1] /\ Top(t) \in Frame
  <2>1. Len(frames[t]) \in Nat /\ Len(frames[t]) # 0 /\ Len(frames[t]) <= 1
    BY <1>0, <1>1, LenProperties, EmptySeq DEF Place
  <2>2. Len(frames[t]) = 1
    BY <2>1, OnlyOne
  <2> QED BY <1>1, <2>2, TopTypes DEF Top
<1>3. /\ Top(t).job \in Job /\ Top(t).pre \in Job \cup {Home(t)}
      /\ tls[t] = IF Top(t).phase = "parsing" THEN Top(t).job ELSE Top(t).pre
      /\ registered[t] \/ t = loader
      /\ Attached(t) => \/ Top(t).pre = Home(t) /\ level[Home(t)] = Base(Home(t)) + 1
                        \/ Top(t).pre \in Job /\ level[Home(t)] > Base(Home(t))
  BY <1>0, <1>1, <1>2 DEF Place, Stands, Frame
<1>4. CASE ParseReturns(t)
  <2> DEFINE g == [frames[t] EXCEPT ![Len(frames[t])] = Emitting(Top(t))]
  <2>1. /\ tls' = [tls EXCEPT ![t] = Top(t).pre] /\ frames' = [frames EXCEPT ![t] = g]
        /\ UNCHANGED <<lib, loader, mainThread, registered, leaving, live, level>>
    BY <1>4 DEF ParseReturns, PrePool, javaVars
  <2>2. g \in Seq(Frame) /\ g[1] = Emitting(Top(t)) /\ Len(g) = 1
    <3>1. g \in Seq(Frame) /\ DOMAIN frames[t] = 1 .. 1 /\ 1 \in 1 .. 1
      BY <1>0, <1>1, <1>2, TopTypes, LenProperties
    <3>2. DOMAIN g = 1 .. 1 /\ g[1] = Emitting(Top(t))
      BY <1>2, <3>1
    <3>3. Len(g) \in Nat /\ DOMAIN g = 1 .. Len(g)
      BY <3>1, LenProperties
    <3>4. \A k \in Nat : 1 .. k = 1 .. 1 => k = 1
      OBVIOUS
    <3> QED BY <3>1, <3>2, <3>3, <3>4
  <2> HIDE DEF g
  <2>3. /\ frames'[t] = g /\ tls'[t] = Top(t).pre
        /\ \A u \in Thread \ {t} : frames'[u] = frames[u] /\ tls'[u] = tls[u]
    BY <1>0, <2>1
  <2>4. frames'[t] # <<>> /\ Top(t)' = Emitting(Top(t)) /\ Len(frames'[t]) <= 1
    <3>1. Len(<<>>) = 0 /\ 1 # 0 /\ 1 <= 1
      OBVIOUS
    <3> QED BY <2>2, <2>3, <3>1 DEF Top
  <2>5. Top(t)'.pre = Top(t).pre /\ Top(t)'.phase = "emitting"
    BY <2>4 DEF Emitting
  <2>6. Home(t)' = Home(t) /\ (Attached(t)' <=> Attached(t)) /\ Base(Home(t))' = Base(Home(t))
    BY <2>1 DEF Home, Attached, Base
  <2>7. Attached(t) => Stands(t)'
    BY <1>3, <2>1, <2>4, <2>5, <2>6 DEF Stands
  <2>8. Place(t)'
    BY <1>1, <1>3, <2>1, <2>3, <2>4, <2>5, <2>6, <2>7 DEF Place
  <2> QED BY <1>1, <2>1, <2>3, <2>8, OthersPlaced
<1>5. CASE ParseThrows(t) \/ CompileEnds(t)
  <2>1. LeaveCompile(t) /\ (Top(t).phase = "parsing" \/ CompileEnds(t))
    BY <1>5 DEF ParseThrows, CompileEnds, InPhase
  <2>2. CASE ~Usable(t)
    BY <2>1, <2>2, FaultPlace DEF LeaveCompile, NoFault
  <2>3. CASE Usable(t)
    <3>1. /\ tls[t] \in Pool /\ PopMark(tls[t]) /\ frames' = [frames EXCEPT ![t] = Front(@)]
          /\ UNCHANGED <<lib, loader, mainThread, registered, leaving, tls, live>>
      BY <1>0, <2>1, <2>3 DEF LeaveCompile, CompilePop, Usable, javaVars
    <3>2. frames'[t] = Front(frames[t]) /\ \A u \in Thread \ {t} : frames'[u] = frames[u]
      BY <1>0, <3>1
    <3>3. frames'[t] = <<>>
      BY <1>2, <3>2, SubSeqEmpty DEF Front
    <3>4. \A q \in Pool \ {tls[t]} : level'[q] = level[q]
      BY <1>0, <3>1 DEF PopMark
    <3>5. Home(t)' = Home(t) /\ (Attached(t)' <=> Attached(t)) /\ Base(Home(t))' = Base(Home(t))
      BY <3>1 DEF Home, Attached, Base
    <3>6. Attached(t) => Stands(t)'
      <4> SUFFICES ASSUME Attached(t) PROVE Stands(t)'
        OBVIOUS
      <4>1. CASE tls[t] = Home(t)
        <5>1. Top(t).pre = Home(t) /\ level[Home(t)] = Base(Home(t)) + 1
          BY <1>3, <4>1, HomePool
        <5>2. level'[Home(t)] = level[Home(t)] - 1
          <6>1. level[Home(t)] \in Nat /\ Base(Home(t)) \in Nat
            BY <1>0, HomePool DEF Base
          <6>2. level[Home(t)] # 0
            BY <5>1, <6>1
          <6> QED BY <1>0, <3>1, <4>1, <6>2, PopCounts
        <5>3. level'[Home(t)] = Base(Home(t))
          <6>1. \A k \in Nat : (k + 1) - 1 = k
            OBVIOUS
          <6>2. Base(Home(t)) \in Nat
            BY DEF Base
          <6> QED BY <5>1, <5>2, <6>1, <6>2
        <5> QED BY <3>1, <3>3, <3>5, <4>1, <5>3 DEF Stands
      <4>2. CASE tls[t] \in Job
        <5>1. level[Home(t)] > Base(Home(t))
          <6>1. level[Home(t)] \in Nat /\ Base(Home(t)) \in Nat
            BY <1>0, HomePool DEF Base
          <6>2. \A k \in Nat : k + 1 > k
            OBVIOUS
          <6> QED BY <1>3, <6>1, <6>2
        <5>2. level'[Home(t)] = level[Home(t)]
          BY <3>4, <4>2, HomePool
        <5> QED BY <3>1, <3>3, <3>5, <4>2, <5>1, <5>2 DEF Stands
      <4> QED BY <1>3, <4>1, <4>2
    <3>7. Place(t)'
      BY <1>1, <1>3, <3>1, <3>3, <3>5, <3>6, EmptyFrames DEF Place
    <3> QED BY <1>1, <3>1, <3>2, <3>4, <3>7, OthersPlaced
  <2> QED BY <2>2, <2>3
<1>6. CASE Misused(t)
  BY <1>6, StopsAlone, FaultPlace
<1> QED BY <1>4, <1>5, <1>6, CompileCases

-----------------------------------------------------------------------------
(* The invariant, and what it says.                                        *)

\* Only a running system takes steps, but for the load.
LEMMA StepRuns ==
  ASSUME Next, Running' PROVE Running
<1>1. ASSUME NEW t \in Thread, ManagerCall(t) \/ JobCall(t) \/ CompileStep(t) PROVE fault = NoFault
  BY <1>1, CallGoesOn
<1>2. ASSUME NEW t \in Thread, OnLoad(t) PROVE fault = NoFault
  BY <1>2 DEF OnLoad, Running
<1>3. ASSUME NEW ok \in InitResults, FinishInit(ok) PROVE fault = NoFault
  BY <1>3 DEF FinishInit
<1>4. ASSUME OnUnload PROVE fault = NoFault
  BY <1>4 DEF OnUnload
<1>5. fault = NoFault
  BY <1>1, <1>2, <1>3, <1>4 DEF Next
<1> QED BY <1>5, GoneBack DEF Running

LEMMA StrayInvHolds ==
  ASSUME PoolsAssumption, ~Reentrant, ~Links("pushMemoryPool_do"), ~Links("popMemoryPool_do")
  PROVE  Spec => []StrayInv
<1>1. Init => StrayInv
  <2> SUFFICES ASSUME Init PROVE Footing /\ \A t \in Thread : Place(t)
    BY DEF StrayInv
  <2>1. Footing
    BY DEF Init, Footing
  <2>2. ASSUME NEW t \in Thread PROVE Place(t)
    <3>1. tls[t] = NoPool /\ frames[t] = <<>> /\ ~registered[t] /\ ~leaving[t] /\ ~Attached(t)
      BY DEF Init, Attached, PoolsAssumption
    <3> QED BY <3>1, EmptyFrames DEF Place
  <2> QED BY <2>1, <2>2
<1>2. TypeOK /\ StrayInv /\ [Next]_vars => StrayInv'
  <2> SUFFICES ASSUME TypeOK, StrayInv, [Next]_vars PROVE StrayInv'
    OBVIOUS
  <2>1. CASE Next
    <3> SUFFICES ASSUME Running' PROVE StrayInv'
      BY DEF StrayInv
    <3>1. Running
      BY <2>1, StepRuns
    <3>2. ASSUME NEW t \in Thread, ManagerCall(t) \/ JobCall(t) \/ CompileStep(t)
          PROVE  StrayInv'
      BY <3>1, <3>2, ManagerPlaces, JobPlaces, CompilePlaces
    <3> QED BY <2>1, <3>2, LoadPlaces DEF Next
  <2>2. CASE UNCHANGED vars
    <3>1. UNCHANGED <<lib, loader, mainThread, registered, leaving, tls, live, level, frames, fault>>
      BY <2>2 DEF vars, javaVars, poolVars
    <3>2. \A u \in Thread : Place(u) => Place(u)'
      BY <3>1, PlaceKept
    <3> QED BY <3>1, <3>2 DEF StrayInv, Footing, Running
  <2> QED BY <2>1, <2>2
<1> QED BY <1>1, <1>2, TypeCorrect, PTL DEF Spec

\* A thread left with a shader's pool by an exception is one whose own pool has a
\* mark nobody pops, and no other: compile_do's push without its pop and parse's
\* pool switch without SetThreadPoolAllocator always come together, however
\* many exceptions, compiles, registrations and failed initialisations there were.
THEOREM StrayKeepsMark ==
  ASSUME PoolsAssumption, ~Reentrant, ~Links("pushMemoryPool_do"), ~Links("popMemoryPool_do")
  PROVE  Spec => []StrayPoolKeepsMark
<1>1. TypeOK /\ StrayInv => StrayPoolKeepsMark
  <2> SUFFICES ASSUME TypeOK, StrayInv, Running, NEW t \in Thread, Attached(t), frames[t] = <<>>
               PROVE  tls[t] # Own(t) <=> level[Own(t)] > Base(Own(t))
    BY DEF StrayPoolKeepsMark
  <2>1. Footing /\ Stands(t)
    BY DEF StrayInv, Place
  <2>2. Own(t) = Home(t)
    <3>1. ~registered[t] => t = loader /\ lib = "available"
      BY <2>1 DEF Attached, Footing, PoolsAssumption
    <3> QED BY <2>1, <3>1 DEF Own, Home, Footing
  <2>3. Base(Home(t)) \in Nat
    BY DEF Base
  <2>4. CASE tls[t] = Home(t)
    <3>1. level[Home(t)] = Base(Home(t))
      BY <2>1, <2>4, HomePool DEF Stands
    <3>2. \A k \in Nat : ~(k > k)
      OBVIOUS
    <3> QED BY <2>2, <2>3, <2>4, <3>1, <3>2
  <2>5. CASE tls[t] # Home(t)
    <3>1. level[Home(t)] > Base(Home(t))
      BY <2>1, <2>5 DEF Stands
    <3> QED BY <2>2, <2>5, <3>1
  <2> QED BY <2>4, <2>5
<1> QED BY <1>1, TypeCorrect, StrayInvHolds, PTL
=============================================================================
