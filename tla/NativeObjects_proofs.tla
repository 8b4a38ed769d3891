------------------------ MODULE NativeObjects_proofs ------------------------
(***************************************************************************)
(* Proofs about NativeObjects for any threads, jobs and includers: type    *)
(* correctness, that a job's flag tells its fate, that one includer is     *)
(* left without a race, and, of a careful client, that no job outlives its *)
(* compiler unless an add was lost and that every fault is explained.      *)
(***************************************************************************)
EXTENDS NativeObjects, SequenceTheorems, TLAPS

-----------------------------------------------------------------------------
(* Type correctness.                                                       *)

CallType == [op : Op, job : Job \cup {NoJob}, inc : Includers \cup {Null}, n : Nat]
SwapType == [step : {"idle", "free", "assign"}, inc : Includer \cup {Null}]

\* What a call refers to, which the list it goes through has.
CallOK ==
  \A t \in Caller :
    /\ call[t].op \in {"idle", "deleting"} <=> call[t].job = NoJob
    /\ call[t].op = "adding" => call[t].n <= Len(elements)
    /\ call[t].op = "deleting" => call[t].n <= size
    /\ swap[t].step = "idle" <=> swap[t] = NoSwap

\* The finalizer only frees, and nobody else is in a call while the compiler is deleted.
CloseOK ==
  /\ call[Finalizer].op \in {"idle", "freeing"} /\ swap[Finalizer] = NoSwap
  /\ \A t \in Thread : call[t].op = "deleting" =>
       \A u \in Thread : swap[u] = NoSwap /\ (u # t => call[u].op = "idle")

Typed == TypeOK /\ CallOK /\ CloseOK

LEMMA CallTypes ==
  /\ \A op \in Op, j \in Job \cup {NoJob}, i \in Includers \cup {Null}, n \in Nat :
       Call(op, j, i, n) \in CallType
  /\ \A step \in {"idle", "free", "assign"}, i \in Includer \cup {Null} :
       Swapping(step, i) \in SwapType
BY DEF Call, CallType, Swapping, SwapType

LEMMA CallFields ==
  /\ \A op, j, i, n : LET c == Call(op, j, i, n) IN
       c.op = op /\ c.job = j /\ c.inc = i /\ c.n = n
  /\ \A step, i : Swapping(step, i).step = step /\ Swapping(step, i).inc = i
BY DEF Call, Swapping

\* A thread's call and its setIncluder, seen from every thread.
LEMMA CallMoves ==
  ASSUME TypeOK, NEW t \in Caller, NEW c, call' = [call EXCEPT ![t] = c]
  PROVE  call'[t] = c /\ \A u \in Caller : u # t => call'[u] = call[u]
BY DEF TypeOK

LEMMA CallTurns ==
  ASSUME TypeOK, NEW t \in Caller, NEW op, NEW j, NEW i, NEW n,
         call' = [call EXCEPT ![t] = Call(op, j, i, n)]
  PROVE  /\ call'[t].op = op /\ call'[t].job = j /\ call'[t].inc = i /\ call'[t].n = n
         /\ \A u \in Caller : u # t => call'[u] = call[u]
<1>1. call'[t] = Call(op, j, i, n) /\ \A u \in Caller : u # t => call'[u] = call[u]
  BY CallMoves
<1> QED BY <1>1, CallFields

LEMMA SwapMoves ==
  ASSUME TypeOK, NEW t \in Caller, NEW c, swap' = [swap EXCEPT ![t] = c]
  PROVE  swap'[t] = c /\ \A u \in Caller : u # t => swap'[u] = swap[u]
BY DEF TypeOK

LEMMA CallStays ==
  ASSUME TypeOK, NEW t \in Caller, NEW c \in CallType, call' = [call EXCEPT ![t] = c]
  PROVE  call' \in [Caller -> CallType]
BY DEF TypeOK, CallType

LEMMA SizeType ==
  ASSUME Typed
  PROVE  /\ elements \in Seq(Job) /\ Len(elements) \in Nat
         /\ size \in Nat /\ size <= Len(elements)
<1>1. elements \in Seq(Job) /\ size \in 0 .. Len(elements)
  BY DEF Typed, TypeOK
<1>2. Len(elements) \in Nat
  BY <1>1, LenProperties
<1> QED BY <1>1, <1>2

LEMMA CallerTypes ==
  ASSUME ObjectsAssumption, Typed, NEW t \in Caller
  PROVE  /\ call[t] \in CallType /\ swap[t] \in SwapType
         /\ call[t].op \notin {"idle", "deleting"} => call[t].job \in Job
         /\ call[t].n \in Nat
BY DEF Typed, TypeOK, CallOK, CallType, SwapType

\* A step to a fault changes nothing else.
LEMMA TouchTypes ==
  ASSUME Typed, NEW t \in Caller, NEW m \in Memory, NEW j \in Job \cup {NoJob}, Touches(t, m, j)
  PROVE  Typed'
<1>1. fault' \in [memory : Memory, thread : Caller, job : Job \cup {NoJob}]
  BY DEF Touches
<1>2. UNCHANGED <<deleted, elements, size, jobDeleted, held, kept, finalized, compiler, job, name,
                  includer, heap, call, swap, mishaps>>
  BY DEF Touches, wrappers, natives
<1>3. TypeOK'
  BY <1>1, <1>2 DEF Typed, TypeOK
<1>4. CallOK' /\ CloseOK'
  BY <1>2 DEF Typed, CallOK, CloseOK
<1> QED BY <1>3, <1>4 DEF Typed

LEMMA InitTypes == ASSUME ObjectsAssumption, Init PROVE Typed
<1>1. call \in [Caller -> CallType] /\ swap \in [Caller -> SwapType]
  <2>1. Idle \in CallType /\ NoSwap \in SwapType
    BY CallTypes DEF Idle, NoSwap, Op
  <2> QED BY <2>1 DEF Init
<1>2. elements \in Seq(Job) /\ size \in 0 .. Len(elements)
  BY DEF Init
<1>3. fault \in [memory : Memory, thread : Caller, job : Job \cup {NoJob}]
  BY DEF Init, NoFault, Memory, Caller
<1>4. name \in [Job -> {"null", "owned", "stale"}]
  BY DEF Init, InitialName
<1>5. includer \in Includers \cup {Null} /\ heap \in SUBSET Includers
  BY DEF Init, Includers
<1>6. TypeOK
  BY <1>1, <1>2, <1>3, <1>4, <1>5 DEF Init, TypeOK, CallType, SwapType
<1>7. \A t \in Caller : call[t].op = "idle" /\ call[t].job = NoJob /\ swap[t] = NoSwap
  BY CallFields DEF Init, Idle
<1>8. NoSwap.step = "idle"
  BY CallFields DEF NoSwap
<1>9. \A t \in Thread : t \in Caller
  BY DEF Caller
<1>10. Finalizer \in Caller
  BY DEF Caller
<1> QED BY <1>6, <1>7, <1>8, <1>9, <1>10 DEF Typed, CallOK, CloseOK

\* A call moves on while no other thread deletes the compiler.
LEMMA CallGoesOn ==
  ASSUME ObjectsAssumption, Typed, NEW t \in Thread, NEW c \in CallType,
         call' = [call EXCEPT ![t] = c], UNCHANGED <<elements, size, swap>>,
         c.op \in {"idle", "deleting"} <=> c.job = NoJob,
         c.op = "adding" => c.n <= Len(elements),
         c.op = "deleting" => c.n <= size /\ \A u \in Thread : swap[u] = NoSwap
                                          /\ (u # t => call[u].op = "idle"),
         c.op = "idle" \/ \A u \in Thread : u # t => call[u].op # "deleting"
  PROVE  CallOK' /\ CloseOK' /\ call' \in [Caller -> CallType]
<1>1. t # Finalizer /\ \A u \in Thread : u \in Caller
  BY DEF Caller, ObjectsAssumption
<1>2. call'[t] = c /\ \A u \in Caller : u # t => call'[u] = call[u]
  BY <1>1, CallMoves DEF Typed
<1>3. CallOK'
  BY <1>2 DEF Typed, CallOK
<1>4. Finalizer \in Caller
  BY DEF Caller
<1>5. call'[Finalizer].op \in {"idle", "freeing"} /\ swap'[Finalizer] = NoSwap
  BY <1>1, <1>2, <1>4 DEF Typed, CloseOK
<1>6. ASSUME NEW w \in Thread, call'[w].op = "deleting", NEW u \in Thread
      PROVE  swap'[u] = NoSwap /\ (u # w => call'[u].op = "idle")
  <2>1. CASE w = t
    BY <1>1, <1>2, <1>6, <2>1
  <2>2. CASE w # t
    <3>1. call[w].op = "deleting"
      BY <1>1, <1>2, <1>6, <2>2
    <3>2. c.op = "idle"
      BY <2>2, <3>1
    <3> QED BY <1>1, <1>2, <3>1, <3>2 DEF Typed, CloseOK
  <2> QED BY <2>1, <2>2
<1>7. call' \in [Caller -> CallType]
  BY <1>1, CallStays DEF Typed
<1> QED BY <1>3, <1>5, <1>6, <1>7 DEF CloseOK

LEMMA Quiet ==
  ASSUME Typed, UNCHANGED <<call, swap, elements, size>>
  PROVE  CallOK' /\ CloseOK' /\ call' \in [Caller -> CallType]
BY DEF Typed, TypeOK, CallType, CallOK, CloseOK

\* While a thread is in a call, or calls the library, no other deletes the compiler.
LEMMA NotClosing ==
  ASSUME Typed, NEW t \in Thread, call[t].op # "idle" \/ ~Closing
  PROVE  \A u \in Thread : u # t => call[u].op # "deleting"
BY DEF Typed, CloseOK, Closing

\* What the actions store in the list is typed.
LEMMA RememberTypes ==
  ASSUME ObjectsAssumption, Typed, NEW n \in Nat, n <= Len(elements), NEW j \in Job
  PROVE  /\ Remember(n, j) \in Seq(Job) /\ n + 1 <= Len(Remember(n, j))
         /\ Len(elements) <= Len(Remember(n, j))
         /\ \A k \in 1 .. Len(Remember(n, j)) :
              IF k = n + 1 THEN Remember(n, j)[k] = j
              ELSE k \in 1 .. Len(elements) /\ Remember(n, j)[k] = elements[k]
<1>1. elements \in Seq(Job) /\ Len(elements) \in Nat
  BY LenProperties DEF Typed, TypeOK
<1>2. CASE n < Len(elements)
  <2>1. n + 1 \in 1 .. Len(elements)
    BY <1>1, <1>2
  <2>2. Remember(n, j) = [elements EXCEPT ![n + 1] = j]
    BY <1>2 DEF Remember
  <2>3. /\ [elements EXCEPT ![n + 1] = j] \in Seq(Job)
        /\ Len([elements EXCEPT ![n + 1] = j]) = Len(elements)
        /\ \A k \in 1 .. Len(elements) : [elements EXCEPT ![n + 1] = j][k] =
                                            IF k = n + 1 THEN j ELSE elements[k]
    BY <1>1, <2>1, ExceptSeq
  <2> QED BY <1>1, <2>1, <2>2, <2>3
<1>3. CASE ~(n < Len(elements))
  <2>1. n = Len(elements)
    BY <1>1, <1>3
  <2>2. Remember(n, j) = Append(elements, j)
    BY <1>3 DEF Remember
  <2>3. /\ Append(elements, j) \in Seq(Job) /\ Len(Append(elements, j)) = Len(elements) + 1
        /\ \A k \in 1 .. Len(elements) : Append(elements, j)[k] = elements[k]
        /\ Append(elements, j)[Len(elements) + 1] = j
    BY <1>1, AppendProperties
  <2> QED BY <1>1, <2>1, <2>2, <2>3
<1> QED BY <1>2, <1>3

\* The calls on the compiler that make and remember a job.
LEMMA CreateTypes ==
  ASSUME ObjectsAssumption, Typed, NEW t \in Thread,
         (\E j \in Job : CreateJob(t, j)) \/ AddJob(t)
  PROVE  Typed'
<1> USE DEF wrappers, natives
<1>0. t \in Caller
  BY DEF Caller
<1>1. CASE \E j \in Job : CreateJob(t, j)
  <2>1. PICK j \in Job : CreateJob(t, j)
    BY <1>1
  <2> DEFINE c == Call("adding", j, Null, size)
  <2>2. c \in CallType /\ size <= Len(elements)
    BY CallTypes, SizeType DEF Op
  <2>3. call' = [call EXCEPT ![t] = c] /\ ~Closing /\ UNCHANGED <<elements, size, swap>>
    BY <2>1 DEF CreateJob, MayCallCompiler
  <2>a. c.op = "adding" /\ c.job # NoJob /\ c.n = size
    BY CallFields DEF ObjectsAssumption
  <2>b. \A u \in Thread : u # t => call[u].op # "deleting"
    BY <2>3, NotClosing
  <2> HIDE DEF c
  <2>4. CallOK' /\ CloseOK' /\ call' \in [Caller -> CallType]
    BY <2>2, <2>3, <2>a, <2>b, CallGoesOn
  <2>5. job' \in [Job -> {"none", "live", "freed"}]
    BY <2>1 DEF CreateJob, Typed, TypeOK
  <2> QED BY <2>1, <2>4, <2>5 DEF CreateJob, Typed, TypeOK, CallType
<1>2. CASE AddJob(t)
  <2> DEFINE n == call[t].n
             j == call[t].job
  <2>1. n \in Nat /\ n <= Len(elements) /\ j \in Job /\ call[t].op = "adding"
    BY <1>0, <1>2, CallerTypes DEF AddJob, Typed, CallOK
  <2>2. /\ elements' \in Seq(Job) /\ Len(elements) <= Len(elements') /\ size' = n + 1
        /\ size' <= Len(elements')
    BY <1>2, <2>1, RememberTypes DEF AddJob
  <2>3. size' \in 0 .. Len(elements')
    BY <2>1, <2>2, LenProperties
  <2>4. call' = [call EXCEPT ![t] = Idle] /\ swap' = swap
    BY <1>2 DEF AddJob
  <2>5. call'[t] = Idle /\ \A u \in Caller : u # t => call'[u] = call[u]
    BY <1>0, <2>4, CallMoves DEF Typed
  <2>6. \A u \in Thread : call[u].op # "deleting"
    BY <2>1, NotClosing
  <2>7. Idle.op = "idle" /\ Idle.job = NoJob
    BY CallFields DEF Idle
  <2>8. \A u \in Caller : call[u].op = "adding" => call[u].n <= Len(elements')
    <3>1. \A u \in Caller : call[u].n \in Nat
      BY CallerTypes
    <3>2. Len(elements) \in Nat /\ Len(elements') \in Nat
      BY <2>2, LenProperties DEF Typed, TypeOK
    <3> QED BY <2>2, <3>1, <3>2 DEF Typed, CallOK
  <2>9. \A u \in Caller : call[u].op # "deleting"
    BY <2>6 DEF Caller, Typed, CloseOK
  <2>10. CallOK'
    BY <2>4, <2>5, <2>7, <2>8, <2>9 DEF Typed, CallOK
  <2>11. CloseOK'
    <3>1. Finalizer # t /\ Finalizer \in Caller /\ \A u \in Thread : u \in Caller
      BY DEF ObjectsAssumption, Caller
    <3> QED BY <2>4, <2>5, <2>6, <2>7, <3>1 DEF Typed, CloseOK
  <2>12. call' \in [Caller -> CallType]
    <3>1. Idle \in CallType
      BY CallTypes DEF Idle, Op
    <3> QED BY <1>0, <2>4, <3>1, CallStays DEF Typed
  <2>13. held' \in SUBSET Job /\ mishaps' \in SUBSET Mishap
    BY <1>2, <2>1 DEF AddJob, Typed, TypeOK, Mishap
  <2> QED BY <1>2, <2>2, <2>3, <2>10, <2>11, <2>12, <2>13 DEF AddJob, Typed, TypeOK, CallType
<1> QED BY <1>1, <1>2

\* The calls that touch no call record: the source, uniform blocks, lines.
LEMMA SourceTypes ==
  ASSUME ObjectsAssumption, Typed, NEW t \in Thread, NEW j \in Job,
         \/ \E named \in BOOLEAN : SetSource(t, j, named)
         \/ AddUniformBlock(t, j) \/ AddPreprocess(t, j)
  PROVE  Typed'
<1> USE DEF wrappers, natives
<1>0. t \in Caller /\ call[t].job \in Job \cup {NoJob}
  BY DEF Caller, Typed, TypeOK
<1>1. CASE \E m \in {"job", "name", "env"}, k \in Job \cup {NoJob} : Touches(t, m, k)
  BY <1>0, <1>1, TouchTypes DEF Memory
<1>2. CASE \E named \in BOOLEAN : SetSource(t, j, named)
  <2>1. PICK named \in BOOLEAN : SetSource(t, j, named)
    BY <1>2
  <2>2. CASE job[j] # "live" \/ name[j] = "stale"
    BY <1>1, <2>1, <2>2 DEF SetSource
  <2>3. CASE ~(job[j] # "live" \/ name[j] = "stale")
    <3>1. /\ name' = [name EXCEPT ![j] = FilenameAfter(j, named)]
          /\ mishaps' = mishaps \cup (IF FilenameAfter(j, named) = "stale" THEN {"unnamed"} ELSE {})
          /\ UNCHANGED <<wrappers, compiler, job, includer, heap, call, swap, fault>>
      BY <2>1, <2>3 DEF SetSource
    <3>2. name' \in [Job -> {"null", "owned", "stale"}] /\ mishaps' \in SUBSET Mishap
      BY <3>1 DEF FilenameAfter, Mishap, Typed, TypeOK
    <3>3. CallOK' /\ CloseOK' /\ call' \in [Caller -> CallType]
      BY <3>1, Quiet
    <3> QED BY <3>1, <3>2, <3>3 DEF Typed, TypeOK, CallType
  <2> QED BY <2>2, <2>3
<1>3. CASE AddUniformBlock(t, j) \/ AddPreprocess(t, j)
  <2>1. CASE EnvFails(t)
    BY <1>0, <1>1, <2>1 DEF EnvFails
  <2>2. CASE ~EnvFails(t)
    <3>1. UNCHANGED <<wrappers, natives, includer, heap, call, swap>>
      BY <1>3, <2>2 DEF AddUniformBlock, AddPreprocess
    <3>2. mishaps' \in SUBSET Mishap
      BY <1>3, <2>2 DEF AddUniformBlock, AddPreprocess, EnvWorks, Mishap, Typed, TypeOK
    <3>3. fault' \in [memory : Memory, thread : Caller, job : Job \cup {NoJob}]
      BY <1>0, <1>3, <2>2 DEF AddUniformBlock, AddPreprocess, Memory, Typed, TypeOK
    <3>4. CallOK' /\ CloseOK' /\ call' \in [Caller -> CallType]
      BY <3>1, Quiet
    <3> QED BY <3>1, <3>2, <3>3, <3>4 DEF Typed, TypeOK, CallType
  <2> QED BY <2>1, <2>2
<1> QED BY <1>2, <1>3

Scan == {"parsing", "throwing", "callback"}

\* What a step of a parse may do to its call, and all it may do if it is no fault.
ParseMove(t) ==
  /\ \E op \in Scan, n \in Nat : call' = [call EXCEPT ![t] = Later(call[t], op, n)]
  /\ mishaps \subseteq mishaps' /\ mishaps' \in SUBSET Mishap
  /\ UNCHANGED <<wrappers, natives, includer, heap, swap, fault>>

ParseStep(t) ==
  \/ IncludeLocal(t) \/ ReleaseInclude(t)
  \/ \E result \in {"header", "null", "throws"} : CallbackReturns(t, result)

\* A step of a parse uses memory that may be gone, or moves on.
LEMMA ParseMoves ==
  ASSUME ObjectsAssumption, Typed, NEW t \in Thread, ParseStep(t)
  PROVE  /\ call[t].op \in Scan /\ call[t].job \in Job
         /\ \/ ParseMove(t)
            \/ \E m \in {"job", "includer", "env", "exception", "object"} : Touches(t, m, call[t].job)
<1> USE DEF wrappers, natives
<1>0. t \in Caller /\ mishaps \in SUBSET Mishap
  BY DEF Caller, Typed, TypeOK
<1>1. call[t].op \in Scan
  BY DEF ParseStep, IncludeLocal, ReleaseInclude, CallbackReturns, Scanning, Scan
<1>2. call[t].job \in Job /\ call[t].n \in Nat
  BY <1>0, <1>1, CallerTypes DEF Scan
<1>3. CASE IncludeLocal(t)
  <2>1. CASE job[call[t].job] # "live"
    BY <1>1, <1>2, <1>3, <2>1 DEF IncludeLocal
  <2>2. CASE job[call[t].job] = "live" /\ call[t].inc \notin heap
    BY <1>1, <1>2, <1>3, <2>2 DEF IncludeLocal
  <2>3. CASE job[call[t].job] = "live" /\ call[t].inc \in heap
    <3>1. \/ EnvFails(t)
          \/ Touches(t, "exception", call[t].job) \/ Touches(t, "object", call[t].job)
          \/ /\ EnvWorks(t) /\ call' = [call EXCEPT ![t] = Later(call[t], "callback", call[t].n)]
             /\ UNCHANGED <<wrappers, natives, includer, heap, swap, fault>>
      BY <1>3, <2>3 DEF IncludeLocal
    <3>2. CASE \/ EnvFails(t)
               \/ Touches(t, "exception", call[t].job) \/ Touches(t, "object", call[t].job)
      BY <1>1, <1>2, <3>2 DEF EnvFails
    <3>3. CASE /\ EnvWorks(t) /\ call' = [call EXCEPT ![t] = Later(call[t], "callback", call[t].n)]
               /\ UNCHANGED <<wrappers, natives, includer, heap, swap, fault>>
      <4>1. mishaps \subseteq mishaps' /\ mishaps' \in SUBSET Mishap
        BY <1>0, <3>3 DEF EnvWorks, Mishap
      <4>2. "callback" \in Scan
        BY DEF Scan
      <4>3. ParseMove(t)
        BY <1>2, <3>3, <4>1, <4>2 DEF ParseMove
      <4> QED BY <1>1, <1>2, <4>3
    <3> QED BY <3>1, <3>2, <3>3
  <2> QED BY <2>1, <2>2, <2>3
<1>4. CASE ReleaseInclude(t)
  <2>1. call[t].n > 0
    BY <1>4 DEF ReleaseInclude
  <2>2. call[t].n - 1 \in Nat
    BY <1>2, <2>1
  <2>3. \/ Touches(t, "job", call[t].job) \/ Touches(t, "includer", call[t].job)
        \/ /\ call' = [call EXCEPT ![t] = Later(call[t], call[t].op, call[t].n - 1)]
           /\ UNCHANGED <<wrappers, natives, includer, heap, swap, fault, mishaps>>
    BY <1>4 DEF ReleaseInclude
  <2>4. CASE /\ call' = [call EXCEPT ![t] = Later(call[t], call[t].op, call[t].n - 1)]
             /\ UNCHANGED <<wrappers, natives, includer, heap, swap, fault, mishaps>>
    <3>1. mishaps \subseteq mishaps' /\ mishaps' \in SUBSET Mishap
      BY <1>0, <2>4
    <3>2. ParseMove(t)
      BY <1>1, <2>2, <2>4, <3>1 DEF ParseMove
    <3> QED BY <1>1, <1>2, <3>2
  <2> QED BY <1>1, <1>2, <2>3, <2>4
<1>5. CASE \E result \in {"header", "null", "throws"} : CallbackReturns(t, result)
  <2>1. PICK result \in {"header", "null", "throws"} : CallbackReturns(t, result)
    BY <1>5
  <2>2. call[t].n + 1 \in Nat
    BY <1>2
  <2> DEFINE op == IF result = "throws" THEN "throwing" ELSE "parsing"
             n == IF result = "header" THEN call[t].n + 1 ELSE call[t].n
  <2>3. op \in Scan /\ n \in Nat /\ Answered(call[t], result) = Later(call[t], op, n)
    BY <1>2, <2>2 DEF Answered, Scan
  <2>4. \/ Touches(t, "job", call[t].job) \/ Touches(t, "env", call[t].job)
        \/ /\ call' = [call EXCEPT ![t] = Answered(call[t], result)]
           /\ mishaps' = mishaps \cup (IF result = "throws" THEN {"thrown"} ELSE {})
           /\ UNCHANGED <<wrappers, natives, includer, heap, swap, fault>>
    BY <2>1 DEF CallbackReturns, EnvFails
  <2> HIDE DEF op, n
  <2>5. CASE /\ call' = [call EXCEPT ![t] = Answered(call[t], result)]
             /\ mishaps' = mishaps \cup (IF result = "throws" THEN {"thrown"} ELSE {})
             /\ UNCHANGED <<wrappers, natives, includer, heap, swap, fault>>
    <3>1. mishaps \subseteq mishaps' /\ mishaps' \in SUBSET Mishap
      BY <1>0, <2>5 DEF Mishap
    <3>2. ParseMove(t)
      BY <2>3, <2>5, <3>1 DEF ParseMove
    <3> QED BY <1>1, <1>2, <3>2
  <2> QED BY <1>1, <1>2, <2>4, <2>5
<1> QED BY <1>1, <1>2, <1>3, <1>4, <1>5 DEF ParseStep

LEMMA ParseTypes ==
  ASSUME ObjectsAssumption, Typed, NEW t \in Thread, ParseStep(t)
  PROVE  Typed'
<1> USE DEF wrappers, natives
<1>0. t \in Caller
  BY DEF Caller
<1>1. CASE \E m \in {"job", "includer", "env", "exception", "object"} : Touches(t, m, call[t].job)
  BY <1>0, <1>1, ParseMoves, TouchTypes DEF Memory
<1>2. CASE ParseMove(t)
  <2>1. PICK op \in Scan, n \in Nat : call' = [call EXCEPT ![t] = Later(call[t], op, n)]
    BY <1>2 DEF ParseMove
  <2> DEFINE c == Later(call[t], op, n)
  <2>2. c.op \in Scan /\ c.job \in Job /\ c.job # NoJob /\ c.n \in Nat /\ c \in CallType
    <3>1. call[t].job \in Job /\ call[t].job # NoJob
      BY ParseMoves DEF ObjectsAssumption
    <3>2. call[t].inc \in Includers \cup {Null}
      BY <1>0, CallerTypes DEF CallType
    <3>3. op \in Op
      BY <2>1 DEF Scan, Op
    <3>4. c \in CallType
      BY <2>1, <3>1, <3>2, <3>3, CallTypes DEF Later
    <3>5. c.op = op /\ c.job = call[t].job /\ c.n = n
      BY CallFields DEF Later
    <3> QED BY <2>1, <3>1, <3>4, <3>5
  <2>3. \A u \in Thread : u # t => call[u].op # "deleting"
    BY ParseMoves, NotClosing DEF Scan
  <2> HIDE DEF c
  <2>4. CallOK' /\ CloseOK' /\ call' \in [Caller -> CallType]
    <3>1. call' = [call EXCEPT ![t] = c] /\ UNCHANGED <<elements, size, swap>>
      BY <1>2, <2>1 DEF ParseMove, c
    <3> QED BY <2>2, <2>3, <3>1, CallGoesOn DEF Scan
  <2> QED BY <1>2, <2>4 DEF ParseMove, Typed, TypeOK, CallType
<1> QED BY <1>1, <1>2, ParseMoves

\* A call that is over leaves the others alone.
LEMMA CallEnds ==
  ASSUME ObjectsAssumption, Typed, NEW t \in Caller, call' = [call EXCEPT ![t] = Idle],
         UNCHANGED <<elements, size, swap>>
  PROVE  CallOK' /\ CloseOK' /\ call' \in [Caller -> CallType]
<1>1. Idle.op = "idle" /\ Idle.job = NoJob /\ Idle \in CallType
  BY CallFields, CallTypes DEF Idle, Op
<1>2. call'[t] = Idle /\ \A u \in Caller : u # t => call'[u] = call[u]
  BY CallMoves DEF Typed
<1>3. CallOK'
  BY <1>1, <1>2 DEF Typed, CallOK
<1>4. Finalizer \in Caller /\ \A u \in Thread : u \in Caller
  BY DEF Caller
<1>5. CloseOK'
  BY <1>1, <1>2, <1>4 DEF Typed, CloseOK
<1>6. call' \in [Caller -> CallType]
  BY <1>1, CallStays DEF Typed
<1> QED BY <1>3, <1>5, <1>6

\* compile, before and after its parse.
LEMMA CompileTypes ==
  ASSUME ObjectsAssumption, Typed, NEW t \in Thread,
         \/ \E j \in Job : CompileBegin(t, j)
         \/ \E parsed \in BOOLEAN : CompileEnds(t, parsed)
  PROVE  Typed'
<1> USE DEF wrappers, natives
<1>0. t \in Caller
  BY DEF Caller
<1>1. CASE \E m \in {"job", "compiler", "exception"}, k \in Job \cup {NoJob} : Touches(t, m, k)
  BY <1>0, <1>1, TouchTypes DEF Memory
<1>2. CASE \E j \in Job : CompileBegin(t, j)
  <2>1. PICK j \in Job : CompileBegin(t, j)
    BY <1>2
  <2> DEFINE c == Call("parsing", j, includer, 0)
  <2>2. CASE job[j] # "live" \/ ~compiler
    BY <1>1, <2>1, <2>2 DEF CompileBegin
  <2>3. CASE ~(job[j] # "live" \/ ~compiler)
    <3>1. /\ call' = [call EXCEPT ![t] = c] /\ ~Closing
          /\ mishaps' = mishaps \cup
               (IF \E u \in Caller : swap[u] # NoSwap THEN {"includerRace"} ELSE {})
          /\ UNCHANGED <<wrappers, natives, includer, heap, swap, fault>>
      BY <2>1, <2>3 DEF CompileBegin, MayCallJob
    <3>2. c \in CallType /\ c.op = "parsing" /\ c.job # NoJob
      <4>1. includer \in Includers \cup {Null}
        BY DEF Typed, TypeOK
      <4> QED BY <4>1, CallTypes, CallFields DEF Op, ObjectsAssumption
    <3>3. \A u \in Thread : u # t => call[u].op # "deleting"
      BY <3>1, NotClosing
    <3> HIDE DEF c
    <3>4. CallOK' /\ CloseOK' /\ call' \in [Caller -> CallType]
      BY <3>1, <3>2, <3>3, CallGoesOn
    <3>5. mishaps' \in SUBSET Mishap
      BY <3>1 DEF Typed, TypeOK, Mishap
    <3> QED BY <3>1, <3>4, <3>5 DEF Typed, TypeOK, CallType
  <2> QED BY <2>2, <2>3
<1>3. CASE \E parsed \in BOOLEAN : CompileEnds(t, parsed)
  <2>1. PICK parsed \in BOOLEAN : CompileEnds(t, parsed)
    BY <1>3
  <2>2. call[t].job \in Job \cup {NoJob}
    BY <1>0 DEF Typed, TypeOK
  <2>3. \/ Touches(t, "job", call[t].job) \/ Touches(t, "compiler", call[t].job)
        \/ Touches(t, "exception", call[t].job)
        \/ /\ call' = [call EXCEPT ![t] = Idle]
           /\ UNCHANGED <<wrappers, natives, includer, heap, swap, fault, mishaps>>
    BY <2>1 DEF CompileEnds
  <2>4. CASE /\ call' = [call EXCEPT ![t] = Idle]
             /\ UNCHANGED <<wrappers, natives, includer, heap, swap, fault, mishaps>>
    <3>1. CallOK' /\ CloseOK' /\ call' \in [Caller -> CallType]
      BY <1>0, <2>4, CallEnds
    <3> QED BY <2>4, <3>1 DEF Typed, TypeOK, CallType
  <2> QED BY <1>1, <2>2, <2>3, <2>4
<1> QED BY <1>2, <1>3

\* ~CompileJob ends in a fault or frees the job.
LEMMA DestroyTypes ==
  ASSUME Typed, NEW t \in Caller, NEW j \in Job, DestroyJob(t, j)
  PROVE  /\ job' \in [Job -> {"none", "live", "freed"}]
         /\ name' \in [Job -> {"null", "owned", "stale"}]
         /\ fault' \in [memory : Memory, thread : Caller, job : Job \cup {NoJob}]
<1>1. /\ job \in [Job -> {"none", "live", "freed"}]
      /\ name \in [Job -> {"null", "owned", "stale"}]
      /\ fault \in [memory : Memory, thread : Caller, job : Job \cup {NoJob}]
  BY DEF Typed, TypeOK
<1>2. CASE job[j] # "live"
  BY <1>1, <1>2 DEF DestroyJob, Memory
<1>3. CASE job[j] = "live" /\ name[j] = "stale"
  BY <1>1, <1>3 DEF DestroyJob, Memory
<1>4. CASE job[j] = "live" /\ name[j] # "stale"
  BY <1>1, <1>4 DEF DestroyJob
<1> QED BY <1>2, <1>3, <1>4

\* CompileJob.delete, by the client and by the finalizer.
LEMMA DeleteTypes ==
  ASSUME ObjectsAssumption, Typed,
         \/ \E t \in Thread, j \in Job : ClientDeletesJob(t, j)
         \/ \E t \in Thread : FlagJob(t)
         \/ \E t \in Caller : FreeJob(t)
         \/ \E j \in Job : Finalize(j)
  PROVE  Typed'
<1> USE DEF wrappers, natives
<1>0. /\ Thread \subseteq Caller /\ Finalizer \in Caller
      /\ jobDeleted \in [Job -> BOOLEAN] /\ mishaps \in SUBSET Mishap
  BY DEF Caller, Typed, TypeOK
<1>1. CASE \E t \in Thread, j \in Job : ClientDeletesJob(t, j)
  <2>1. PICK t \in Thread : \E j \in Job : ClientDeletesJob(t, j)
    BY <1>1
  <2>2. PICK j \in Job : ClientDeletesJob(t, j)
    BY <2>1
  <2> DEFINE c == Call("testing", j, Null, 0)
  <2>3. /\ call' = [call EXCEPT ![t] = c] /\ ~Closing
        /\ UNCHANGED <<wrappers, natives, includer, heap, swap, fault, mishaps>>
    BY <2>2 DEF ClientDeletesJob, MayDeleteJob
  <2>4. c \in CallType /\ c.op = "testing" /\ c.job # NoJob
    BY CallTypes, CallFields DEF Op, ObjectsAssumption
  <2>5. \A u \in Thread : u # t => call[u].op # "deleting"
    BY <2>3, NotClosing
  <2> HIDE DEF c
  <2>6. CallOK' /\ CloseOK' /\ call' \in [Caller -> CallType]
    BY <2>3, <2>4, <2>5, CallGoesOn
  <2> QED BY <2>3, <2>6 DEF Typed, TypeOK, CallType
<1>4. CASE \E t \in Thread : FlagJob(t)
  <2>1. PICK t \in Thread : FlagJob(t)
    BY <1>4
  <2>a. t \in Caller /\ call[t].op = "testing"
    BY <1>0, <2>1 DEF FlagJob
  <2> DEFINE j == call[t].job
             c == Call("freeing", j, Null, 0)
  <2>2. /\ call' = [call EXCEPT ![t] = c] /\ call[t].op = "testing"
        /\ jobDeleted' = [jobDeleted EXCEPT ![j] = TRUE]
        /\ UNCHANGED <<deleted, elements, size, held, kept, finalized, natives, includer, heap, swap,
                       fault, mishaps>>
    BY <2>1 DEF FlagJob, DeletedAfter
  <2>3. j \in Job
    BY <2>a, CallerTypes
  <2> HIDE DEF j
  <2>4. c \in CallType /\ c.op = "freeing" /\ c.job # NoJob
    BY <2>3, CallTypes, CallFields DEF Op, ObjectsAssumption
  <2>5. \A u \in Thread : u # t => call[u].op # "deleting"
    BY <2>2, NotClosing
  <2> HIDE DEF c
  <2>6. CallOK' /\ CloseOK' /\ call' \in [Caller -> CallType]
    BY <2>2, <2>4, <2>5, CallGoesOn
  <2>7. jobDeleted' \in [Job -> BOOLEAN]
    BY <1>0, <2>2
  <2> QED BY <2>2, <2>6, <2>7 DEF Typed, TypeOK, CallType
<1>2. CASE \E t \in Caller : FreeJob(t)
  <2>1. PICK t \in Caller : FreeJob(t)
    BY <1>2
  <2>2. call[t].op = "freeing"
    BY <2>1 DEF FreeJob
  <2>3. call[t].job \in Job
    BY <2>2, CallerTypes
  <2>4. /\ call' = [call EXCEPT ![t] = Idle] /\ DestroyJob(t, call[t].job)
        /\ UNCHANGED <<wrappers, compiler, includer, heap, swap, mishaps>>
    BY <2>1 DEF FreeJob
  <2>5. CallOK' /\ CloseOK' /\ call' \in [Caller -> CallType]
    BY <2>4, CallEnds
  <2>6. /\ job' \in [Job -> {"none", "live", "freed"}]
        /\ name' \in [Job -> {"null", "owned", "stale"}]
        /\ fault' \in [memory : Memory, thread : Caller, job : Job \cup {NoJob}]
    BY <2>3, <2>4, DestroyTypes
  <2> QED BY <2>4, <2>5, <2>6 DEF Typed, TypeOK, CallType
<1>3. CASE \E j \in Job : Finalize(j)
  <2>1. PICK j \in Job : Finalize(j)
    BY <1>3
  <2>2. /\ finalized' = finalized \cup {j}
        /\ UNCHANGED <<deleted, elements, size, held, kept, natives, includer, heap, swap, fault>>
    BY <2>1 DEF Finalize
  <2>3. finalized' \in SUBSET Job
    BY <2>2 DEF Typed, TypeOK
  <2>4. CASE jobDeleted[j]
    <3>1. UNCHANGED <<jobDeleted, call, mishaps>>
      BY <2>1, <2>4 DEF Finalize
    <3>2. CallOK' /\ CloseOK' /\ call' \in [Caller -> CallType]
      BY <2>2, <3>1, Quiet
    <3> QED BY <2>2, <2>3, <3>1, <3>2 DEF Typed, TypeOK, CallType
  <2>5. CASE ~jobDeleted[j]
    <3> DEFINE c == Call("freeing", j, Null, 0)
    <3>1. /\ call' = [call EXCEPT ![Finalizer] = c]
          /\ jobDeleted' = [jobDeleted EXCEPT ![j] = TRUE]
          /\ mishaps' = mishaps \cup (IF InUse(j) THEN {"finalizedInUse"} ELSE {})
      BY <2>1, <2>5 DEF Finalize, DeletedAfter
    <3>2. c \in CallType /\ c.op = "freeing" /\ c.job # NoJob
      BY CallTypes, CallFields DEF Op, ObjectsAssumption
    <3> HIDE DEF c
    <3>3. call'[Finalizer] = c /\ \A u \in Caller : u # Finalizer => call'[u] = call[u]
      BY <1>0, <3>1, CallMoves DEF Typed
    <3>4. CallOK'
      BY <2>2, <3>2, <3>3 DEF Typed, CallOK
    <3>5. CloseOK'
      <4>1. \A u \in Thread : u \in Caller /\ u # Finalizer
        BY <1>0 DEF ObjectsAssumption
      <4> QED BY <2>2, <3>2, <3>3, <4>1 DEF Typed, CloseOK
    <3>6. call' \in [Caller -> CallType]
      BY <1>0, <3>1, <3>2, CallStays DEF Typed
    <3>7. jobDeleted' \in [Job -> BOOLEAN] /\ mishaps' \in SUBSET Mishap
      BY <1>0, <3>1 DEF Mishap
    <3> QED BY <2>2, <2>3, <3>4, <3>5, <3>6, <3>7 DEF Typed, TypeOK, CallType
  <2> QED BY <2>4, <2>5
<1> QED BY <1>1, <1>2, <1>3, <1>4

\* References dropped.
LEMMA DropTypes ==
  ASSUME Typed, DropCompiler \/ \E j \in Job : DropJob(j)
  PROVE  Typed'
<1> USE DEF wrappers, natives
<1>1. UNCHANGED <<deleted, elements, size, jobDeleted, finalized, natives, includer, heap, call, swap,
                  fault, mishaps>>
  BY DEF DropCompiler, DropJob
<1>2. held' \in SUBSET Job /\ kept' \in BOOLEAN
  BY DEF DropCompiler, DropJob, Typed, TypeOK
<1>3. CallOK' /\ CloseOK' /\ call' \in [Caller -> CallType]
  BY <1>1, Quiet
<1> QED BY <1>1, <1>2, <1>3 DEF Typed, TypeOK, CallType

\* A setIncluder call moves on while no thread deletes the compiler.
LEMMA SwapGoesOn ==
  ASSUME ObjectsAssumption, Typed, NEW t \in Thread, NEW s \in SwapType,
         swap' = [swap EXCEPT ![t] = s], UNCHANGED <<elements, size, call>>,
         s.step = "idle" <=> s = NoSwap,
         \A u \in Thread : call[u].op # "deleting"
  PROVE  CallOK' /\ CloseOK' /\ call' \in [Caller -> CallType] /\ swap' \in [Caller -> SwapType]
<1>1. t \in Caller /\ t # Finalizer /\ Finalizer \in Caller
  BY DEF Caller, ObjectsAssumption
<1>2. swap'[t] = s /\ \A u \in Caller : u # t => swap'[u] = swap[u]
  BY <1>1, SwapMoves DEF Typed
<1>3. CallOK'
  BY <1>2 DEF Typed, CallOK
<1>4. CloseOK'
  BY <1>1, <1>2 DEF Typed, CloseOK
<1>5. call' \in [Caller -> CallType] /\ swap' \in [Caller -> SwapType]
  BY DEF Typed, TypeOK, CallType, SwapType
<1> QED BY <1>3, <1>4, <1>5

\* While a thread is in setIncluder nobody deletes the compiler.
LEMMA SwapOpen ==
  ASSUME ObjectsAssumption, Typed, NEW t \in Thread, swap[t].step # "idle"
  PROVE  \A u \in Thread : call[u].op # "deleting"
<1>1. swap[t] # NoSwap
  BY DEF Typed, CallOK, Caller
<1> QED BY <1>1 DEF Typed, CloseOK

\* setIncluder.
LEMMA IncluderTypes ==
  ASSUME ObjectsAssumption, Typed, NEW t \in Thread,
         \/ \E i \in Includer : SetIncluder(t, i)
         \/ FreeIncluder(t) \/ AssignIncluder(t)
  PROVE  Typed'
<1> USE DEF wrappers, natives
<1>0. t \in Caller /\ call[t].job \in Job \cup {NoJob}
  BY DEF Caller, Typed, TypeOK
<1>a. heap \in SUBSET Includers /\ mishaps \in SUBSET Mishap /\ includer \in Includers \cup {Null}
  BY DEF Typed, TypeOK
<1>1. CASE \E m \in {"compiler", "includer", "env"}, k \in Job \cup {NoJob} : Touches(t, m, k)
  BY <1>0, <1>1, TouchTypes DEF Memory
<1>2. CASE \E i \in Includer : SetIncluder(t, i)
  <2>1. PICK i \in Includer : SetIncluder(t, i)
    BY <1>2
  <2> DEFINE s == Swapping("free", i)
  <2>2. CASE EnvFails(t)
    BY <1>0, <1>1, <2>2 DEF EnvFails
  <2>3. CASE ~EnvFails(t)
    <3>1. /\ swap' = [swap EXCEPT ![t] = s] /\ ~Closing
          /\ heap' = heap \cup {i}
          /\ mishaps' = mishaps
               \cup (IF t = Loader THEN {} ELSE {"foreignEnv"})
               \cup (IF \E u \in Caller : swap[u] # NoSwap \/ Parsing(u)
                     THEN {"includerRace"} ELSE {})
               \cup (IF i \in Hollow THEN {"nullIncluder"} ELSE {})
          /\ UNCHANGED <<wrappers, natives, includer, call, fault>>
      BY <2>1, <2>3 DEF SetIncluder, MayCallCompiler
    <3>2. s \in SwapType /\ s.step = "free" /\ NoSwap.step = "idle"
      BY CallTypes, CallFields DEF NoSwap
    <3>3. \A u \in Thread : call[u].op # "deleting"
      BY <3>1 DEF Closing
    <3> HIDE DEF s
    <3>4. /\ CallOK' /\ CloseOK' /\ call' \in [Caller -> CallType]
          /\ swap' \in [Caller -> SwapType]
      BY <3>1, <3>2, <3>3, SwapGoesOn
    <3>5. heap' \in SUBSET Includers /\ mishaps' \in SUBSET Mishap
      BY <1>a, <3>1 DEF Includers, Mishap
    <3> QED BY <3>1, <3>4, <3>5 DEF Typed, TypeOK, CallType, SwapType
  <2> QED BY <2>2, <2>3
<1>3. CASE FreeIncluder(t)
  <2>1. swap[t].step = "free"
    BY <1>3 DEF FreeIncluder
  <2> DEFINE s == Swapping("assign", swap[t].inc)
  <2>2. \/ Touches(t, "compiler", NoJob) \/ Touches(t, "includer", NoJob)
        \/ Touches(t, "env", call[t].job)
        \/ /\ heap' = heap \ {includer} /\ swap' = [swap EXCEPT ![t] = s]
           /\ UNCHANGED <<wrappers, natives, includer, call, fault, mishaps>>
    BY <1>3 DEF FreeIncluder, EnvFails, Without
  <2>3. CASE /\ heap' = heap \ {includer} /\ swap' = [swap EXCEPT ![t] = s]
             /\ UNCHANGED <<wrappers, natives, includer, call, fault, mishaps>>
    <3>1. swap[t].inc \in Includer \cup {Null}
      BY <1>0, CallerTypes DEF SwapType
    <3>2. s \in SwapType /\ s.step = "assign" /\ NoSwap.step = "idle"
      BY <3>1, CallTypes, CallFields DEF NoSwap
    <3>3. \A u \in Thread : call[u].op # "deleting"
      BY <2>1, SwapOpen
    <3> HIDE DEF s
    <3>4. /\ CallOK' /\ CloseOK' /\ call' \in [Caller -> CallType]
          /\ swap' \in [Caller -> SwapType]
      BY <2>3, <3>2, <3>3, SwapGoesOn
    <3>5. heap' \in SUBSET Includers
      BY <1>a, <2>3
    <3> QED BY <2>3, <3>4, <3>5 DEF Typed, TypeOK, CallType, SwapType
  <2> QED BY <1>0, <1>1, <2>2, <2>3
<1>4. CASE AssignIncluder(t)
  <2>1. /\ swap[t].step = "assign" /\ includer' = swap[t].inc
        /\ swap' = [swap EXCEPT ![t] = NoSwap]
        /\ UNCHANGED <<wrappers, natives, heap, call, fault, mishaps>>
    BY <1>4 DEF AssignIncluder
  <2>2. swap[t].inc \in Includer \cup {Null}
    BY <1>0, CallerTypes DEF SwapType
  <2>3. NoSwap \in SwapType /\ NoSwap.step = "idle"
    BY CallTypes, CallFields DEF NoSwap
  <2>4. \A u \in Thread : call[u].op # "deleting"
    BY <2>1, SwapOpen
  <2>5. /\ CallOK' /\ CloseOK' /\ call' \in [Caller -> CallType]
        /\ swap' \in [Caller -> SwapType]
    BY <2>1, <2>3, <2>4, SwapGoesOn
  <2>6. includer' \in Includers \cup {Null}
    BY <2>1, <2>2 DEF Includers
  <2> QED BY <2>1, <2>5, <2>6 DEF Typed, TypeOK, CallType, SwapType
<1> QED BY <1>2, <1>3, <1>4

\* delete of the compiler.
LEMMA CloseTypes ==
  ASSUME ObjectsAssumption, Typed, NEW t \in Thread,
         DeleteCompiler(t) \/ DeleteListed(t) \/ FreeCompiler(t)
  PROVE  Typed'
<1> USE DEF wrappers, natives
<1>0. t \in Caller /\ call[t].job \in Job \cup {NoJob} /\ call[t].n \in Nat
      /\ call[t].inc \in Includers \cup {Null}
  BY CallerTypes DEF Caller, CallType
<1>a. heap \in SUBSET Includers /\ includer \in Includers \cup {Null}
      /\ jobDeleted \in [Job -> BOOLEAN] /\ Thread \subseteq Caller
  BY DEF Typed, TypeOK, Caller
<1>1. CASE DeleteCompiler(t)
  <2> DEFINE c == Call("deleting", NoJob, Null, 0)
  <2>1. /\ call' = [call EXCEPT ![t] = c] /\ deleted' = TRUE
        /\ UNCHANGED <<elements, size, jobDeleted, held, kept, finalized, natives, includer, heap,
                       swap, fault, mishaps>>
        /\ \A u \in Thread : Free(u)
    BY <1>1 DEF DeleteCompiler
  <2>2. c \in CallType /\ c.op = "deleting" /\ c.job = NoJob /\ c.n = 0
    BY CallTypes, CallFields DEF Op
  <2>3. \A u \in Thread : call[u].op = "idle" /\ swap[u] = NoSwap
    BY <2>1 DEF Free
  <2>4. c.n <= size
    BY <2>2, SizeType
  <2> HIDE DEF c
  <2>5. CallOK' /\ CloseOK' /\ call' \in [Caller -> CallType]
    BY <2>1, <2>2, <2>3, <2>4, CallGoesOn
  <2> QED BY <2>1, <2>5 DEF Typed, TypeOK, CallType
<1>2. CASE DeleteListed(t)
  <2> DEFINE n == call[t].n + 1
             j == elements[n]
             c == Later(call[t], "deleting", n)
  <2>1. call[t].op = "deleting" /\ n <= size
    BY <1>2 DEF DeleteListed
  <2>2. n \in 1 .. Len(elements) /\ j \in Job /\ n \in Nat
    <3>1. n \in Nat /\ n >= 1
      BY <1>0
    <3>2. n \in 1 .. Len(elements)
      BY <2>1, <3>1, SizeType
    <3>3. elements[n] \in Job
      BY <3>2, SizeType, ElementOfSeq
    <3> QED BY <3>1, <3>2, <3>3
  <2>3. /\ call' = [call EXCEPT ![t] = c]
        /\ UNCHANGED <<deleted, elements, size, held, kept, finalized, compiler, includer, heap, swap,
                       mishaps>>
    BY <1>2 DEF DeleteListed
  <2>4. call[t].job = NoJob
    BY <1>0, <2>1 DEF Typed, CallOK
  <2>a. c = Call("deleting", NoJob, call[t].inc, n) /\ "deleting" \in Op
    BY <2>4 DEF Later, Op
  <2>5. c \in CallType /\ c.op = "deleting" /\ c.job = NoJob /\ c.n = n
    <3>1. Call("deleting", NoJob, call[t].inc, n) \in CallType
      BY <1>0, <2>2, <2>a, CallTypes
    <3> QED BY <2>a, <3>1, CallFields
  <2>6. /\ jobDeleted' \in [Job -> BOOLEAN]
        /\ job' \in [Job -> {"none", "live", "freed"}]
        /\ name' \in [Job -> {"null", "owned", "stale"}]
        /\ fault' \in [memory : Memory, thread : Caller, job : Job \cup {NoJob}]
    <3>1. CASE jobDeleted[j]
      <4>1. UNCHANGED <<jobDeleted, job, name, fault>>
        BY <1>2, <3>1 DEF DeleteListed
      <4> QED BY <4>1 DEF Typed, TypeOK
    <3>2. CASE ~jobDeleted[j]
      <4>1. jobDeleted' = [jobDeleted EXCEPT ![j] = TRUE] /\ DestroyJob(t, j)
        BY <1>2, <3>2 DEF DeleteListed, DeletedAfter
      <4>2. jobDeleted' \in [Job -> BOOLEAN]
        BY <1>a, <4>1
      <4> HIDE DEF j, n
      <4> QED BY <1>0, <2>2, <4>1, <4>2, DestroyTypes
    <3> QED BY <3>1, <3>2
  <2>7. \A u \in Thread : swap[u] = NoSwap /\ (u # t => call[u].op = "idle")
    BY <2>1 DEF Typed, CloseOK
  <2> HIDE DEF c, j, n
  <2>8. CallOK' /\ CloseOK' /\ call' \in [Caller -> CallType]
    BY <2>1, <2>3, <2>5, <2>7, CallGoesOn
  <2> QED BY <2>3, <2>6, <2>8 DEF Typed, TypeOK, CallType
<1>3. CASE FreeCompiler(t)
  <2>1. call[t].op = "deleting"
    BY <1>3 DEF FreeCompiler
  <2>2. \/ Touches(t, "includer", NoJob) \/ Touches(t, "env", call[t].job)
        \/ /\ elements' = <<>> /\ size' = 0 /\ heap' = heap \ {includer} /\ includer' = Null
           /\ compiler' = FALSE /\ call' = [call EXCEPT ![t] = Idle]
           /\ UNCHANGED <<deleted, jobDeleted, held, kept, finalized, job, name, swap, fault, mishaps>>
    BY <1>3 DEF FreeCompiler, EnvFails, Without
  <2>3. CASE Touches(t, "includer", NoJob) \/ Touches(t, "env", call[t].job)
    BY <1>0, <2>3, TouchTypes DEF Memory
  <2>4. CASE /\ elements' = <<>> /\ size' = 0 /\ heap' = heap \ {includer} /\ includer' = Null
             /\ compiler' = FALSE /\ call' = [call EXCEPT ![t] = Idle]
             /\ UNCHANGED <<deleted, jobDeleted, held, kept, finalized, job, name, swap, fault, mishaps>>
    <3>1. elements' \in Seq(Job) /\ size' \in 0 .. Len(elements') /\ heap' \in SUBSET Includers
      BY <1>a, <2>4
    <3>2. call'[t] = Idle /\ \A u \in Caller : u # t => call'[u] = call[u]
      BY <1>0, <2>4, CallMoves DEF Typed
    <3>3. Idle.op = "idle" /\ Idle.job = NoJob /\ Idle \in CallType
      BY CallFields, CallTypes DEF Idle, Op
    <3>4. \A u \in Caller : call'[u].op \in {"idle", "freeing"}
      <4>1. \A u \in Thread : u # t => call[u].op = "idle"
        BY <2>1 DEF Typed, CloseOK
      <4>2. call[Finalizer].op \in {"idle", "freeing"}
        BY DEF Typed, CloseOK
      <4> QED BY <3>2, <3>3, <4>1, <4>2 DEF Caller
    <3>5. CallOK'
      BY <2>4, <3>2, <3>3, <3>4 DEF Typed, CallOK
    <3>6. CloseOK'
      <4>1. Finalizer \in Caller /\ \A u \in Thread : u \in Caller
        BY DEF Caller
      <4> QED BY <2>4, <3>4, <4>1 DEF Typed, CloseOK
    <3>7. call' \in [Caller -> CallType]
      BY <1>0, <2>4, <3>3, CallStays DEF Typed
    <3> QED BY <2>4, <3>1, <3>5, <3>6, <3>7 DEF Typed, TypeOK, CallType
  <2> QED BY <2>2, <2>3, <2>4
<1> QED BY <1>1, <1>2, <1>3

LEMMA TypeStep == ASSUME ObjectsAssumption, Typed, [Next]_vars PROVE Typed'
<1>1. CASE \E t \in Thread : Client(t) \/ Library(t)
  <2>1. PICK t \in Thread : Client(t) \/ Library(t)
    BY <1>1
  <2>2. CASE Client(t)
    <3>1. CASE \E j \in Job, named \in BOOLEAN : SetSource(t, j, named)
      BY <3>1, SourceTypes
    <3>2. CASE \E j \in Job : AddUniformBlock(t, j) \/ AddPreprocess(t, j)
      BY <3>2, SourceTypes
    <3>3. CASE (\E i \in Includer : SetIncluder(t, i)) \/ DeleteCompiler(t)
      BY <3>3, IncluderTypes, CloseTypes
    <3>4. CASE \E j \in Job : CreateJob(t, j)
      BY <3>4, CreateTypes
    <3>5. CASE \E j \in Job : CompileBegin(t, j)
      BY <3>5, CompileTypes
    <3>6. CASE \E j \in Job : ClientDeletesJob(t, j)
      BY <3>6, DeleteTypes
    <3> QED BY <2>2, <3>1, <3>2, <3>3, <3>4, <3>5, <3>6 DEF Client
  <2>3. CASE Library(t)
    <3>1. CASE \E parsed \in BOOLEAN : CompileEnds(t, parsed)
      BY <3>1, CompileTypes
    <3>2. CASE ParseStep(t)
      BY <3>2, ParseTypes
    <3>3. CASE IncludeSystem(t)
      <4>1. t \in Caller /\ call[t].job \in Job \cup {NoJob}
        BY DEF Caller, Typed, TypeOK
      <4>2. CASE Touches(t, "job", call[t].job) \/ Touches(t, "includer", call[t].job)
        BY <4>1, <4>2, TouchTypes DEF Memory
      <4>3. CASE /\ fault' = [memory |-> "method", thread |-> t, job |-> call[t].job]
                 /\ mishaps' = mishaps \cup {"systemInclude"}
                 /\ UNCHANGED <<wrappers, natives, includer, heap, call, swap>>
        <5>1. /\ fault' \in [memory : Memory, thread : Caller, job : Job \cup {NoJob}]
              /\ mishaps' \in SUBSET Mishap
          BY <4>1, <4>3 DEF Memory, Mishap, Typed, TypeOK
        <5>2. CallOK' /\ CloseOK' /\ call' \in [Caller -> CallType]
          BY <4>3, Quiet DEF wrappers
        <5> QED BY <4>3, <5>1, <5>2 DEF Typed, TypeOK, CallType, wrappers, natives
      <4> QED BY <3>3, <4>2, <4>3 DEF IncludeSystem
    <3>4. CASE AddJob(t) \/ FlagJob(t)
      BY <3>4, CreateTypes, DeleteTypes
    <3>5. CASE FreeIncluder(t) \/ AssignIncluder(t)
      BY <3>5, IncluderTypes
    <3>6. CASE DeleteListed(t) \/ FreeCompiler(t)
      BY <3>6, CloseTypes
    <3> QED BY <2>3, <3>1, <3>2, <3>3, <3>4, <3>5, <3>6 DEF Library, ParseStep
  <2> QED BY <2>1, <2>2, <2>3
<1>2. CASE \E t \in Caller : FreeJob(t)
  BY <1>2, DeleteTypes
<1>3. CASE Jvm
  BY <1>3, DropTypes, DeleteTypes DEF Jvm
<1>4. CASE UNCHANGED vars
  BY <1>4 DEF vars, wrappers, natives, Typed, TypeOK, CallOK, CloseOK
<1> QED BY <1>1, <1>2, <1>3, <1>4 DEF Next

\* The state has its types: what setSource, the callbacks, the finalizer and the
\* deletes leave of jobs, includers and calls (OpenShaderJni.cpp, ShaderCompiler.java).
THEOREM TypeCorrect == ASSUME ObjectsAssumption PROVE Spec => []TypeOK
<1>1. Init => Typed
  BY InitTypes
<1>2. Typed /\ [Next]_vars => Typed'
  BY TypeStep
<1>3. Typed => TypeOK
  BY DEF Typed
<1> QED BY <1>1, <1>2, <1>3, PTL DEF Spec

LEMMA TypedAlways == ASSUME ObjectsAssumption PROVE Spec => []Typed
<1>1. Init => Typed
  BY InitTypes
<1>2. Typed /\ [Next]_vars => Typed'
  BY TypeStep
<1> QED BY <1>1, <1>2, PTL DEF Spec

-----------------------------------------------------------------------------
(* Steps without a fault.  Every action needs the run to be up, so a step  *)
(* that ends up is what the action does when nothing it touches is gone.   *)

Noted ==
  /\ \A j \in Job : name'[j] = "stale" => name[j] = "stale" \/ "unnamed" \in mishaps'
  /\ UNCHANGED <<wrappers, compiler, job, includer, heap, call, swap>>

Begun(t, j) ==
  /\ call[t].op = "idle" /\ swap[t] = NoSwap /\ MayCallJob(j) /\ job[j] = "live" /\ compiler
  /\ call' = [call EXCEPT ![t] = Call("parsing", j, includer, 0)]
  /\ "includerRace" \in mishaps' \/ \A u \in Caller : swap[u] = NoSwap
  /\ UNCHANGED <<wrappers, natives, includer, heap, swap>>

Parsed(t) ==
  /\ call[t].op \in Scan /\ call[t].job \in Job
  /\ \E op \in Scan, n \in Nat :
       /\ call' = [call EXCEPT ![t] = Later(call[t], op, n)]
       /\ op = "throwing" => call[t].op = "throwing" \/ "thrown" \in mishaps'
  /\ UNCHANGED <<wrappers, natives, includer, heap, swap>>

Returned(t) ==
  /\ call[t].op \in Scan
  /\ call' = [call EXCEPT ![t] = Idle]
  /\ UNCHANGED <<wrappers, natives, includer, heap, swap>>

Destroyed(j) ==
  /\ job[j] = "live" /\ name[j] # "stale"
  /\ job' = [job EXCEPT ![j] = "freed"] /\ name' = [name EXCEPT ![j] = "null"]

Freed(t) ==
  /\ call[t].op = "freeing" /\ Destroyed(call[t].job)
  /\ call' = [call EXCEPT ![t] = Idle]
  /\ UNCHANGED <<wrappers, compiler, includer, heap, swap>>

SwapBegun(t, i) ==
  /\ InApp(t) /\ MayCallCompiler /\ i \notin heap
  /\ i \in Hollow => "nullIncluder" \in mishaps'
  /\ \/ "includerRace" \in mishaps'
     \/ \A u \in Caller : swap[u] = NoSwap /\ ~Parsing(u)
  /\ heap' = heap \cup {i} /\ swap' = [swap EXCEPT ![t] = Swapping("free", i)]
  /\ UNCHANGED <<wrappers, natives, includer, call>>

OldFreed(t) ==
  /\ swap[t].step = "free" /\ compiler /\ includer \in heap
  /\ heap' = heap \ {includer} /\ swap' = [swap EXCEPT ![t] = Swapping("assign", swap[t].inc)]
  /\ UNCHANGED <<wrappers, natives, includer, call>>

ListedDone(t) ==
  LET n == call[t].n + 1
      j == elements[n]
  IN
  /\ call[t].op = "deleting" /\ n <= size
  /\ \/ jobDeleted[j] /\ UNCHANGED <<jobDeleted, job, name>>
     \/ /\ ~jobDeleted[j] /\ Destroyed(j)
        /\ jobDeleted' = [jobDeleted EXCEPT ![j] = TRUE]
  /\ call' = [call EXCEPT ![t] = Later(call[t], "deleting", n)]
  /\ UNCHANGED <<deleted, elements, size, held, kept, finalized, compiler, includer, heap, swap>>

Closed(t) ==
  /\ call[t].op = "deleting" /\ call[t].n = size /\ includer \in heap
  /\ elements' = <<>> /\ size' = 0 /\ heap' = heap \ {includer} /\ includer' = Null
  /\ compiler' = FALSE /\ call' = [call EXCEPT ![t] = Idle]
  /\ UNCHANGED <<deleted, jobDeleted, held, kept, finalized, job, name, swap>>

ThreadStep(t) ==
  \/ Noted
  \/ \E j \in Job : CreateJob(t, j) \/ Begun(t, j) \/ ClientDeletesJob(t, j)
  \/ AddJob(t) \/ FlagJob(t) \/ Parsed(t) \/ Returned(t)
  \/ (\E i \in Includer : SwapBegun(t, i)) \/ OldFreed(t) \/ AssignIncluder(t)
  \/ DeleteCompiler(t) \/ ListedDone(t) \/ Closed(t)

LEMMA Stuck ==
  ASSUME NEW m \in Memory \ {"none"}, NEW t, NEW j, fault' = [memory |-> m, thread |-> t, job |-> j]
  PROVE  ~Up'
BY DEF Up, NoFault

LEMMA TouchStuck ==
  ASSUME NEW m \in Memory \ {"none"}, NEW t, NEW j, Touches(t, m, j)
  PROVE  ~Up'
BY Stuck DEF Touches

LEMMA EnvStuck == ASSUME NEW t, EnvFails(t) PROVE ~Up'
BY TouchStuck DEF EnvFails, Memory

LEMMA Doubtless ==
  /\ {"job", "compiler", "includer", "name", "exception", "method", "line", "env",
    "object"}
       \subseteq Memory \ {"none"}
BY DEF Memory

LEMMA DestroyClean ==
  ASSUME NEW t, NEW j, DestroyJob(t, j), Up'
  PROVE  Destroyed(j)
<1>1. CASE job[j] # "live"
  BY <1>1, Stuck, Doubtless DEF DestroyJob
<1>2. CASE job[j] = "live" /\ name[j] = "stale"
  BY <1>2, Stuck, Doubtless DEF DestroyJob
<1>3. CASE job[j] = "live" /\ name[j] # "stale"
  BY <1>3 DEF DestroyJob, Destroyed
<1> QED BY <1>1, <1>2, <1>3

\* What a client's step does.
LEMMA ClientClean ==
  ASSUME ObjectsAssumption, Typed, NEW t \in Thread, Client(t), Up'
  PROVE  Up /\ ThreadStep(t)
<1> USE DEF wrappers, natives
<1>1. CASE \E j \in Job : CreateJob(t, j) \/ ClientDeletesJob(t, j)
  BY <1>1 DEF CreateJob, ClientDeletesJob, Free, ThreadStep
<1>2. CASE \E j \in Job : CompileBegin(t, j)
  <2>1. PICK j \in Job : CompileBegin(t, j)
    BY <1>2
  <2>2. job[j] = "live" /\ compiler
    BY <2>1, TouchStuck, Doubtless DEF CompileBegin
  <2>3. /\ Up /\ call[t].op = "idle" /\ swap[t] = NoSwap /\ MayCallJob(j)
        /\ call' = [call EXCEPT ![t] = Call("parsing", j, includer, 0)]
        /\ mishaps' = mishaps \cup
             (IF \E u \in Caller : swap[u] # NoSwap THEN {"includerRace"} ELSE {})
        /\ UNCHANGED <<wrappers, natives, includer, heap, swap, fault>>
    BY <2>1, <2>2 DEF CompileBegin, Free
  <2>4. "includerRace" \in mishaps' \/ \A u \in Caller : swap[u] = NoSwap
    BY <2>3
  <2>5. Begun(t, j)
    BY <2>2, <2>3, <2>4 DEF Begun
  <2> QED BY <2>3, <2>5 DEF ThreadStep
<1>3. CASE \E j \in Job : AddUniformBlock(t, j)
  <2>1. PICK j \in Job : AddUniformBlock(t, j)
    BY <1>3
  <2>2. Up /\ UNCHANGED <<wrappers, natives, includer, heap, call, swap>>
    BY <2>1, EnvStuck DEF AddUniformBlock, Free
  <2>3. Noted
    BY <2>2 DEF Noted
  <2> QED BY <2>2, <2>3 DEF ThreadStep
<1>4. CASE \E j \in Job : AddPreprocess(t, j)
  BY <1>4, Stuck, Doubtless DEF AddPreprocess
<1>5. CASE \E j \in Job, named \in BOOLEAN : SetSource(t, j, named)
  <2>1. PICK j \in Job : \E named \in BOOLEAN : SetSource(t, j, named)
    BY <1>5
  <2>2. PICK named \in BOOLEAN : SetSource(t, j, named)
    BY <2>1
  <2>3. job[j] = "live" /\ name[j] # "stale"
    BY <2>2, TouchStuck, Doubtless DEF SetSource
  <2>4. /\ Up /\ name' = [name EXCEPT ![j] = FilenameAfter(j, named)]
        /\ mishaps' = mishaps \cup (IF FilenameAfter(j, named) = "stale" THEN {"unnamed"} ELSE {})
        /\ UNCHANGED <<wrappers, compiler, job, includer, heap, call, swap, fault>>
    BY <2>2, <2>3 DEF SetSource, Free
  <2>5. name \in [Job -> {"null", "owned", "stale"}]
    BY DEF Typed, TypeOK
  <2>6. \A k \in Job : name'[k] = "stale" => name[k] = "stale" \/ "unnamed" \in mishaps'
    BY <2>4, <2>5
  <2>7. Noted
    BY <2>4, <2>6 DEF Noted
  <2> QED BY <2>4, <2>7 DEF ThreadStep
<1>6. CASE \E i \in Includer : SetIncluder(t, i)
  <2>1. PICK i \in Includer : SetIncluder(t, i)
    BY <1>6
  <2>2. ~EnvFails(t)
    BY EnvStuck
  <2>3. /\ InApp(t) /\ MayCallCompiler /\ i \notin heap
        /\ mishaps' = mishaps
             \cup (IF t = Loader THEN {} ELSE {"foreignEnv"})
             \cup (IF \E u \in Caller : swap[u] # NoSwap \/ Parsing(u)
                   THEN {"includerRace"} ELSE {})
             \cup (IF i \in Hollow THEN {"nullIncluder"} ELSE {})
        /\ heap' = heap \cup {i} /\ swap' = [swap EXCEPT ![t] = Swapping("free", i)]
        /\ UNCHANGED <<wrappers, natives, includer, call, fault>>
    BY <2>1, <2>2 DEF SetIncluder
  <2>4. "includerRace" \in mishaps' \/ \A u \in Caller : swap[u] = NoSwap /\ ~Parsing(u)
    BY <2>3
  <2>a. i \in Hollow => "nullIncluder" \in mishaps'
    BY <2>3
  <2>5. SwapBegun(t, i) /\ Up
    BY <2>3, <2>4, <2>a DEF SwapBegun, InApp
  <2> QED BY <2>5 DEF ThreadStep
<1>7. CASE DeleteCompiler(t)
  BY <1>7 DEF DeleteCompiler, Free, ThreadStep
<1> QED BY <1>1, <1>2, <1>3, <1>4, <1>5, <1>6, <1>7 DEF Client

\* What a step of the library does.
LEMMA LibraryClean ==
  ASSUME ObjectsAssumption, Typed, NEW t \in Thread, Library(t), Up'
  PROVE  Up /\ ThreadStep(t)
<1> USE DEF wrappers, natives
<1>1. CASE AddJob(t) \/ FlagJob(t) \/ AssignIncluder(t)
  BY <1>1 DEF AddJob, FlagJob, AssignIncluder, ThreadStep
<1>2. CASE IncludeLocal(t)
  <2>1. job[call[t].job] = "live" /\ call[t].inc \in heap
    BY <1>2, TouchStuck, Doubtless DEF IncludeLocal
  <2>2. call[t].op \in Scan /\ call[t].job \in Job /\ call[t].n \in Nat
    BY <1>2, ParseMoves, CallerTypes DEF ParseStep, Caller
  <2>3. /\ Up /\ call' = [call EXCEPT ![t] = Later(call[t], "callback", call[t].n)]
        /\ UNCHANGED <<wrappers, natives, includer, heap, swap>>
    BY <1>2, <2>1, EnvStuck, TouchStuck, Doubtless DEF IncludeLocal
  <2>4. "callback" \in Scan /\ "callback" # "throwing"
    BY DEF Scan
  <2>5. Parsed(t)
    BY <2>2, <2>3, <2>4 DEF Parsed
  <2> QED BY <2>3, <2>5 DEF ThreadStep
<1>3. CASE IncludeSystem(t)
  BY <1>3, Stuck, TouchStuck, Doubtless DEF IncludeSystem
<1>4. CASE ReleaseInclude(t)
  <2>1. job[call[t].job] = "live" /\ call[t].inc \in heap
    BY <1>4, TouchStuck, Doubtless DEF ReleaseInclude
  <2>2. call[t].op \in Scan /\ call[t].job \in Job /\ call[t].n \in Nat
    BY <1>4, ParseMoves, CallerTypes DEF ParseStep, Caller
  <2>3. /\ Up /\ call' = [call EXCEPT ![t] = Later(call[t], call[t].op, call[t].n - 1)]
        /\ call[t].n > 0
        /\ UNCHANGED <<wrappers, natives, includer, heap, swap>>
    BY <1>4, <2>1 DEF ReleaseInclude
  <2>4. call[t].n - 1 \in Nat
    BY <2>2, <2>3
  <2>5. Parsed(t)
    BY <2>2, <2>3, <2>4 DEF Parsed
  <2> QED BY <2>3, <2>5 DEF ThreadStep
<1>5. CASE \E result \in {"header", "null", "throws"} : CallbackReturns(t, result)
  <2>1. PICK result \in {"header", "null", "throws"} : CallbackReturns(t, result)
    BY <1>5
  <2>2. call[t].op \in Scan /\ call[t].job \in Job /\ call[t].n \in Nat
    BY <1>5, ParseMoves, CallerTypes DEF ParseStep, Caller
  <2>3. /\ Up /\ call' = [call EXCEPT ![t] = Answered(call[t], result)]
        /\ mishaps' = mishaps \cup (IF result = "throws" THEN {"thrown"} ELSE {})
        /\ UNCHANGED <<wrappers, natives, includer, heap, swap>>
    BY <2>1, EnvStuck, TouchStuck, Doubtless DEF CallbackReturns
  <2> DEFINE op == IF result = "throws" THEN "throwing" ELSE "parsing"
             n == IF result = "header" THEN call[t].n + 1 ELSE call[t].n
  <2>4. n \in Nat
    BY <2>2
  <2>5. op \in Scan /\ (op = "throwing" => "thrown" \in mishaps')
    BY <2>3 DEF Scan
  <2>6. call' = [call EXCEPT ![t] = Later(call[t], op, n)]
    BY <2>3 DEF Answered
  <2> HIDE DEF op, n
  <2>7. Parsed(t)
    BY <2>2, <2>3, <2>4, <2>5, <2>6 DEF Parsed
  <2> QED BY <2>3, <2>7 DEF ThreadStep
<1>6. CASE \E parsed \in BOOLEAN : CompileEnds(t, parsed)
  <2>1. PICK parsed \in BOOLEAN : CompileEnds(t, parsed)
    BY <1>6
  <2>2. /\ Up /\ call' = [call EXCEPT ![t] = Idle] /\ call[t].op \in Scan
        /\ UNCHANGED <<wrappers, natives, includer, heap, swap>>
    BY <2>1, TouchStuck, Doubtless DEF CompileEnds, Scanning, Scan
  <2>3. Returned(t)
    BY <2>2 DEF Returned
  <2> QED BY <2>2, <2>3 DEF ThreadStep
<1>7. CASE FreeIncluder(t)
  <2>1. compiler /\ includer \in heap
    BY <1>7, TouchStuck, Doubtless DEF FreeIncluder
  <2>2. Up /\ OldFreed(t)
    BY <1>7, <2>1, EnvStuck DEF FreeIncluder, Without, OldFreed
  <2> QED BY <2>2 DEF ThreadStep
<1>8. CASE DeleteListed(t)
  <2> DEFINE j == elements[call[t].n + 1]
  <2>1. CASE jobDeleted[j]
    <3>1. Up /\ ListedDone(t)
      BY <1>8, <2>1 DEF DeleteListed, ListedDone
    <3> QED BY <3>1 DEF ThreadStep
  <2>2. CASE ~jobDeleted[j]
    <3>1. DestroyJob(t, j) /\ jobDeleted' = [jobDeleted EXCEPT ![j] = TRUE]
      BY <1>8, <2>2 DEF DeleteListed, DeletedAfter
    <3>2. Destroyed(j)
      BY <3>1, DestroyClean
    <3>3. Up /\ ListedDone(t)
      BY <1>8, <2>2, <3>1, <3>2 DEF DeleteListed, ListedDone
    <3> QED BY <3>3 DEF ThreadStep
  <2> QED BY <2>1, <2>2
<1>9. CASE FreeCompiler(t)
  <2>1. includer \in heap
    BY <1>9, TouchStuck, Doubtless DEF FreeCompiler
  <2>2. Up /\ Closed(t)
    BY <1>9, <2>1, EnvStuck DEF FreeCompiler, Without, Closed
  <2> QED BY <2>2 DEF ThreadStep
<1> QED BY <1>1, <1>2, <1>3, <1>4, <1>5, <1>6, <1>7, <1>8, <1>9 DEF Library

\* A step that ends without a fault began without one.
LEMMA CleanSteps ==
  ASSUME ObjectsAssumption, Typed, [Next]_vars, Up'
  PROVE  /\ Up
         /\ \/ \E t \in Thread : ThreadStep(t)
            \/ \E t \in Caller : Freed(t)
            \/ DropCompiler
            \/ \E j \in Job : DropJob(j) \/ Finalize(j)
            \/ UNCHANGED vars
<1>1. CASE \E t \in Thread : Client(t) \/ Library(t)
  BY <1>1, ClientClean, LibraryClean
<1>2. CASE \E t \in Caller : FreeJob(t)
  <2>1. PICK t \in Caller : FreeJob(t)
    BY <1>2
  <2>2. Destroyed(call[t].job)
    BY <2>1, DestroyClean DEF FreeJob
  <2>3. Freed(t) /\ Up
    BY <2>1, <2>2 DEF FreeJob, Freed
  <2> QED BY <2>3
<1>3. CASE Jvm
  <2>1. CASE DropCompiler
    BY <2>1 DEF DropCompiler
  <2>2. CASE \E j \in Job : DropJob(j) \/ Finalize(j)
    BY <2>2 DEF DropJob, Finalize, Free
  <2> QED BY <1>3, <2>1, <2>2 DEF Jvm
<1>4. CASE UNCHANGED vars
  BY <1>4 DEF vars, Up
<1> QED BY <1>1, <1>2, <1>3, <1>4 DEF Next

-----------------------------------------------------------------------------
(* What holds of a run that is up.                                         *)

InCall(j) == \E t \in Caller : call[t].op = "freeing" /\ call[t].job = j

\* A careful client's delete of a job, from the test of the flag to the native.
Ending == {"testing", "freeing"}

\* A job that was not created is nowhere; freeing follows the flag, once.
FateInv ==
  /\ \A j \in Job : job[j] = "none" =>
       /\ ~jobDeleted[j] /\ j \notin held
       /\ \A t \in Caller : call[t].job # j
       /\ \A k \in 1 .. Len(elements) : elements[k] # j
  /\ \A j \in Job : job[j] = "freed" <=> jobDeleted[j] /\ ~InCall(j)
  /\ \A t \in Caller : call[t].op = "freeing" => jobDeleted[call[t].job]
  /\ \A t \in Caller : call[t].op = "testing" => ~jobDeleted[call[t].job]
  /\ \A t, u \in Caller :
       call[t].op \in Ending /\ call[u].op \in Ending /\ call[t].job = call[u].job => t = u

Base == IF compiler THEN {includer} ELSE {}

\* One setIncluder at a time, and what it has left of the includers.
SwapInv ==
  /\ \A t, u \in Caller : swap[t] # NoSwap /\ swap[u] # NoSwap => t = u
  /\ (\A t \in Caller : swap[t] = NoSwap) => heap = Base
  /\ \A t \in Caller : swap[t].step = "free" =>
       swap[t].inc \notin Base /\ heap = Base \cup {swap[t].inc}
  /\ \A t \in Caller : swap[t].step = "assign" => heap = {swap[t].inc} /\ compiler

\* A careful client's calls find the compiler: it is there until delete's last step.
LifeInv ==
  /\ (compiler <=> ~deleted \/ Closing) /\ (Closing => deleted)
  /\ \A t \in Caller : swap[t] # NoSwap \/ call[t].op = "adding" => ~deleted
  /\ \A t \in Caller : Parsing(t) => compiler /\ ~Closing

Listed(j, n) == \E k \in 1 .. n : elements[k] = j

\* Without a lost add, a careful client's live jobs are in the list or on their way.
ListInv ==
  /\ ~compiler => \A j \in Job : job[j] # "live"
  /\ \A j \in Job : job[j] = "live" /\ ~jobDeleted[j] =>
       Listed(j, size) \/ \E t \in Caller : call[t].op = "adding" /\ call[t].job = j
  /\ \A t \in Caller : call[t].op = "deleting" =>
       \A k \in 1 .. call[t].n : jobDeleted[elements[k]]
  /\ call[Finalizer].op = "freeing" => ~kept /\ ~Closing

\* Without a race a parse has the compiler's includer.
ParseInv ==
  \A t \in Caller : Parsing(t) =>
    call[t].inc = includer /\ \A u \in Caller : swap[u] = NoSwap

\* An includer that has no Java object was made by setIncluder(null).
HollowInv ==
  /\ includer \in Hollow => "nullIncluder" \in mishaps
  /\ \A t \in Caller :
       call[t].inc \in Hollow \/ swap[t].inc \in Hollow => "nullIncluder" \in mishaps

\* What the client's mishaps explain.
UseInv ==
  /\ \A j \in Job : name[j] = "stale" => "unnamed" \in mishaps
  /\ \A t \in Caller : call[t].op = "throwing" => "thrown" \in mishaps
  /\ \A t \in Caller : Parsing(t) => job[call[t].job] = "live" \/ "finalizedInUse" \in mishaps
  /\ \A t, u \in Caller : Parsing(t) /\ call[u].op \in Ending /\ call[t].job = call[u].job =>
       "finalizedInUse" \in mishaps

-----------------------------------------------------------------------------
(* A job's flag tells its fate.                                            *)

\* Steps that set no flag and free no job.
LEMMA FateStill ==
  ASSUME Typed, FateInv, UNCHANGED <<job, jobDeleted>>,
         \A j \in Job : job[j] = "none" =>
           j \notin held' /\ \A k \in 1 .. Len(elements') : elements'[k] # j,
         \A t \in Caller :
           \/ call'[t] = call[t]
           \/ /\ call[t].op \notin Ending /\ call'[t].op \notin Ending
              /\ call'[t].job \in Job => job[call'[t].job] # "none"
  PROVE  FateInv'
<1>1. \A j \in Job : job'[j] = "none" =>
        /\ ~jobDeleted'[j] /\ j \notin held'
        /\ \A t \in Caller : call'[t].job # j
        /\ \A k \in 1 .. Len(elements') : elements'[k] # j
  BY DEF FateInv
<1>2. \A j \in Job : InCall(j)' <=> InCall(j)
  BY DEF InCall, Ending
<1>3. \A t \in Caller : call'[t].op \in Ending => call'[t] = call[t]
  OBVIOUS
<1>4. \A t \in Caller :
        /\ call'[t].op = "freeing" => jobDeleted'[call'[t].job]
        /\ call'[t].op = "testing" => ~jobDeleted'[call'[t].job]
  BY <1>3 DEF FateInv, Ending
<1>5. \A t, u \in Caller :
        call'[t].op \in Ending /\ call'[u].op \in Ending /\ call'[t].job = call'[u].job => t = u
  BY <1>3 DEF FateInv
<1>6. \A j \in Job : job'[j] = "freed" <=> jobDeleted'[j] /\ ~InCall(j)'
  BY <1>2 DEF FateInv
<1> QED BY <1>1, <1>4, <1>5, <1>6 DEF FateInv

\* A client that tests a flag that is not set is the only one to end the job.
LEMMA FateTested ==
  ASSUME ObjectsAssumption, Careful, Typed, FateInv, NEW t \in Thread, NEW j \in Job,
         ClientDeletesJob(t, j)
  PROVE  FateInv'
<1>1. /\ call[t].op = "idle" /\ j \in held /\ ~InUse(j) /\ ~jobDeleted[j] /\ t \in Caller
      /\ call' = [call EXCEPT ![t] = Call("testing", j, Null, 0)]
      /\ UNCHANGED <<job, jobDeleted, elements, held>>
  BY DEF ClientDeletesJob, MayDeleteJob, Free, wrappers, natives, Caller
<1>2. /\ call'[t].op = "testing" /\ call'[t].job = j
      /\ \A u \in Caller : u # t => call'[u] = call[u]
  BY <1>1, CallTurns DEF Typed
<1>3. job[j] # "none" /\ \A u \in Caller : call[u].job # j
  BY <1>1 DEF FateInv, InUse, Using
<1>4. \A k \in Job : job'[k] = "none" =>
        /\ ~jobDeleted'[k] /\ k \notin held'
        /\ \A u \in Caller : call'[u].job # k
        /\ \A m \in 1 .. Len(elements') : elements'[m] # k
  BY <1>1, <1>2, <1>3 DEF FateInv
<1>5. \A k \in Job : InCall(k)' <=> InCall(k)
  BY <1>1, <1>2 DEF InCall
<1>6. \A k \in Job : job'[k] = "freed" <=> jobDeleted'[k] /\ ~InCall(k)'
  BY <1>1, <1>5 DEF FateInv
<1>7. \A u \in Caller :
        /\ call'[u].op = "freeing" => jobDeleted'[call'[u].job]
        /\ call'[u].op = "testing" => ~jobDeleted'[call'[u].job]
  BY <1>1, <1>2 DEF FateInv
<1>8. \A u, v \in Caller :
        call'[u].op \in Ending /\ call'[v].op \in Ending /\ call'[u].job = call'[v].job => u = v
  BY <1>1, <1>2, <1>3 DEF FateInv
<1> QED BY <1>4, <1>6, <1>7, <1>8 DEF FateInv

\* The flag of a job is set by whoever goes on to free it.
Flagged(t, j) ==
  /\ call[t].op # "freeing" /\ job[j] # "none" /\ ~jobDeleted[j]
  /\ \A u \in Caller : u # t /\ call[u].op \in Ending => call[u].job # j
  /\ jobDeleted' = [jobDeleted EXCEPT ![j] = TRUE]
  /\ call' = [call EXCEPT ![t] = Call("freeing", j, Null, 0)]
  /\ UNCHANGED <<job, elements, held>>

LEMMA FateFlagged ==
  ASSUME ObjectsAssumption, Typed, FateInv, NEW t \in Caller, NEW j \in Job, Flagged(t, j)
  PROVE  FateInv'
<1> USE DEF Flagged
<1>1. /\ call'[t].op = "freeing" /\ call'[t].job = j
      /\ \A u \in Caller : u # t => call'[u] = call[u]
  <2>1. call'[t] = Call("freeing", j, Null, 0) /\ \A u \in Caller : u # t => call'[u] = call[u]
    BY CallMoves DEF Typed
  <2> QED BY <2>1, CallFields
<1>2. \A k \in Job : jobDeleted'[k] = IF k = j THEN TRUE ELSE jobDeleted[k]
  BY DEF Typed, TypeOK
<1>3. \A u \in Caller : call[u].op = "freeing" => call[u].job # j /\ u # t
  BY DEF FateInv
<1>4. \A k \in Job : job'[k] = "none" =>
        /\ ~jobDeleted'[k] /\ k \notin held'
        /\ \A u \in Caller : call'[u].job # k
        /\ \A m \in 1 .. Len(elements') : elements'[m] # k
  BY <1>1, <1>2 DEF FateInv
<1>5. \A k \in Job : InCall(k)' <=> k = j \/ InCall(k)
  BY <1>1, <1>3 DEF InCall
<1>6. \A k \in Job : job'[k] = "freed" <=> jobDeleted'[k] /\ ~InCall(k)'
  BY <1>2, <1>5 DEF FateInv
<1>7. ASSUME NEW u \in Caller
      PROVE  /\ call'[u].op = "freeing" => jobDeleted'[call'[u].job]
             /\ call'[u].op = "testing" => ~jobDeleted'[call'[u].job]
  <2>1. CASE u = t
    BY <1>1, <1>2, <2>1
  <2>2. CASE u # t /\ call[u].op \in Ending
    <3>1. call'[u] = call[u] /\ call[u].job \in Job /\ call[u].job # j
      BY <1>1, <2>2, CallerTypes DEF Ending
    <3> QED BY <1>2, <3>1 DEF FateInv
  <2>3. CASE u # t /\ call[u].op \notin Ending
    BY <1>1, <2>3 DEF Ending
  <2> QED BY <2>1, <2>2, <2>3
<1>8. \A u, v \in Caller :
        call'[u].op \in Ending /\ call'[v].op \in Ending /\ call'[u].job = call'[v].job => u = v
  BY <1>1 DEF FateInv
<1> QED BY <1>4, <1>6, <1>7, <1>8 DEF FateInv

LEMMA FateFreed ==
  ASSUME ObjectsAssumption, Typed, FateInv, NEW t \in Caller, Freed(t)
  PROVE  FateInv'
<1> DEFINE j == call[t].job
<1>1. /\ call[t].op = "freeing" /\ call' = [call EXCEPT ![t] = Idle]
      /\ job' = [job EXCEPT ![j] = "freed"] /\ UNCHANGED <<jobDeleted, elements, held>>
  BY DEF Freed, Destroyed, wrappers
<1>2. j \in Job
  BY <1>1, CallerTypes
<1>3. /\ call'[t].op = "idle" /\ call'[t].job = NoJob
      /\ \A u \in Caller : u # t => call'[u] = call[u]
  BY <1>1, CallTurns DEF Typed, Idle
<1>4. \A k \in Job : job'[k] = IF k = j THEN "freed" ELSE job[k]
  BY <1>1, <1>2 DEF Typed, TypeOK
<1> HIDE DEF j
<1>5. \A k \in Job : job'[k] = "none" =>
        /\ ~jobDeleted'[k] /\ k \notin held'
        /\ \A u \in Caller : call'[u].job # k
        /\ \A m \in 1 .. Len(elements') : elements'[m] # k
  BY <1>1, <1>3, <1>4 DEF FateInv, ObjectsAssumption
<1>6. \A k \in Job : InCall(k)' <=> k # j /\ InCall(k)
  BY <1>1, <1>2, <1>3 DEF FateInv, InCall, Ending, j
<1>7. \A k \in Job : job'[k] = "freed" <=> jobDeleted'[k] /\ ~InCall(k)'
  BY <1>1, <1>4, <1>6 DEF FateInv, j
<1>8. /\ \A u \in Caller : call'[u].op = "freeing" => jobDeleted'[call'[u].job]
      /\ \A u \in Caller : call'[u].op = "testing" => ~jobDeleted'[call'[u].job]
      /\ \A u, v \in Caller :
           call'[u].op \in Ending /\ call'[v].op \in Ending /\ call'[u].job = call'[v].job => u = v
  BY <1>1, <1>3 DEF FateInv, Ending
<1> QED BY <1>5, <1>7, <1>8 DEF FateInv

\* A job's place in the list, and the job there.
LEMMA NextListed ==
  ASSUME ObjectsAssumption, Typed, NEW t \in Thread, call[t].n + 1 <= size
  PROVE  call[t].n + 1 \in 1 .. Len(elements) /\ elements[call[t].n + 1] \in Job
<1>1. call[t].n \in Nat
  BY CallerTypes DEF Caller
<1>2. call[t].n + 1 \in 1 .. Len(elements)
  BY <1>1, SizeType
<1> QED BY <1>2, SizeType, ElementOfSeq

LEMMA FateListed ==
  ASSUME ObjectsAssumption, Typed, FateInv, NEW t \in Thread, ListedDone(t)
  PROVE  FateInv'
<1> DEFINE n == call[t].n + 1
           j == elements[n]
<1>0. t \in Caller /\ call[t].op = "deleting" /\ n <= size
  BY DEF Caller, ListedDone
<1>1. /\ call' = [call EXCEPT ![t] = Later(call[t], "deleting", n)]
      /\ UNCHANGED <<elements, held>>
  BY DEF ListedDone
<1>2. j \in Job /\ n \in 1 .. Len(elements)
  BY <1>0, NextListed
<1>3. /\ call'[t].op = "deleting" /\ call'[t].job = NoJob
      /\ \A u \in Caller : u # t => call'[u] = call[u]
  <2>1. call[t].job = NoJob
    BY <1>0 DEF Typed, CallOK
  <2>2. Later(call[t], "deleting", n).op = "deleting" /\ Later(call[t], "deleting", n).job = NoJob
    BY <2>1, CallFields DEF Later
  <2> QED BY <1>0, <1>1, <2>2, CallMoves DEF Typed
<1>4. CASE jobDeleted[j] /\ UNCHANGED <<jobDeleted, job, name>>
  <2> HIDE DEF j, n
  <2>1. \A u \in Caller : call'[u] = call[u]
          \/ (call[u].op \notin Ending /\ call'[u].op \notin Ending /\ call'[u].job \notin Job)
    BY <1>0, <1>3 DEF ObjectsAssumption, Ending
  <2>2. \A k \in Job : job[k] = "none" => k \notin held' /\ \A m \in 1 .. Len(elements') : elements'[m] # k
    BY <1>1 DEF FateInv
  <2> QED BY <1>4, <2>1, <2>2, FateStill
<1>5. CASE ~jobDeleted[j] /\ Destroyed(j) /\ jobDeleted' = [jobDeleted EXCEPT ![j] = TRUE]
  <2> HIDE DEF j, n
  <2>1. /\ \A k \in Job : job'[k] = IF k = j THEN "freed" ELSE job[k]
        /\ \A k \in Job : jobDeleted'[k] = IF k = j THEN TRUE ELSE jobDeleted[k]
    BY <1>2, <1>5 DEF Destroyed, Typed, TypeOK
  <2>2. \A u \in Caller : call[u].op = "freeing" => call[u].job # j /\ call[u].job \in Job
    BY <1>5, CallerTypes DEF FateInv
  <2>a. \A u \in Caller : call[u].op # "testing"
    BY <1>0 DEF Typed, CloseOK, Caller
  <2>3. \A u \in Caller : call'[u].op \in Ending => call'[u] = call[u] /\ call[u].op = "freeing"
    BY <1>0, <1>3, <2>a DEF Ending
  <2>4. \A u \in Caller : call[u].op = "freeing" => call'[u] = call[u]
    BY <1>0, <1>3
  <2>5. \A k \in Job : InCall(k)' <=> k # j /\ InCall(k)
    BY <2>2, <2>3, <2>4 DEF InCall, Ending
  <2>6. \A k \in Job : job'[k] = "none" =>
          /\ ~jobDeleted'[k] /\ k \notin held'
          /\ \A u \in Caller : call'[u].job # k
          /\ \A m \in 1 .. Len(elements') : elements'[m] # k
    <3> SUFFICES ASSUME NEW k \in Job, job'[k] = "none"
                 PROVE  /\ ~jobDeleted'[k] /\ k \notin held'
                        /\ \A u \in Caller : call'[u].job # k
                        /\ \A m \in 1 .. Len(elements') : elements'[m] # k
      OBVIOUS
    <3>1. job[k] = "none" /\ jobDeleted'[k] = jobDeleted[k]
      BY <2>1
    <3>2. \A u \in Caller : call'[u].job # k
      BY <1>3, <3>1 DEF FateInv, ObjectsAssumption
    <3> QED BY <1>1, <3>1, <3>2 DEF FateInv
  <2>7. \A k \in Job : job'[k] = "freed" <=> jobDeleted'[k] /\ ~InCall(k)'
    BY <2>1, <2>5 DEF FateInv
  <2>8. \A u \in Caller :
          /\ call'[u].op = "freeing" => jobDeleted'[call'[u].job]
          /\ call'[u].op # "testing"
    BY <2>1, <2>2, <2>3 DEF FateInv, Ending
  <2>9. \A u, v \in Caller :
          call'[u].op \in Ending /\ call'[v].op \in Ending /\ call'[u].job = call'[v].job => u = v
    BY <2>3 DEF FateInv, Ending
  <2> QED BY <2>6, <2>7, <2>8, <2>9 DEF FateInv
<1> QED BY <1>4, <1>5 DEF ListedDone

LEMMA FateCreated ==
  ASSUME ObjectsAssumption, Typed, FateInv, NEW t \in Thread, NEW j \in Job, CreateJob(t, j)
  PROVE  FateInv'
<1>1. /\ call' = [call EXCEPT ![t] = Call("adding", j, Null, size)] /\ call[t].op = "idle"
      /\ job' = [job EXCEPT ![j] = "live"] /\ job[j] = "none"
      /\ UNCHANGED <<jobDeleted, elements, held>> /\ t \in Caller
  BY DEF CreateJob, Free, wrappers, Caller
<1>2. /\ call'[t].op = "adding" /\ call'[t].job = j
      /\ \A u \in Caller : u # t => call'[u] = call[u]
  BY <1>1, CallTurns DEF Typed
<1>3. \A k \in Job : job'[k] = IF k = j THEN "live" ELSE job[k]
  BY <1>1 DEF Typed, TypeOK
<1>4. \A k \in Job : InCall(k)' <=> InCall(k)
  BY <1>1, <1>2 DEF InCall
<1>5. \A k \in Job : job'[k] = "none" =>
        /\ ~jobDeleted'[k] /\ k \notin held'
        /\ \A u \in Caller : call'[u].job # k
        /\ \A m \in 1 .. Len(elements') : elements'[m] # k
  BY <1>1, <1>2, <1>3 DEF FateInv
<1>6. \A k \in Job : job'[k] = "freed" <=> jobDeleted'[k] /\ ~InCall(k)'
  BY <1>1, <1>3, <1>4 DEF FateInv
<1>7. /\ \A u \in Caller : call'[u].op = "freeing" => jobDeleted'[call'[u].job]
      /\ \A u \in Caller : call'[u].op = "testing" => ~jobDeleted'[call'[u].job]
      /\ \A u, v \in Caller :
           call'[u].op \in Ending /\ call'[v].op \in Ending /\ call'[u].job = call'[v].job => u = v
  BY <1>1, <1>2 DEF FateInv, Ending
<1> QED BY <1>5, <1>6, <1>7 DEF FateInv

LEMMA FateAdded ==
  ASSUME ObjectsAssumption, Typed, FateInv, NEW t \in Thread, AddJob(t)
  PROVE  FateInv'
<1> DEFINE j == call[t].job
           n == call[t].n
<1>1. /\ call' = [call EXCEPT ![t] = Idle] /\ call[t].op = "adding" /\ t \in Caller
      /\ elements' = Remember(n, j) /\ held' = held \cup {j}
      /\ UNCHANGED <<job, jobDeleted>>
  BY DEF AddJob, natives, Caller
<1>2. j \in Job /\ n \in Nat /\ n <= Len(elements) /\ job[j] # "none"
  <2>1. j \in Job /\ n \in Nat
    BY <1>1, CallerTypes
  <2>2. n <= Len(elements)
    BY <1>1 DEF Typed, CallOK
  <2>3. job[j] # "none"
    BY <1>1, <2>1 DEF FateInv
  <2> QED BY <2>1, <2>2, <2>3
<1>3. call'[t].op = "idle" /\ call'[t].job = NoJob /\ \A u \in Caller : u # t => call'[u] = call[u]
  BY <1>1, CallTurns DEF Typed, Idle
<1> HIDE DEF j, n
<1>4. \A k \in 1 .. Len(elements') : elements'[k] = j \/ \E m \in 1 .. Len(elements) : elements'[k] = elements[m]
  BY <1>1, <1>2, RememberTypes
<1>5. \A k \in Job : job[k] = "none" => k \notin held' /\ \A m \in 1 .. Len(elements') : elements'[m] # k
  BY <1>1, <1>2, <1>4 DEF FateInv
<1>6. \A u \in Caller : call'[u] = call[u]
        \/ (call[u].op \notin Ending /\ call'[u].op \notin Ending /\ call'[u].job \notin Job)
  BY <1>1, <1>3 DEF ObjectsAssumption, Ending
<1> QED BY <1>1, <1>5, <1>6, FateStill

LEMMA FateStep ==
  ASSUME ObjectsAssumption, Careful, Typed, FateInv, [Next]_vars, Up'
  PROVE  FateInv'
<1>0. Thread \subseteq Caller /\ Finalizer \in Caller
  BY DEF Caller
<1>a. \A j \in held : job[j] # "none"
  BY DEF FateInv, Typed, TypeOK
<1>b. ASSUME UNCHANGED <<job, jobDeleted, elements>>, held' \subseteq held,
             NEW t \in Caller, call[t].op \notin Ending,
             \/ call' = call
             \/ \E op \in Op \ Ending, i \in Includers \cup {Null}, n \in Nat,
                   j \in held \cup {call[t].job, NoJob} :
                  call' = [call EXCEPT ![t] = Call(op, j, i, n)]
      PROVE  FateInv'
  <2>1. \A j \in Job : job[j] = "none" =>
          j \notin held' /\ \A k \in 1 .. Len(elements') : elements'[k] # j
    BY <1>b DEF FateInv
  <2>2. CASE call' = call
    BY <1>b, <2>1, <2>2, FateStill
  <2>3. CASE \E op \in Op \ Ending, i \in Includers \cup {Null}, n \in Nat,
               j \in held \cup {call[t].job, NoJob} :
             call' = [call EXCEPT ![t] = Call(op, j, i, n)]
    <3>1. PICK op \in Op \ Ending, i \in Includers \cup {Null}, n \in Nat,
               j \in held \cup {call[t].job, NoJob} :
             call' = [call EXCEPT ![t] = Call(op, j, i, n)]
      BY <2>3
    <3>2. /\ call'[t].op = op /\ call'[t].job = j
          /\ \A u \in Caller : u # t => call'[u] = call[u]
      <4>1. t \in Caller /\ TypeOK
        BY <1>b DEF Typed
      <4>2. call' = [call EXCEPT ![t] = Call(op, j, i, n)]
        BY <3>1
      <4>3. call'[t] = Call(op, j, i, n) /\ \A u \in Caller : u # t => call'[u] = call[u]
        BY <4>1, <4>2, CallMoves
      <4>4. Call(op, j, i, n).op = op /\ Call(op, j, i, n).job = j
        BY CallFields
      <4> QED BY <4>3, <4>4
    <3>3. call'[t].job \in Job => job[call'[t].job] # "none"
      <4>1. CASE j \in held
        BY <1>a, <3>2, <4>1
      <4>2. CASE j = call[t].job
        <5>1. \A k \in Job : job[k] = "none" => call[t].job # k
          BY <1>b DEF FateInv
        <5> QED BY <3>2, <4>2, <5>1
      <4>3. CASE j = NoJob
        BY <3>2, <4>3 DEF ObjectsAssumption
      <4> QED BY <3>1, <4>1, <4>2, <4>3
    <3>4. \A u \in Caller :
            \/ call'[u] = call[u]
            \/ /\ call[u].op \notin Ending /\ call'[u].op \notin Ending
               /\ call'[u].job \in Job => job[call'[u].job] # "none"
      BY <1>b, <3>1, <3>2, <3>3
    <3> QED BY <1>b, <2>1, <3>4, FateStill
  <2> QED BY <1>b, <2>2, <2>3
<1>1. ASSUME NEW t \in Thread, ThreadStep(t) PROVE FateInv'
  <2> USE DEF wrappers, natives
  <2>0. t \in Caller /\ call[t].inc \in Includers \cup {Null} /\ call[t].n \in Nat
    BY <1>0, CallerTypes DEF CallType
  <2>1. CASE \E j \in Job : CreateJob(t, j)
    BY <2>1, FateCreated
  <2>2. CASE AddJob(t)
    BY <2>2, FateAdded
  <2>3. CASE \E j \in Job : ClientDeletesJob(t, j)
    BY <2>3, FateTested
  <2>11. CASE FlagJob(t)
    <3> DEFINE j == call[t].job
    <3>1. /\ call[t].op = "testing" /\ jobDeleted' = [jobDeleted EXCEPT ![j] = TRUE]
          /\ call' = [call EXCEPT ![t] = Call("freeing", j, Null, 0)]
          /\ UNCHANGED <<job, elements, held>>
      BY <2>11 DEF FlagJob, DeletedAfter
    <3>2. j \in Job
      BY <2>0, <3>1, CallerTypes
    <3>3. /\ job[j] # "none" /\ ~jobDeleted[j]
          /\ \A u \in Caller : u # t /\ call[u].op \in Ending => call[u].job # j
      BY <2>0, <3>1, <3>2 DEF FateInv, Ending
    <3> HIDE DEF j
    <3>4. call[t].op # "freeing"
      BY <3>1
    <3>5. Flagged(t, j)
      BY <3>1, <3>3, <3>4 DEF Flagged
    <3> QED BY <2>0, <3>2, <3>5, FateFlagged
  <2>4. CASE ListedDone(t)
    BY <2>4, FateListed
  <2>5. CASE Closed(t)
    <3>1. /\ UNCHANGED <<job, jobDeleted, held>> /\ elements' = <<>>
          /\ call' = [call EXCEPT ![t] = Idle] /\ call[t].op = "deleting"
      BY <2>5 DEF Closed
    <3>2. /\ call'[t].op = "idle" /\ call'[t].job = NoJob
          /\ \A u \in Caller : u # t => call'[u] = call[u]
      BY <2>0, <3>1, CallTurns DEF Typed, Idle
    <3>3. \A j \in Job : job[j] = "none" =>
            j \notin held' /\ \A k \in 1 .. Len(elements') : elements'[k] # j
      BY <3>1 DEF FateInv
    <3>4. \A u \in Caller :
            \/ call'[u] = call[u]
            \/ /\ call[u].op \notin Ending /\ call'[u].op \notin Ending
               /\ call'[u].job \in Job => job[call'[u].job] # "none"
      BY <3>1, <3>2 DEF ObjectsAssumption, Ending
    <3> QED BY <3>1, <3>3, <3>4, FateStill
  <2>6. CASE \/ Noted \/ OldFreed(t) \/ AssignIncluder(t)
             \/ \E i \in Includer : SwapBegun(t, i)
    <3>1. UNCHANGED <<job, jobDeleted, elements, held, call>>
      BY <2>6 DEF Noted, OldFreed, AssignIncluder, SwapBegun
    <3>2. \A j \in Job : job[j] = "none" =>
            j \notin held' /\ \A k \in 1 .. Len(elements') : elements'[k] # j
      BY <3>1 DEF FateInv
    <3>3. \A u \in Caller : call'[u] = call[u]
      BY <3>1
    <3> QED BY <3>1, <3>2, <3>3, FateStill
  <2>7. CASE \E j \in Job : Begun(t, j)
    <3>1. PICK j \in Job : Begun(t, j)
      BY <2>7
    <3>2. /\ UNCHANGED <<job, jobDeleted, elements, held>> /\ call[t].op = "idle" /\ j \in held
          /\ call' = [call EXCEPT ![t] = Call("parsing", j, includer, 0)]
      BY <3>1 DEF Begun, MayCallJob
    <3>3. includer \in Includers \cup {Null} /\ "parsing" \in Op \ Ending /\ 0 \in Nat
      BY DEF Typed, TypeOK, Op, Ending
    <3> QED BY <1>b, <2>0, <3>2, <3>3 DEF Ending
  <2>8. CASE Parsed(t)
    <3>1. PICK op \in Scan, n \in Nat : call' = [call EXCEPT ![t] = Later(call[t], op, n)]
      BY <2>8 DEF Parsed
    <3>2. op \in Op \ Ending /\ call[t].op \notin Ending
      BY <2>8 DEF Parsed, Scan, Op, Ending
    <3>3. call' = [call EXCEPT ![t] = Call(op, call[t].job, call[t].inc, n)]
      BY <3>1 DEF Later
    <3>4. UNCHANGED <<job, jobDeleted, elements, held>>
      BY <2>8 DEF Parsed
    <3> QED BY <1>b, <2>0, <3>2, <3>3, <3>4
  <2>9. CASE Returned(t)
    <3>1. /\ UNCHANGED <<job, jobDeleted, elements, held>> /\ call[t].op \notin Ending
          /\ call' = [call EXCEPT ![t] = Call("idle", NoJob, Null, 0)]
      BY <2>9 DEF Returned, Scan, Idle, Ending
    <3>2. "idle" \in Op \ Ending /\ 0 \in Nat
      BY DEF Op, Ending
    <3> QED BY <1>b, <2>0, <3>1, <3>2 DEF Ending
  <2>10. CASE DeleteCompiler(t)
    <3>1. /\ UNCHANGED <<job, jobDeleted, elements, held>> /\ call[t].op = "idle"
          /\ call' = [call EXCEPT ![t] = Call("deleting", NoJob, Null, 0)]
      BY <2>10 DEF DeleteCompiler, Free
    <3>2. "deleting" \in Op \ Ending /\ 0 \in Nat
      BY DEF Op, Ending
    <3> QED BY <1>b, <2>0, <3>1, <3>2 DEF Ending
  <2> QED BY <1>1, <2>1, <2>2, <2>3, <2>4, <2>5, <2>6, <2>7, <2>8, <2>9, <2>10, <2>11 DEF ThreadStep
<1>2. CASE \E t \in Caller : Freed(t)
  BY <1>2, FateFreed
<1>3. ASSUME NEW j \in Job, Finalize(j) PROVE FateInv'
  <2> USE DEF wrappers, natives
  <2>1. UNCHANGED <<job, elements, held>> /\ job[j] # "none" /\ call[Finalizer].op = "idle"
    BY <1>3 DEF Finalize, Free
  <2>2. CASE jobDeleted[j]
    <3>1. UNCHANGED <<jobDeleted, call>>
      BY <1>3, <2>2 DEF Finalize
    <3> QED BY <1>0, <1>b, <2>1, <3>1 DEF Ending
  <2>3. CASE ~jobDeleted[j]
    <3>1. /\ jobDeleted' = [jobDeleted EXCEPT ![j] = TRUE]
          /\ call' = [call EXCEPT ![Finalizer] = Call("freeing", j, Null, 0)]
      BY <1>3, <2>3 DEF Finalize, DeletedAfter
    <3>2. \A u \in Caller : u # Finalizer /\ call[u].op \in Ending => call[u].job # j
      <4>1. \A u \in Thread : call[u].op = "testing" => call[u].job # j
        BY <1>3 DEF Finalize, Reachable, Using
      <4>2. \A u \in Caller : call[u].op = "freeing" => call[u].job # j
        BY <2>3 DEF FateInv
      <4> QED BY <4>1, <4>2 DEF Ending, Caller
    <3>3. call[Finalizer].op # "freeing"
      BY <2>1
    <3>4. Flagged(Finalizer, j)
      BY <2>1, <2>3, <3>1, <3>2, <3>3 DEF Flagged
    <3> QED BY <1>0, <3>4, FateFlagged
  <2> QED BY <2>2, <2>3
<1>4. CASE DropCompiler \/ (\E j \in Job : DropJob(j)) \/ UNCHANGED vars
  <2>1. UNCHANGED <<job, jobDeleted, elements, call>> /\ held' \subseteq held
    BY <1>4 DEF DropCompiler, DropJob, vars, wrappers, natives
  <2>2. \A j \in Job : job[j] = "none" =>
          j \notin held' /\ \A k \in 1 .. Len(elements') : elements'[k] # j
    BY <2>1 DEF FateInv
  <2>3. \A u \in Caller : call'[u] = call[u]
    BY <2>1
  <2> QED BY <2>1, <2>2, <2>3, FateStill
<1> QED BY <1>1, <1>2, <1>3, <1>4, CleanSteps

LEMMA FateInit == ASSUME ObjectsAssumption, Init PROVE FateInv
<1>1. \A t \in Caller : call[t].op = "idle" /\ call[t].job = NoJob
  BY CallFields DEF Init, Idle
<1>2. /\ \A j \in Job : job[j] = "none" /\ ~jobDeleted[j]
      /\ held = {} /\ elements = <<>>
  BY DEF Init
<1>3. Len(elements) = 0
  BY <1>2
<1> QED BY <1>1, <1>2, <1>3 DEF FateInv, InCall, Ending, ObjectsAssumption

LEMMA FateAlways == ASSUME ObjectsAssumption, Careful PROVE Spec => [](Up => FateInv)
<1> DEFINE I == Typed /\ (Up => FateInv)
<1>1. Init => I
  BY InitTypes, FateInit
<1>2. I /\ [Next]_vars => I'
  <2> SUFFICES ASSUME I, [Next]_vars PROVE I'
    OBVIOUS
  <2>1. Typed'
    BY TypeStep
  <2>2. Up' => FateInv'
    BY CleanSteps, FateStep
  <2> QED BY <2>1, <2>2
<1>3. I => (Up => FateInv)
  OBVIOUS
<1> QED BY <1>1, <1>2, <1>3, PTL DEF Spec

\* Whichever of a careful client, the compiler's delete and the finalizer ran
\* CompileJob.delete, whose test and set of the flag are two steps, the C++ job is
\* gone exactly when the flag is set and the delete is over: it is freed once, and
\* not forgotten.
THEOREM FlagTellsFate == ASSUME ObjectsAssumption, Careful PROVE Spec => []FlagIsFate
<1>1. (Up => FateInv) => FlagIsFate
  BY DEF FlagIsFate, FateInv, InCall, Using
<1> QED BY <1>1, FateAlways, PTL

-----------------------------------------------------------------------------
(* One includer without a race.                                            *)

LEMMA MishapsStay == ASSUME [Next]_vars PROVE mishaps \subseteq mishaps'
<1>1. ASSUME NEW t \in Thread, Client(t) PROVE mishaps \subseteq mishaps'
  <2>1. CASE \E j \in Job : CreateJob(t, j) \/ CompileBegin(t, j) \/ ClientDeletesJob(t, j)
    BY <2>1 DEF CreateJob, CompileBegin, ClientDeletesJob, Touches
  <2>2. CASE \E j \in Job : AddUniformBlock(t, j) \/ AddPreprocess(t, j)
    BY <2>2 DEF AddUniformBlock, AddPreprocess, EnvFails, EnvWorks, Touches
  <2>3. CASE \E j \in Job, named \in BOOLEAN : SetSource(t, j, named)
    BY <2>3 DEF SetSource, Touches
  <2>4. CASE (\E i \in Includer : SetIncluder(t, i)) \/ DeleteCompiler(t)
    BY <2>4 DEF SetIncluder, DeleteCompiler, EnvFails, Touches
  <2> QED BY <1>1, <2>1, <2>2, <2>3, <2>4 DEF Client
<1>2. ASSUME NEW t \in Thread, Library(t) PROVE mishaps \subseteq mishaps'
  <2>1. CASE IncludeLocal(t) \/ IncludeSystem(t) \/ ReleaseInclude(t)
    BY <2>1 DEF IncludeLocal, IncludeSystem, ReleaseInclude, EnvFails, EnvWorks, Touches
  <2>2. CASE \E result \in {"header", "null", "throws"} : CallbackReturns(t, result)
    BY <2>2 DEF CallbackReturns, EnvFails, Touches
  <2>3. CASE \E parsed \in BOOLEAN : CompileEnds(t, parsed)
    BY <2>3 DEF CompileEnds, Touches
  <2>4. CASE AddJob(t) \/ FlagJob(t) \/ AssignIncluder(t) \/ DeleteListed(t)
    BY <2>4 DEF AddJob, FlagJob, AssignIncluder, DeleteListed
  <2>5. CASE FreeIncluder(t) \/ FreeCompiler(t)
    BY <2>5 DEF FreeIncluder, FreeCompiler, EnvFails, Touches
  <2> QED BY <1>2, <2>1, <2>2, <2>3, <2>4, <2>5 DEF Library
<1>3. CASE \E t \in Caller : FreeJob(t)
  BY <1>3 DEF FreeJob
<1>4. CASE Jvm
  BY <1>4 DEF Jvm, DropCompiler, DropJob, Finalize
<1>5. CASE UNCHANGED vars
  BY <1>5 DEF vars
<1> QED BY <1>1, <1>2, <1>3, <1>4, <1>5 DEF Next

LEMMA SwapTurns ==
  ASSUME TypeOK, NEW t \in Caller, NEW step, NEW i, swap' = [swap EXCEPT ![t] = Swapping(step, i)]
  PROVE  /\ swap'[t].step = step /\ swap'[t].inc = i /\ (swap'[t] = NoSwap => step = "idle")
         /\ \A u \in Caller : u # t => swap'[u] = swap[u]
<1>1. swap'[t] = Swapping(step, i) /\ \A u \in Caller : u # t => swap'[u] = swap[u]
  BY SwapMoves
<1>2. NoSwap.step = "idle"
  BY CallFields DEF NoSwap
<1> QED BY <1>1, <1>2, CallFields

LEMMA SwapOnes ==
  ASSUME ObjectsAssumption, Typed, SwapInv, NEW t \in Caller, swap[t].step # "idle"
  PROVE  \A u \in Caller : u # t => swap[u] = NoSwap
<1>1. swap[t] # NoSwap
  BY DEF Typed, CallOK
<1> QED BY <1>1 DEF SwapInv

LEMMA SwapStep ==
  ASSUME ObjectsAssumption, Typed, SwapInv, [Next]_vars, Up', "includerRace" \notin mishaps'
  PROVE  SwapInv'
<1> USE DEF wrappers, natives
<1>0. Thread \subseteq Caller /\ NoSwap.step = "idle"
  BY CallFields DEF Caller, NoSwap
<1>1. ASSUME UNCHANGED <<compiler, includer, heap, swap>> PROVE SwapInv'
  <2>1. Base' = Base
    BY <1>1 DEF Base
  <2> QED BY <1>1, <2>1 DEF SwapInv
<1>2. ASSUME NEW t \in Thread, ThreadStep(t) PROVE SwapInv'
  <2>1. CASE \/ Noted \/ Parsed(t) \/ Returned(t) \/ AddJob(t) \/ DeleteCompiler(t) \/ ListedDone(t)
             \/ FlagJob(t)
             \/ \E j \in Job : CreateJob(t, j) \/ Begun(t, j) \/ ClientDeletesJob(t, j)
    BY <1>1, <2>1 DEF Noted, Parsed, Returned, AddJob, DeleteCompiler, ListedDone, CreateJob, Begun,
                      ClientDeletesJob, FlagJob
  <2>2. CASE \E i \in Includer : SwapBegun(t, i)
    <3>1. PICK i \in Includer : SwapBegun(t, i)
      BY <2>2
    <3>2. /\ i \notin heap /\ heap' = heap \cup {i} /\ \A u \in Caller : swap[u] = NoSwap
          /\ swap' = [swap EXCEPT ![t] = Swapping("free", i)]
          /\ UNCHANGED <<compiler, includer>>
      BY <3>1 DEF SwapBegun
    <3>3. /\ swap'[t].step = "free" /\ swap'[t].inc = i
          /\ \A u \in Caller : u # t => swap'[u] = NoSwap
      BY <1>0, <3>2, SwapTurns DEF Typed
    <3>4. heap = Base /\ Base' = Base
      BY <3>2 DEF SwapInv, Base
    <3>5. swap'[t] # NoSwap
      BY <1>0, <3>3
    <3> QED BY <1>0, <3>2, <3>3, <3>4, <3>5 DEF SwapInv
  <2>3. CASE OldFreed(t)
    <3>1. /\ swap[t].step = "free" /\ compiler /\ heap' = heap \ {includer}
          /\ swap' = [swap EXCEPT ![t] = Swapping("assign", swap[t].inc)]
          /\ UNCHANGED <<compiler, includer>>
      BY <2>3 DEF OldFreed
    <3>2. \A u \in Caller : u # t => swap[u] = NoSwap
      BY <1>0, <3>1, SwapOnes
    <3>3. /\ swap'[t].step = "assign" /\ swap'[t].inc = swap[t].inc
          /\ \A u \in Caller : u # t => swap'[u] = NoSwap
      <4>1. /\ swap'[t] = Swapping("assign", swap[t].inc)
            /\ \A u \in Caller : u # t => swap'[u] = swap[u]
        BY <1>0, <3>1, SwapMoves DEF Typed
      <4> QED BY <3>2, <4>1, CallFields
    <3>4. swap[t].inc # includer /\ heap = {includer} \cup {swap[t].inc}
      BY <1>0, <3>1 DEF SwapInv, Base
    <3>5. heap' = {swap[t].inc}
      BY <3>1, <3>4
    <3>6. swap'[t] # NoSwap
      BY <1>0, <3>3
    <3> QED BY <1>0, <3>1, <3>3, <3>5, <3>6 DEF SwapInv
  <2>4. CASE AssignIncluder(t)
    <3>1. /\ swap[t].step = "assign" /\ includer' = swap[t].inc
          /\ swap' = [swap EXCEPT ![t] = NoSwap] /\ UNCHANGED <<compiler, heap>>
      BY <2>4 DEF AssignIncluder
    <3>2. \A u \in Caller : u # t => swap[u] = NoSwap
      BY <1>0, <3>1, SwapOnes
    <3>3. \A u \in Caller : swap'[u] = NoSwap
      BY <1>0, <3>1, <3>2, SwapMoves DEF Typed
    <3>4. heap' = Base'
      BY <1>0, <3>1 DEF SwapInv, Base
    <3> QED BY <1>0, <3>3, <3>4 DEF SwapInv
  <2>5. CASE Closed(t)
    <3>1. /\ call[t].op = "deleting" /\ includer \in heap /\ heap' = heap \ {includer}
          /\ compiler' = FALSE /\ swap' = swap
      BY <2>5 DEF Closed
    <3>2. \A u \in Caller : swap[u] = NoSwap
      BY <3>1 DEF Caller, Typed, CloseOK
    <3>3. heap = {includer}
      BY <3>1, <3>2 DEF SwapInv, Base
    <3>4. heap' = {} /\ Base' = {}
      BY <3>1, <3>3 DEF Base
    <3> QED BY <1>0, <3>1, <3>2, <3>4 DEF SwapInv
  <2> QED BY <1>2, <2>1, <2>2, <2>3, <2>4, <2>5 DEF ThreadStep
<1>3. CASE \/ (\E t \in Caller : Freed(t)) \/ DropCompiler
           \/ (\E j \in Job : DropJob(j) \/ Finalize(j)) \/ UNCHANGED vars
  <2>1. UNCHANGED <<compiler, includer, heap, swap>>
    BY <1>3 DEF Freed, DropCompiler, DropJob, Finalize, vars
  <2> QED BY <1>1, <2>1
<1> QED BY <1>2, <1>3, CleanSteps

LEMMA SwapInit == ASSUME ObjectsAssumption, Init PROVE SwapInv
<1>1. \A t \in Caller : swap[t] = NoSwap
  BY DEF Init
<1>2. NoSwap.step = "idle"
  BY CallFields DEF NoSwap
<1>3. heap = Base
  BY DEF Init, Base
<1> QED BY <1>1, <1>2, <1>3 DEF SwapInv

LEMMA SwapAlways == ASSUME ObjectsAssumption
                    PROVE Spec => [](Up /\ "includerRace" \notin mishaps => SwapInv)
<1> DEFINE I == Typed /\ (Up /\ "includerRace" \notin mishaps => SwapInv)
<1>1. Init => I
  BY InitTypes, SwapInit
<1>2. I /\ [Next]_vars => I'
  <2> SUFFICES ASSUME I, [Next]_vars PROVE I'
    OBVIOUS
  <2>1. Typed'
    BY TypeStep
  <2>2. Up' => Up
    BY CleanSteps
  <2>3. Up' /\ "includerRace" \notin mishaps' => SwapInv'
    BY <2>2, MishapsStay, SwapStep
  <2> QED BY <2>1, <2>3
<1>3. I => (Up /\ "includerRace" \notin mishaps => SwapInv)
  OBVIOUS
<1> QED BY <1>1, <1>2, <1>3, PTL DEF Spec

\* setIncluder frees the includer it replaces and delete the last one: without a
\* race the compiler's own is the only one there is.
THEOREM NoIncluderLeft == ASSUME ObjectsAssumption PROVE Spec => []OneIncluder
<1>1. (Up /\ "includerRace" \notin mishaps => SwapInv) => OneIncluder
  BY DEF OneIncluder, SwapInv, Base
<1> QED BY <1>1, SwapAlways, PTL

-----------------------------------------------------------------------------
(* A careful client's jobs go before their compiler.                       *)

LEMMA ScanIsParsing == \A t \in Caller : Parsing(t) <=> call[t].op \in Scan
BY DEF Parsing, Scanning, Scan

LEMMA ScanStaysParsing == \A t \in Caller : Parsing(t)' <=> call'[t].op \in Scan
BY DEF Parsing, Scanning, Scan

LEMMA LifeStill ==
  ASSUME LifeInv, UNCHANGED <<compiler, deleted>>,
         \A u \in Caller :
           /\ call'[u].op = "deleting" <=> call[u].op = "deleting"
           /\ call'[u].op = "adding" => call[u].op = "adding" \/ ~deleted
           /\ call'[u].op \in Scan => call[u].op \in Scan \/ (compiler /\ ~Closing)
           /\ swap'[u] # NoSwap => swap[u] # NoSwap \/ ~deleted
  PROVE  LifeInv'
<1>1. Closing' <=> Closing
  BY DEF Closing, Caller
<1>2. \A u \in Caller : Parsing(u)' => compiler /\ ~Closing
  BY ScanIsParsing, ScanStaysParsing DEF LifeInv
<1> QED BY <1>1, <1>2 DEF LifeInv

\* A step of one call, which becomes Call(op, j, i, n).
LEMMA LifeCall ==
  ASSUME Typed, LifeInv, UNCHANGED <<compiler, deleted, swap>>, NEW t \in Caller,
         NEW op, NEW j, NEW i, NEW n, call' = [call EXCEPT ![t] = Call(op, j, i, n)],
         op = "deleting" <=> call[t].op = "deleting",
         op = "adding" => ~deleted,
         op \in Scan => call[t].op \in Scan \/ (compiler /\ ~Closing)
  PROVE  LifeInv'
<1>1. call'[t].op = op /\ \A u \in Caller : u # t => call'[u] = call[u]
  <2>1. call'[t] = Call(op, j, i, n) /\ \A u \in Caller : u # t => call'[u] = call[u]
    BY CallMoves DEF Typed
  <2>2. Call(op, j, i, n).op = op
    BY CallFields
  <2> QED BY <2>1, <2>2
<1>2. \A u \in Caller :
        /\ call'[u].op = "deleting" <=> call[u].op = "deleting"
        /\ call'[u].op = "adding" => call[u].op = "adding" \/ ~deleted
        /\ call'[u].op \in Scan => call[u].op \in Scan \/ (compiler /\ ~Closing)
        /\ swap'[u] # NoSwap => swap[u] # NoSwap \/ ~deleted
  BY <1>1
<1> QED BY <1>2, LifeStill

LEMMA LifeStep ==
  ASSUME ObjectsAssumption, Careful, Typed, LifeInv, [Next]_vars, Up'
  PROVE  LifeInv'
<1> USE DEF wrappers, natives
<1>0. Thread \subseteq Caller /\ Finalizer \in Caller
  BY DEF Caller
<1>1. ASSUME UNCHANGED <<compiler, deleted, call, swap>> PROVE LifeInv'
  <2>1. \A u \in Caller :
          /\ call'[u].op = "deleting" <=> call[u].op = "deleting"
          /\ call'[u].op = "adding" => call[u].op = "adding" \/ ~deleted
          /\ call'[u].op \in Scan => call[u].op \in Scan \/ (compiler /\ ~Closing)
          /\ swap'[u] # NoSwap => swap[u] # NoSwap \/ ~deleted
    BY <1>1
  <2> QED BY <1>1, <2>1, LifeStill
<1>2. ASSUME NEW t \in Thread, ThreadStep(t) PROVE LifeInv'
  <2>0. t \in Caller
    BY <1>0
  <2>1. CASE Noted
    BY <1>1, <2>1 DEF Noted
  <2>2. CASE \E j \in Job : CreateJob(t, j)
    <3>1. PICK j \in Job : CreateJob(t, j)
      BY <2>2
    <3>2. /\ UNCHANGED <<compiler, deleted, swap>> /\ ~deleted /\ call[t].op = "idle"
          /\ call' = [call EXCEPT ![t] = Call("adding", j, Null, size)]
      BY <3>1 DEF CreateJob, MayCallCompiler, Free
    <3> QED BY <2>0, <3>2, LifeCall DEF Scan
  <2>3. CASE \E j \in Job : Begun(t, j)
    <3>1. PICK j \in Job : Begun(t, j)
      BY <2>3
    <3>2. /\ UNCHANGED <<compiler, deleted, swap>> /\ compiler /\ ~Closing /\ call[t].op = "idle"
          /\ call' = [call EXCEPT ![t] = Call("parsing", j, includer, 0)]
      BY <3>1 DEF Begun, MayCallJob
    <3> QED BY <2>0, <3>2, LifeCall DEF Scan
  <2>4. CASE \E j \in Job : ClientDeletesJob(t, j)
    <3>1. PICK j \in Job : ClientDeletesJob(t, j)
      BY <2>4
    <3>2. /\ UNCHANGED <<compiler, deleted, swap>> /\ call[t].op = "idle"
          /\ call' = [call EXCEPT ![t] = Call("testing", j, Null, 0)]
      BY <3>1 DEF ClientDeletesJob, Free
    <3> QED BY <2>0, <3>2, LifeCall DEF Scan
  <2>11. CASE FlagJob(t)
    <3>1. /\ UNCHANGED <<compiler, deleted, swap>> /\ call[t].op = "testing"
          /\ call' = [call EXCEPT ![t] = Call("freeing", call[t].job, Null, 0)]
      BY <2>11 DEF FlagJob
    <3>2. /\ "freeing" = "deleting" <=> call[t].op = "deleting"
          /\ "freeing" # "adding" /\ "freeing" \notin Scan
      BY <3>1 DEF Scan
    <3> QED BY <2>0, <3>1, <3>2, LifeCall
  <2>5. CASE AddJob(t) \/ Returned(t)
    <3>1. /\ UNCHANGED <<compiler, deleted, swap>> /\ call[t].op # "deleting"
          /\ call' = [call EXCEPT ![t] = Call("idle", NoJob, Null, 0)]
      BY <2>5 DEF AddJob, Returned, Scan, Idle
    <3>2. /\ "idle" = "deleting" <=> call[t].op = "deleting"
          /\ "idle" # "adding" /\ "idle" \notin Scan
      BY <3>1 DEF Scan
    <3> QED BY <2>0, <3>1, <3>2, LifeCall
  <2>6. CASE Parsed(t)
    <3>1. PICK op \in Scan, n \in Nat : call' = [call EXCEPT ![t] = Later(call[t], op, n)]
      BY <2>6 DEF Parsed
    <3>2. /\ UNCHANGED <<compiler, deleted, swap>> /\ call[t].op \in Scan
          /\ call' = [call EXCEPT ![t] = Call(op, call[t].job, call[t].inc, n)]
      BY <2>6, <3>1 DEF Parsed, Later
    <3>3. op # "deleting" /\ op # "adding" /\ call[t].op # "deleting"
      BY <3>2 DEF Scan
    <3> QED BY <2>0, <3>2, <3>3, LifeCall
  <2>7. CASE (\E i \in Includer : SwapBegun(t, i)) \/ OldFreed(t) \/ AssignIncluder(t)
    <3>1. UNCHANGED <<compiler, deleted, call>>
      BY <2>7 DEF SwapBegun, OldFreed, AssignIncluder
    <3>2. /\ \A u \in Caller : u # t => swap'[u] = swap[u]
          /\ swap'[t] # NoSwap => swap[t] # NoSwap \/ ~deleted
      <4>1. CASE \E i \in Includer : SwapBegun(t, i)
        <5>1. PICK i \in Includer : SwapBegun(t, i)
          BY <4>1
        <5>2. swap' = [swap EXCEPT ![t] = Swapping("free", i)] /\ ~deleted
          BY <5>1 DEF SwapBegun, MayCallCompiler
        <5>3. \A u \in Caller : u # t => swap'[u] = swap[u]
          BY <2>0, <5>2 DEF Typed, TypeOK
        <5> QED BY <5>2, <5>3
      <4>2. CASE OldFreed(t)
        <5>1. swap[t].step = "free" /\ swap' = [swap EXCEPT ![t] = Swapping("assign", swap[t].inc)]
          BY <4>2 DEF OldFreed
        <5>2. swap[t] # NoSwap
          BY <2>0, <5>1 DEF Typed, CallOK
        <5> QED BY <2>0, <5>1, <5>2, SwapMoves DEF Typed
      <4>3. CASE AssignIncluder(t)
        BY <2>0, <4>3, SwapMoves DEF AssignIncluder, Typed
      <4> QED BY <2>7, <4>1, <4>2, <4>3
    <3>3. \A u \in Caller :
            /\ call'[u].op = "deleting" <=> call[u].op = "deleting"
            /\ call'[u].op = "adding" => call[u].op = "adding" \/ ~deleted
            /\ call'[u].op \in Scan => call[u].op \in Scan \/ (compiler /\ ~Closing)
            /\ swap'[u] # NoSwap => swap[u] # NoSwap \/ ~deleted
      BY <3>1, <3>2
    <3> QED BY <3>1, <3>3, LifeStill
  <2>8. CASE DeleteCompiler(t)
    <3>1. /\ ~deleted /\ deleted' = TRUE /\ UNCHANGED <<compiler, swap>>
          /\ call' = [call EXCEPT ![t] = Call("deleting", NoJob, Null, 0)]
          /\ \A u \in Thread : call[u].op = "idle" /\ swap[u] = NoSwap
      BY <2>8 DEF DeleteCompiler, Free
    <3>2. call'[t].op = "deleting" /\ \A u \in Caller : u # t => call'[u] = call[u]
      BY <2>0, <3>1, CallTurns DEF Typed
    <3>3. \A u \in Caller : call'[u].op \in {"idle", "freeing", "deleting"} /\ swap'[u] = NoSwap
      BY <3>1, <3>2 DEF Caller, Typed, CloseOK
    <3>4. Closing' /\ compiler'
      BY <3>1, <3>2 DEF Closing, LifeInv
    <3>5. \A u \in Caller : ~Parsing(u)'
      BY <3>3, ScanStaysParsing DEF Scan
    <3>6. deleted'
      BY <3>1
    <3> QED BY <3>3, <3>4, <3>5, <3>6 DEF LifeInv
  <2>9. CASE ListedDone(t)
    <3>1. /\ UNCHANGED <<compiler, deleted, swap>> /\ call[t].op = "deleting"
          /\ call' = [call EXCEPT ![t] = Call("deleting", call[t].job, call[t].inc, call[t].n + 1)]
      BY <2>9 DEF ListedDone, Later
    <3> QED BY <2>0, <3>1, LifeCall DEF Scan
  <2>10. CASE Closed(t)
    <3>1. /\ call[t].op = "deleting" /\ compiler' = FALSE /\ UNCHANGED <<deleted, swap>>
          /\ call' = [call EXCEPT ![t] = Idle]
      BY <2>10 DEF Closed
    <3>2. call'[t].op = "idle" /\ \A u \in Caller : u # t => call'[u] = call[u]
      BY <2>0, <3>1, CallTurns DEF Typed, Idle
    <3>3. \A u \in Caller : call'[u].op \in {"idle", "freeing"} /\ swap'[u] = NoSwap
      BY <3>1, <3>2 DEF Caller, Typed, CloseOK
    <3>4. ~Closing' /\ deleted
      BY <3>1, <3>3, <1>0 DEF Closing, LifeInv
    <3>5. \A u \in Caller : ~Parsing(u)'
      BY <3>3, ScanStaysParsing DEF Scan
    <3> QED BY <3>1, <3>3, <3>4, <3>5 DEF LifeInv
  <2> QED BY <1>2, <2>1, <2>2, <2>3, <2>4, <2>5, <2>6, <2>7, <2>8, <2>9, <2>10, <2>11 DEF ThreadStep
<1>3. ASSUME NEW t \in Caller, Freed(t) PROVE LifeInv'
  <2>1. /\ UNCHANGED <<compiler, deleted, swap>> /\ call[t].op = "freeing"
        /\ call' = [call EXCEPT ![t] = Call("idle", NoJob, Null, 0)]
    BY <1>3 DEF Freed, Idle
  <2> QED BY <2>1, LifeCall DEF Scan
<1>4. ASSUME NEW j \in Job, Finalize(j) PROVE LifeInv'
  <2>1. UNCHANGED <<compiler, deleted, swap>> /\ call[Finalizer].op = "idle"
    BY <1>4 DEF Finalize, Free
  <2>2. \/ call' = call \/ call' = [call EXCEPT ![Finalizer] = Call("freeing", j, Null, 0)]
    BY <1>4 DEF Finalize
  <2>3. CASE call' = call
    BY <1>1, <2>1, <2>3
  <2>4. CASE call' = [call EXCEPT ![Finalizer] = Call("freeing", j, Null, 0)]
    BY <1>0, <2>1, <2>4, LifeCall DEF Scan
  <2> QED BY <2>2, <2>3, <2>4
<1>5. CASE DropCompiler \/ (\E j \in Job : DropJob(j)) \/ UNCHANGED vars
  BY <1>1, <1>5 DEF DropCompiler, DropJob, vars
<1> QED BY <1>2, <1>3, <1>4, <1>5, CleanSteps

Adding(j) == \E t \in Caller : call[t].op = "adding" /\ call[t].job = j

LEMMA ListStill ==
  ASSUME ListInv, UNCHANGED <<compiler, elements, size, job, jobDeleted>>,
         \A u \in Caller :
           /\ call[u].op = "adding" => call'[u] = call[u]
           /\ call'[u].op = "deleting" => call'[u] = call[u],
         call'[Finalizer].op = "freeing" => call[Finalizer].op = "freeing",
         kept' => kept
  PROVE  ListInv'
<1>1. \A j \in Job : Adding(j) => Adding(j)'
  BY DEF Adding
<1>2. Closing' => Closing
  BY DEF Closing, Caller
<1>3. \A j \in Job : Listed(j, size)' <=> Listed(j, size)
  BY DEF Listed
<1>4. \A u \in Caller : call'[u].op = "deleting" =>
        \A k \in 1 .. call'[u].n : jobDeleted'[elements'[k]]
  BY DEF ListInv
<1>5. \A j \in Job : job'[j] = "live" /\ ~jobDeleted'[j] => Listed(j, size)' \/ Adding(j)'
  BY <1>1, <1>3 DEF ListInv, Adding
<1>6. call'[Finalizer].op = "freeing" => ~kept' /\ ~Closing'
  BY <1>2 DEF ListInv
<1>7. ~compiler' => \A j \in Job : job'[j] # "live"
  BY DEF ListInv
<1> QED BY <1>4, <1>5, <1>6, <1>7 DEF ListInv, Adding

\* A step of one call that neither adds nor deletes.
LEMMA ListCall ==
  ASSUME ObjectsAssumption, Typed, ListInv, UNCHANGED <<compiler, elements, size, job, jobDeleted, kept>>,
         NEW t \in Thread, call[t].op # "adding",
         NEW op, NEW j, NEW i, NEW n, call' = [call EXCEPT ![t] = Call(op, j, i, n)],
         op # "deleting"
  PROVE  ListInv'
<1>1. t \in Caller /\ t # Finalizer /\ Finalizer \in Caller
  BY DEF Caller, ObjectsAssumption
<1>2. call'[t].op = op /\ \A u \in Caller : u # t => call'[u] = call[u]
  <2>1. call'[t] = Call(op, j, i, n) /\ \A u \in Caller : u # t => call'[u] = call[u]
    BY <1>1, CallMoves DEF Typed
  <2>2. Call(op, j, i, n).op = op
    BY CallFields
  <2> QED BY <2>1, <2>2
<1>3. \A u \in Caller :
        /\ call[u].op = "adding" => call'[u] = call[u]
        /\ call'[u].op = "deleting" => call'[u] = call[u]
  BY <1>2
<1> QED BY <1>1, <1>2, <1>3, ListStill

LEMMA ListCreated ==
  ASSUME ObjectsAssumption, Careful, Typed, LifeInv, ListInv, NEW t \in Thread, NEW j \in Job,
         CreateJob(t, j)
  PROVE  ListInv'
<1> USE DEF wrappers, natives
<1>0. t \in Caller /\ t # Finalizer /\ Finalizer \in Caller
  BY DEF Caller, ObjectsAssumption
<1>1. /\ UNCHANGED <<compiler, elements, size, jobDeleted, kept, deleted>> /\ ~deleted
      /\ call[t].op = "idle" /\ job' = [job EXCEPT ![j] = "live"]
      /\ call' = [call EXCEPT ![t] = Call("adding", j, Null, size)]
  BY DEF CreateJob, MayCallCompiler, Free
<1>2. /\ call'[t].op = "adding" /\ call'[t].job = j
      /\ \A u \in Caller : u # t => call'[u] = call[u]
  BY <1>0, <1>1, CallTurns DEF Typed
<1>3. \A k \in Job : k # j => job'[k] = job[k]
  BY <1>1 DEF Typed, TypeOK
<1>4. \A k \in Job : Adding(k)' <=> k = j \/ Adding(k)
  BY <1>0, <1>1, <1>2 DEF Adding
<1>5. \A k \in Job : job'[k] = "live" /\ ~jobDeleted'[k] => Listed(k, size)' \/ Adding(k)'
  BY <1>1, <1>3, <1>4 DEF ListInv, Listed, Adding
<1>6. \A u \in Caller : call'[u].op = "deleting" =>
        \A k \in 1 .. call'[u].n : jobDeleted'[elements'[k]]
  BY <1>1, <1>2 DEF ListInv
<1>7. Closing' <=> Closing
  BY <1>0, <1>1, <1>2 DEF Closing, Caller
<1>8. call'[Finalizer].op = "freeing" => ~kept' /\ ~Closing'
  BY <1>0, <1>1, <1>2, <1>7 DEF ListInv
<1>9. compiler'
  BY <1>1 DEF LifeInv
<1> QED BY <1>5, <1>6, <1>8, <1>9 DEF ListInv, Adding

LEMMA ListAdded ==
  ASSUME ObjectsAssumption, Typed, ListInv, NEW t \in Thread, AddJob(t), "lostAdd" \notin mishaps'
  PROVE  ListInv'
<1> USE DEF wrappers, natives
<1> DEFINE j == call[t].job
           n == call[t].n
<1>0. t \in Caller /\ t # Finalizer /\ Finalizer \in Caller
  BY DEF Caller, ObjectsAssumption
<1>1. /\ call[t].op = "adding" /\ elements' = Remember(n, j) /\ size' = n + 1 /\ size = n
      /\ call' = [call EXCEPT ![t] = Idle]
      /\ UNCHANGED <<compiler, job, jobDeleted, kept>>
  BY DEF AddJob
<1>2. j \in Job /\ n \in Nat /\ n <= Len(elements)
  BY <1>0, <1>1, CallerTypes, SizeType
<1>3. /\ call'[t].op = "idle" /\ \A u \in Caller : u # t => call'[u] = call[u]
  BY <1>0, <1>1, CallTurns DEF Typed, Idle
<1>4. \A u \in Caller : call'[u].op # "deleting"
  <2>1. \A u \in Thread : u # t => call[u].op # "deleting"
    BY <1>1, NotClosing
  <2>2. call[Finalizer].op # "deleting"
    BY DEF Typed, CloseOK
  <2> QED BY <1>0, <1>3, <2>1, <2>2 DEF Caller
<1> HIDE DEF j, n
<1>5. elements'[n + 1] = j /\ \A k \in 1 .. n : elements'[k] = elements[k]
  <2>1. /\ n + 1 <= Len(elements') /\ Len(elements) <= Len(elements')
        /\ \A k \in 1 .. Len(elements') : IF k = n + 1 THEN elements'[k] = j
                                         ELSE k \in 1 .. Len(elements) /\ elements'[k] = elements[k]
    <3>1. elements' = Remember(n, j)
      BY <1>1
    <3>2. /\ n + 1 <= Len(Remember(n, j)) /\ Len(elements) <= Len(Remember(n, j))
          /\ \A k \in 1 .. Len(Remember(n, j)) :
               IF k = n + 1 THEN Remember(n, j)[k] = j
               ELSE k \in 1 .. Len(elements) /\ Remember(n, j)[k] = elements[k]
      BY <1>2, RememberTypes
    <3> QED BY <3>1, <3>2
  <2>2. Len(elements') \in Nat
    <3>1. elements' \in Seq(Job)
      BY <1>1, <1>2, RememberTypes
    <3> QED BY <3>1, LenProperties
  <2>3. n + 1 \in 1 .. Len(elements') /\ \A k \in 1 .. n : k \in 1 .. Len(elements') /\ k # n + 1
    BY <1>2, <2>1, <2>2
  <2> QED BY <2>1, <2>3
<1>6. \A k \in Job : Listed(k, size)' <=> k = j \/ Listed(k, size)
  <2>1. 1 .. size' = (1 .. size) \cup {n + 1}
    BY <1>1, <1>2
  <2> QED BY <1>1, <1>5, <2>1 DEF Listed
<1>7. \A k \in Job : Adding(k) => k = j \/ Adding(k)'
  BY <1>3 DEF Adding, j
<1>8. \A k \in Job : job'[k] = "live" /\ ~jobDeleted'[k] => Listed(k, size)' \/ Adding(k)'
  BY <1>1, <1>6, <1>7 DEF ListInv, Adding
<1>9. call'[Finalizer].op = "freeing" => ~kept' /\ ~Closing'
  BY <1>0, <1>1, <1>3, <1>4 DEF ListInv, Closing, Caller
<1>10. ~compiler' => \A k \in Job : job'[k] # "live"
  BY <1>1 DEF ListInv
<1> QED BY <1>4, <1>8, <1>9, <1>10 DEF ListInv, Adding

\* More jobs are flagged, fewer are live.
LEMMA ListFewer ==
  ASSUME ListInv, Typed, UNCHANGED <<compiler, elements, size>>,
         \A j \in Job : (jobDeleted[j] => jobDeleted'[j]) /\ (job'[j] = "live" => job[j] = "live"),
         \A u \in Caller : call[u].op = "adding" => call'[u] = call[u],
         \A u \in Caller : call'[u].op = "deleting" =>
           \/ call'[u] = call[u]
           \/ \A k \in 1 .. call'[u].n : jobDeleted'[elements[k]],
         call'[Finalizer].op = "freeing" => ~kept' /\ ~Closing'
  PROVE  ListInv'
<1>1. \A j \in Job : Adding(j) => Adding(j)'
  BY DEF Adding
<1>2. \A j \in Job : Listed(j, size)' <=> Listed(j, size)
  BY DEF Listed
<1>3. \A j \in Job : job'[j] = "live" /\ ~jobDeleted'[j] => Listed(j, size)' \/ Adding(j)'
  BY <1>1, <1>2 DEF ListInv, Adding
<1>4. \A u \in Caller : call'[u].op = "deleting" =>
        \A k \in 1 .. call'[u].n : jobDeleted'[elements'[k]]
  <2> SUFFICES ASSUME NEW u \in Caller, call'[u].op = "deleting", NEW k \in 1 .. call'[u].n
               PROVE  jobDeleted'[elements'[k]]
    OBVIOUS
  <2>1. CASE call'[u] = call[u]
    <3>1. jobDeleted[elements[k]] /\ call[u].n <= size /\ call[u].n \in Nat
      BY <2>1 DEF ListInv, Typed, TypeOK, CallOK
    <3>2. k \in 1 .. Len(elements)
      BY <2>1, <3>1, SizeType
    <3>3. elements[k] \in Job
      BY <3>2, SizeType, ElementOfSeq
    <3> QED BY <3>1, <3>3
  <2>2. CASE \A m \in 1 .. call'[u].n : jobDeleted'[elements[m]]
    BY <2>2
  <2> QED BY <2>1, <2>2
<1>5. ~compiler' => \A j \in Job : job'[j] # "live"
  BY DEF ListInv
<1> QED BY <1>3, <1>4, <1>5 DEF ListInv, Adding

LEMMA ListStep ==
  ASSUME ObjectsAssumption, Careful, Typed, FateInv, LifeInv, ListInv, [Next]_vars, Up',
         "lostAdd" \notin mishaps'
  PROVE  ListInv'
<1> USE DEF wrappers, natives
<1>0. Thread \subseteq Caller /\ Finalizer \in Caller /\ Finalizer \notin Thread
  BY DEF Caller, ObjectsAssumption
<1>1. ASSUME UNCHANGED <<compiler, elements, size, job, jobDeleted, call>>, kept' => kept
      PROVE  ListInv'
  BY <1>1, ListStill
<1>2. ASSUME NEW t \in Thread, ThreadStep(t) PROVE ListInv'
  <2>0. t \in Caller /\ t # Finalizer
    BY <1>0
  <2>1. CASE Noted \/ (\E i \in Includer : SwapBegun(t, i)) \/ OldFreed(t) \/ AssignIncluder(t)
    BY <1>1, <2>1 DEF Noted, SwapBegun, OldFreed, AssignIncluder
  <2>2. CASE \E j \in Job : CreateJob(t, j)
    BY <2>2, ListCreated
  <2>3. CASE AddJob(t)
    BY <2>3, ListAdded
  <2>4. CASE \E j \in Job : Begun(t, j)
    <3>1. PICK j \in Job : Begun(t, j)
      BY <2>4
    <3>2. /\ UNCHANGED <<compiler, elements, size, job, jobDeleted, kept>> /\ call[t].op # "adding"
          /\ call' = [call EXCEPT ![t] = Call("parsing", j, includer, 0)]
      BY <3>1 DEF Begun
    <3> QED BY <3>2, ListCall
  <2>5. CASE Returned(t)
    <3>1. /\ UNCHANGED <<compiler, elements, size, job, jobDeleted, kept>> /\ call[t].op # "adding"
          /\ call' = [call EXCEPT ![t] = Call("idle", NoJob, Null, 0)]
      BY <2>5 DEF Returned, Scan, Idle
    <3> QED BY <3>1, ListCall
  <2>6. CASE Parsed(t)
    <3>1. PICK op \in Scan, n \in Nat : call' = [call EXCEPT ![t] = Later(call[t], op, n)]
      BY <2>6 DEF Parsed
    <3>2. /\ UNCHANGED <<compiler, elements, size, job, jobDeleted, kept>> /\ call[t].op # "adding"
          /\ call' = [call EXCEPT ![t] = Call(op, call[t].job, call[t].inc, n)]
      BY <2>6, <3>1 DEF Parsed, Scan, Later
    <3>3. op # "deleting"
      BY DEF Scan
    <3> QED BY <3>2, <3>3, ListCall
  <2>7. CASE \E j \in Job : ClientDeletesJob(t, j)
    <3>1. PICK j \in Job : ClientDeletesJob(t, j)
      BY <2>7
    <3>2. /\ UNCHANGED <<compiler, elements, size, job, jobDeleted, kept>> /\ call[t].op # "adding"
          /\ call' = [call EXCEPT ![t] = Call("testing", j, Null, 0)]
      BY <3>1 DEF ClientDeletesJob, Free
    <3> QED BY <3>2, ListCall
  <2>11. CASE FlagJob(t)
    <3> DEFINE j == call[t].job
    <3>1. /\ UNCHANGED <<compiler, elements, size, job, kept>> /\ call[t].op = "testing"
          /\ jobDeleted' = [jobDeleted EXCEPT ![j] = TRUE]
          /\ call' = [call EXCEPT ![t] = Call("freeing", j, Null, 0)]
      BY <2>11 DEF FlagJob, DeletedAfter
    <3> HIDE DEF j
    <3>3. call'[t].op = "freeing" /\ \A u \in Caller : u # t => call'[u] = call[u]
      BY <2>0, <3>1, CallTurns DEF Typed
    <3>4. \A k \in Job : (jobDeleted[k] => jobDeleted'[k]) /\ (job'[k] = "live" => job[k] = "live")
      BY <3>1 DEF Typed, TypeOK
    <3>5. /\ \A u \in Caller : call[u].op = "adding" => call'[u] = call[u]
          /\ \A u \in Caller : call'[u].op = "deleting" => call'[u] = call[u]
      BY <3>1, <3>3
    <3>6. call'[Finalizer].op = "freeing" => ~kept' /\ ~Closing'
      BY <1>0, <2>0, <3>1, <3>3, <3>5 DEF ListInv, Closing
    <3> QED BY <3>1, <3>4, <3>5, <3>6, ListFewer
  <2>8. CASE DeleteCompiler(t)
    <3>1. /\ UNCHANGED <<compiler, elements, size, job, jobDeleted, kept>> /\ kept
          /\ call[t].op = "idle" /\ call' = [call EXCEPT ![t] = Call("deleting", NoJob, Null, 0)]
      BY <2>8 DEF DeleteCompiler, MayCallCompiler, Free
    <3>2. /\ call'[t].op = "deleting" /\ call'[t].n = 0
          /\ \A u \in Caller : u # t => call'[u] = call[u]
      BY <2>0, <3>1, CallTurns DEF Typed
    <3>3. /\ \A u \in Caller : call[u].op = "adding" => call'[u] = call[u]
          /\ \A u \in Caller : call'[u].op = "deleting" =>
               call'[u] = call[u] \/ \A k \in 1 .. call'[u].n : jobDeleted'[elements[k]]
      BY <3>1, <3>2
    <3>4. call'[Finalizer].op # "freeing"
      BY <1>0, <2>0, <3>1, <3>2 DEF ListInv
    <3>5. \A k \in Job : (jobDeleted[k] => jobDeleted'[k]) /\ (job'[k] = "live" => job[k] = "live")
      BY <3>1
    <3> QED BY <3>1, <3>3, <3>4, <3>5, ListFewer
  <2>9. CASE ListedDone(t)
    <3> DEFINE n == call[t].n + 1
               j == elements[n]
    <3>1. /\ UNCHANGED <<compiler, elements, size, kept>> /\ call[t].op = "deleting" /\ n <= size
          /\ call' = [call EXCEPT ![t] = Call("deleting", call[t].job, call[t].inc, n)]
      BY <2>9 DEF ListedDone, Later
    <3>2. /\ call'[t].op = "deleting" /\ call'[t].n = n
          /\ \A u \in Caller : u # t => call'[u] = call[u]
      <4>1. call'[t] = Call("deleting", call[t].job, call[t].inc, n)
              /\ \A u \in Caller : u # t => call'[u] = call[u]
        BY <2>0, <3>1, CallMoves DEF Typed
      <4> QED BY <4>1, CallFields
    <3>3. n \in 1 .. Len(elements) /\ j \in Job /\ call[t].n \in Nat
      BY <2>0, <3>1, NextListed, CallerTypes
    <3>4. CASE jobDeleted[j] /\ UNCHANGED <<jobDeleted, job, name>>
      <4>1. \A k \in Job : (jobDeleted[k] => jobDeleted'[k]) /\ (job'[k] = "live" => job[k] = "live")
        BY <3>4
      <4>2. jobDeleted'[j]
        BY <3>4
      <4>3. \A k \in 1 .. call'[t].n : jobDeleted'[elements[k]]
        <5>1. \A k \in 1 .. n : k = n \/ k \in 1 .. call[t].n
          BY <3>3
        <5>2. \A k \in 1 .. call[t].n : jobDeleted[elements[k]]
          BY <2>0, <3>1 DEF ListInv
        <5> QED BY <3>2, <3>4, <4>2, <5>1, <5>2
      <4>4. /\ \A u \in Caller : call[u].op = "adding" => call'[u] = call[u]
            /\ \A u \in Caller : call'[u].op = "deleting" =>
                 call'[u] = call[u] \/ \A k \in 1 .. call'[u].n : jobDeleted'[elements[k]]
        BY <3>1, <3>2, <4>3
      <4>5. call'[Finalizer].op = "freeing" => ~kept' /\ ~Closing'
        BY <1>0, <2>0, <3>1, <3>2 DEF ListInv, Closing
      <4> QED BY <3>1, <4>1, <4>4, <4>5, ListFewer
    <3>5. CASE ~jobDeleted[j] /\ Destroyed(j) /\ jobDeleted' = [jobDeleted EXCEPT ![j] = TRUE]
      <4> HIDE DEF j, n
      <4>1. \A k \in Job : (jobDeleted[k] => jobDeleted'[k]) /\ (job'[k] = "live" => job[k] = "live")
        BY <3>3, <3>5 DEF Destroyed, Typed, TypeOK
      <4>2. jobDeleted'[j]
        BY <3>3, <3>5 DEF Typed, TypeOK
      <4>3. \A k \in 1 .. call'[t].n : jobDeleted'[elements[k]]
        <5>1. \A k \in 1 .. n : k = n \/ k \in 1 .. call[t].n
          BY <3>3 DEF n
        <5>2. \A k \in 1 .. call[t].n : jobDeleted[elements[k]]
          BY <2>0, <3>1 DEF ListInv
        <5>3. \A k \in 1 .. call[t].n : elements[k] \in Job
          <6>1. \A k \in 1 .. call[t].n : k \in 1 .. Len(elements)
            BY <3>1, <3>3, SizeType DEF n
          <6> QED BY <6>1, SizeType, ElementOfSeq
        <5> QED BY <3>2, <4>1, <4>2, <5>1, <5>2, <5>3 DEF j
      <4>4. /\ \A u \in Caller : call[u].op = "adding" => call'[u] = call[u]
            /\ \A u \in Caller : call'[u].op = "deleting" =>
                 call'[u] = call[u] \/ \A k \in 1 .. call'[u].n : jobDeleted'[elements[k]]
        BY <3>1, <3>2, <4>3
      <4>5. call'[Finalizer].op = "freeing" => ~kept' /\ ~Closing'
        BY <1>0, <2>0, <3>1, <3>2 DEF ListInv, Closing
      <4> QED BY <3>1, <4>1, <4>4, <4>5, ListFewer
    <3> QED BY <2>9, <3>4, <3>5 DEF ListedDone
  <2>10. CASE Closed(t)
    <3>1. /\ call[t].op = "deleting" /\ call[t].n = size /\ size' = 0
          /\ call' = [call EXCEPT ![t] = Idle] /\ UNCHANGED <<job, jobDeleted, kept>>
      BY <2>10 DEF Closed
    <3>2. Closing /\ call[Finalizer].op # "freeing" /\ \A u \in Thread : u # t => call[u].op = "idle"
      BY <3>1 DEF Closing, ListInv, Typed, CloseOK
    <3>3. \A u \in Caller : call[u].op \notin {"freeing", "adding"}
      BY <3>1, <3>2 DEF Caller, Typed, CloseOK
    <3>4. \A j \in Job : job[j] # "live"
      <4> SUFFICES ASSUME NEW j \in Job, job[j] = "live" PROVE FALSE
        OBVIOUS
      <4>1. ~jobDeleted[j]
        BY <3>3 DEF FateInv, InCall
      <4>2. Listed(j, size)
        BY <3>3, <4>1 DEF ListInv
      <4>3. jobDeleted[j]
        BY <2>0, <3>1, <4>2 DEF ListInv, Listed
      <4> QED BY <4>1, <4>3
    <3>5. call'[t].op = "idle" /\ \A u \in Caller : u # t => call'[u] = call[u]
      BY <2>0, <3>1, CallTurns DEF Typed, Idle
    <3>6. \A u \in Caller : call'[u].op \notin {"freeing", "deleting"}
      BY <1>0, <3>2, <3>3, <3>5 DEF Caller, Typed, CloseOK
    <3> QED BY <1>0, <3>1, <3>4, <3>6 DEF ListInv
  <2> QED BY <1>2, <2>1, <2>2, <2>3, <2>4, <2>5, <2>6, <2>7, <2>8, <2>9, <2>10, <2>11 DEF ThreadStep
<1>3. ASSUME NEW t \in Caller, Freed(t) PROVE ListInv'
  <2>1. /\ UNCHANGED <<compiler, elements, size, jobDeleted, kept>> /\ call[t].op = "freeing"
        /\ Destroyed(call[t].job) /\ call' = [call EXCEPT ![t] = Idle]
    BY <1>3 DEF Freed
  <2>2. call'[t].op = "idle" /\ \A u \in Caller : u # t => call'[u] = call[u]
    BY <2>1, CallTurns DEF Typed, Idle
  <2>3. call[t].job \in Job
    BY <2>1, CallerTypes
  <2>4. \A k \in Job : (jobDeleted[k] => jobDeleted'[k]) /\ (job'[k] = "live" => job[k] = "live")
    BY <2>1, <2>3 DEF Destroyed, Typed, TypeOK
  <2>5. /\ \A u \in Caller : call[u].op = "adding" => call'[u] = call[u]
        /\ \A u \in Caller : call'[u].op = "deleting" => call'[u] = call[u]
    BY <2>1, <2>2
  <2>6. call'[Finalizer].op = "freeing" => ~kept' /\ ~Closing'
    BY <1>0, <2>1, <2>2, <2>5 DEF ListInv, Closing
  <2> QED BY <2>1, <2>4, <2>5, <2>6, ListFewer
<1>4. ASSUME NEW j \in Job, Finalize(j) PROVE ListInv'
  <2>1. /\ UNCHANGED <<compiler, elements, size, job, kept>> /\ job[j] # "none" /\ ~Reachable(j)
        /\ call[Finalizer].op = "idle"
    BY <1>4 DEF Finalize, Free
  <2>2. CASE jobDeleted[j]
    <3>1. UNCHANGED <<jobDeleted, call>>
      BY <1>4, <2>2 DEF Finalize
    <3> QED BY <1>1, <2>1, <3>1
  <2>3. CASE ~jobDeleted[j]
    <3>1. /\ jobDeleted' = [jobDeleted EXCEPT ![j] = TRUE]
          /\ call' = [call EXCEPT ![Finalizer] = Call("freeing", j, Null, 0)]
      BY <1>4, <2>3 DEF Finalize, DeletedAfter
    <3>2. call'[Finalizer].op = "freeing" /\ \A u \in Caller : u # Finalizer => call'[u] = call[u]
      BY <1>0, <3>1, CallTurns DEF Typed
    <3>3. job[j] = "live"
      BY <2>1, <2>3 DEF FateInv, Typed, TypeOK
    <3>4. Listed(j, size) \/ Adding(j)
      BY <2>3, <3>3 DEF ListInv, Adding
    <3>5. ~Adding(j)
      BY <2>1, <1>0 DEF Adding, Reachable, Using, Caller
    <3>6. ~kept /\ \A u \in Thread : call[u].op # "deleting"
      <4>1. PICK k \in 1 .. size : elements[k] = j
        BY <3>4, <3>5 DEF Listed
      <4>2. k \in DOMAIN elements
        BY SizeType
      <4> QED BY <2>1, <4>1, <4>2 DEF Reachable
    <3>7. ~kept' /\ ~Closing'
      BY <1>0, <2>1, <3>2, <3>6 DEF Closing
    <3>8. \A k \in Job : (jobDeleted[k] => jobDeleted'[k]) /\ (job'[k] = "live" => job[k] = "live")
      BY <2>1, <3>1 DEF Typed, TypeOK
    <3>9. /\ \A u \in Caller : call[u].op = "adding" => call'[u] = call[u]
          /\ \A u \in Caller : call'[u].op = "deleting" => call'[u] = call[u]
      BY <2>1, <3>2
    <3> QED BY <2>1, <3>7, <3>8, <3>9, ListFewer
  <2> QED BY <2>2, <2>3
<1>5. CASE DropCompiler \/ (\E j \in Job : DropJob(j)) \/ UNCHANGED vars
  <2>1. UNCHANGED <<compiler, elements, size, job, jobDeleted, call>> /\ (kept' => kept)
    BY <1>5 DEF DropCompiler, DropJob, vars
  <2> QED BY <1>1, <2>1
<1> QED BY <1>2, <1>3, <1>4, <1>5, CleanSteps

-----------------------------------------------------------------------------
(* Every fault of a careful client is explained.                           *)

\* Steps of a call that begin no parse, under an includer that stays.
LEMMA ParseStill ==
  ASSUME ParseInv, includer' = includer,
         \A u \in Caller : call'[u].op \in Scan =>
           call[u].op \in Scan /\ call'[u].inc = call[u].inc,
         (\E u \in Caller : call[u].op \in Scan) => UNCHANGED swap
  PROVE  ParseInv'
BY ScanIsParsing, ScanStaysParsing DEF ParseInv

LEMMA RaceStep ==
  ASSUME ObjectsAssumption, Typed, SwapInv, ParseInv, [Next]_vars, Up',
         "includerRace" \notin mishaps'
  PROVE  ParseInv'
<1> USE DEF wrappers, natives
<1>0. Thread \subseteq Caller /\ Finalizer \in Caller /\ Finalizer \notin Thread
  BY DEF Caller, ObjectsAssumption
<1>1. ASSUME UNCHANGED <<includer, call, swap>> PROVE ParseInv'
  BY <1>1, ParseStill
<1>a. ASSUME UNCHANGED <<includer, swap>>, NEW t \in Caller, NEW op, NEW j, NEW i, NEW n,
             call' = [call EXCEPT ![t] = Call(op, j, i, n)],
             op \in Scan => call[t].op \in Scan /\ i = call[t].inc
      PROVE  ParseInv'
  <2>1. call'[t] = Call(op, j, i, n) /\ \A u \in Caller : u # t => call'[u] = call[u]
    BY <1>a, CallMoves DEF Typed
  <2>2. call'[t].op = op /\ call'[t].inc = i
    BY <2>1, CallFields
  <2>3. \A u \in Caller : call'[u].op \in Scan => call[u].op \in Scan /\ call'[u].inc = call[u].inc
    BY <1>a, <2>1, <2>2
  <2> QED BY <1>a, <2>3, ParseStill
<1>2. ASSUME NEW t \in Thread, ThreadStep(t) PROVE ParseInv'
  <2>0. t \in Caller
    BY <1>0
  <2>1. CASE Noted
    BY <1>1, <2>1 DEF Noted
  <2>2. CASE \E j \in Job : CreateJob(t, j)
    <3>1. PICK j \in Job : CreateJob(t, j)
      BY <2>2
    <3>2. UNCHANGED <<includer, swap>> /\ call' = [call EXCEPT ![t] = Call("adding", j, Null, size)]
      BY <3>1 DEF CreateJob
    <3>3. "adding" \notin Scan
      BY DEF Scan
    <3> QED BY <1>a, <2>0, <3>2, <3>3
  <2>3. CASE \E j \in Job : Begun(t, j)
    <3>1. PICK j \in Job : Begun(t, j)
      BY <2>3
    <3>2. /\ UNCHANGED <<includer, swap>> /\ \A u \in Caller : swap[u] = NoSwap
          /\ call' = [call EXCEPT ![t] = Call("parsing", j, includer, 0)]
      BY <3>1 DEF Begun
    <3>a. /\ call'[t] = Call("parsing", j, includer, 0)
          /\ \A u \in Caller : u # t => call'[u] = call[u]
      BY <2>0, <3>2, CallMoves DEF Typed
    <3>3. call'[t].inc = includer /\ \A u \in Caller : u # t => call'[u] = call[u]
      BY <3>a, CallFields
    <3> QED BY <3>2, <3>3, ScanIsParsing, ScanStaysParsing DEF ParseInv
  <2>4. CASE \E j \in Job : ClientDeletesJob(t, j)
    <3>1. PICK j \in Job : ClientDeletesJob(t, j)
      BY <2>4
    <3>2. UNCHANGED <<includer, swap>> /\ call' = [call EXCEPT ![t] = Call("testing", j, Null, 0)]
      BY <3>1 DEF ClientDeletesJob, wrappers
    <3>3. "testing" \notin Scan
      BY DEF Scan
    <3> QED BY <1>a, <2>0, <3>2, <3>3
  <2>12. CASE FlagJob(t)
    <3>1. /\ UNCHANGED <<includer, swap>>
          /\ call' = [call EXCEPT ![t] = Call("freeing", call[t].job, Null, 0)]
      BY <2>12 DEF FlagJob
    <3>2. "freeing" \notin Scan
      BY DEF Scan
    <3> QED BY <1>a, <2>0, <3>1, <3>2
  <2>5. CASE AddJob(t) \/ Returned(t)
    <3>1. UNCHANGED <<includer, swap>> /\ call' = [call EXCEPT ![t] = Call("idle", NoJob, Null, 0)]
      BY <2>5 DEF AddJob, Returned, Idle
    <3>2. "idle" \notin Scan
      BY DEF Scan
    <3> QED BY <1>a, <2>0, <3>1, <3>2
  <2>6. CASE Parsed(t)
    <3>1. PICK op \in Scan, n \in Nat : call' = [call EXCEPT ![t] = Later(call[t], op, n)]
      BY <2>6 DEF Parsed
    <3>2. /\ UNCHANGED <<includer, swap>> /\ call[t].op \in Scan
          /\ call' = [call EXCEPT ![t] = Call(op, call[t].job, call[t].inc, n)]
      BY <2>6, <3>1 DEF Parsed, Later
    <3> QED BY <1>a, <2>0, <3>2
  <2>7. CASE (\E i \in Includer : SwapBegun(t, i)) \/ OldFreed(t)
    <3>1. UNCHANGED <<includer, call>>
      BY <2>7 DEF SwapBegun, OldFreed
    <3>2. \A u \in Caller : call[u].op \notin Scan
      <4>1. CASE \E i \in Includer : SwapBegun(t, i)
        BY <4>1, ScanIsParsing DEF SwapBegun
      <4>2. CASE OldFreed(t)
        <5>1. swap[t] # NoSwap
          BY <2>0, <4>2 DEF OldFreed, Typed, CallOK
        <5> QED BY <2>0, <5>1, ScanIsParsing DEF ParseInv
      <4> QED BY <2>7, <4>1, <4>2
    <3> QED BY <3>1, <3>2, ScanStaysParsing DEF ParseInv
  <2>8. CASE AssignIncluder(t)
    <3>1. swap[t].step = "assign" /\ call' = call
      BY <2>8 DEF AssignIncluder
    <3>2. swap[t] # NoSwap
      <4>1. NoSwap.step = "idle"
        BY CallFields DEF NoSwap
      <4> QED BY <3>1, <4>1
    <3>3. \A u \in Caller : call[u].op \notin Scan
      BY <2>0, <3>2, ScanIsParsing DEF ParseInv
    <3> QED BY <3>1, <3>3, ScanStaysParsing DEF ParseInv
  <2>9. CASE DeleteCompiler(t)
    <3>1. UNCHANGED <<includer, swap>> /\ call' = [call EXCEPT ![t] = Call("deleting", NoJob, Null, 0)]
      BY <2>9 DEF DeleteCompiler
    <3>2. "deleting" \notin Scan
      BY DEF Scan
    <3> QED BY <1>a, <2>0, <3>1, <3>2
  <2>10. CASE ListedDone(t)
    <3>1. /\ UNCHANGED <<includer, swap>>
          /\ call' = [call EXCEPT ![t] = Call("deleting", call[t].job, call[t].inc, call[t].n + 1)]
      BY <2>10 DEF ListedDone, Later
    <3>2. "deleting" \notin Scan
      BY DEF Scan
    <3> QED BY <1>a, <2>0, <3>1, <3>2
  <2>11. CASE Closed(t)
    <3>1. call[t].op = "deleting" /\ call' = [call EXCEPT ![t] = Idle]
      BY <2>11 DEF Closed
    <3>2. call'[t].op = "idle" /\ \A u \in Caller : u # t => call'[u] = call[u]
      BY <2>0, <3>1, CallTurns DEF Typed, Idle
    <3>3. \A u \in Caller : call'[u].op \in {"idle", "freeing"}
      BY <3>1, <3>2 DEF Caller, Typed, CloseOK
    <3> QED BY <3>3, ScanStaysParsing DEF ParseInv, Scan
  <2> QED BY <1>2, <2>1, <2>2, <2>3, <2>4, <2>5, <2>6, <2>7, <2>8, <2>9, <2>10, <2>11, <2>12 DEF ThreadStep
<1>3. ASSUME NEW t \in Caller, Freed(t) PROVE ParseInv'
  <2>1. UNCHANGED <<includer, swap>> /\ call' = [call EXCEPT ![t] = Call("idle", NoJob, Null, 0)]
    BY <1>3 DEF Freed, Idle
  <2>2. "idle" \notin Scan
    BY DEF Scan
  <2> QED BY <1>a, <2>1, <2>2
<1>4. ASSUME NEW j \in Job, Finalize(j) PROVE ParseInv'
  <2>1. UNCHANGED <<includer, swap>>
    BY <1>4 DEF Finalize
  <2>2. \/ call' = call \/ call' = [call EXCEPT ![Finalizer] = Call("freeing", j, Null, 0)]
    BY <1>4 DEF Finalize
  <2>3. "freeing" \notin Scan
    BY DEF Scan
  <2> QED BY <1>0, <1>1, <1>a, <2>1, <2>2, <2>3
<1>5. CASE DropCompiler \/ (\E j \in Job : DropJob(j)) \/ UNCHANGED vars
  BY <1>1, <1>5 DEF DropCompiler, DropJob, vars
<1> QED BY <1>2, <1>3, <1>4, <1>5, CleanSteps

\* A step of one call, which becomes Call(op, j, i, n).
LEMMA UseCall ==
  ASSUME Typed, UseInv, mishaps \subseteq mishaps', UNCHANGED <<job, name>>,
         NEW t \in Caller, NEW op, NEW j, NEW i, NEW n, call' = [call EXCEPT ![t] = Call(op, j, i, n)],
         op \in Scan => (call[t].op \in Scan /\ j = call[t].job) \/ (job[j] = "live" /\ ~InUse(j)),
         op \in Ending => \/ ~InUse(j) \/ "finalizedInUse" \in mishaps'
                          \/ call[t].op \in Ending /\ j = call[t].job,
         op = "throwing" => call[t].op = "throwing" \/ "thrown" \in mishaps'
  PROVE  UseInv'
<1>1. call'[t].op = op /\ call'[t].job = j /\ \A u \in Caller : u # t => call'[u] = call[u]
  <2>1. call'[t] = Call(op, j, i, n) /\ \A u \in Caller : u # t => call'[u] = call[u]
    BY CallMoves DEF Typed
  <2> QED BY <2>1, CallFields
<1>2. \A k \in Job : name'[k] = "stale" => "unnamed" \in mishaps'
  BY DEF UseInv
<1>3. \A u \in Caller : call'[u].op = "throwing" => "thrown" \in mishaps'
  BY <1>1 DEF UseInv
<1>4. \A u \in Caller : call'[u].op \in Scan => job'[call'[u].job] = "live" \/ "finalizedInUse" \in mishaps'
  BY <1>1, ScanIsParsing DEF UseInv
<1>5. ASSUME NEW u \in Caller, NEW v \in Caller, call'[u].op \in Scan, call'[v].op \in Ending,
             call'[u].job = call'[v].job
      PROVE  "finalizedInUse" \in mishaps'
  <2>0. Ending \cap Scan = {}
    BY DEF Scan, Ending
  <2>1. CASE u # t /\ v # t
    BY <1>1, <1>5, <2>1, ScanIsParsing DEF UseInv
  <2>2. CASE u = t
    <3>1. v # t /\ call[v].op \in Ending /\ call[v].job = j /\ op \in Scan
      BY <1>1, <1>5, <2>0, <2>2
    <3>2. InUse(j)
      BY <3>1 DEF InUse, Using
    <3>3. call[t].op \in Scan /\ call[t].job = j
      BY <3>1, <3>2
    <3> QED BY <3>1, <3>3, ScanIsParsing DEF UseInv
  <2>3. CASE v = t
    <3>1. u # t /\ call[u].job = j /\ call[u].op \in Scan /\ op \in Ending
      BY <1>1, <1>5, <2>0, <2>3
    <3>2. InUse(j)
      BY <3>1 DEF InUse, Using
    <3>3. CASE call[t].op \in Ending /\ j = call[t].job
      BY <3>1, <3>3, ScanIsParsing DEF UseInv
    <3> QED BY <3>1, <3>2, <3>3
  <2> QED BY <2>1, <2>2, <2>3
<1> QED BY <1>2, <1>3, <1>4, <1>5, ScanStaysParsing DEF UseInv

\* Steps that leave the calls alone.
LEMMA UseStill ==
  ASSUME UseInv, mishaps \subseteq mishaps', UNCHANGED <<job, call>>,
         \A j \in Job : name'[j] = "stale" => name[j] = "stale" \/ "unnamed" \in mishaps'
  PROVE  UseInv'
<1>1. \A u \in Caller : Parsing(u)' <=> Parsing(u)
  BY DEF Parsing, Scanning
<1> QED BY <1>1 DEF UseInv

\* Steps that free a job nobody parses, or that was finalized in use.
LEMMA UseFreed ==
  ASSUME Typed, UseInv, mishaps \subseteq mishaps', NEW j \in Job, Destroyed(j),
         \A u \in Caller : call'[u].op \in Scan \cup Ending => call'[u] = call[u],
         \A u \in Caller : call[u].op \in Scan /\ call[u].job = j => "finalizedInUse" \in mishaps
  PROVE  UseInv'
<1>1. /\ \A k \in Job : k # j => job'[k] = job[k]
      /\ \A k \in Job : name'[k] = "stale" => name[k] = "stale"
  BY DEF Destroyed, Typed, TypeOK
<1>2. \A u \in Caller : call'[u].op = "throwing" => call'[u] = call[u]
  BY DEF Scan
<1>3. ASSUME NEW u \in Caller, call'[u].op \in Scan
      PROVE  job'[call'[u].job] = "live" \/ "finalizedInUse" \in mishaps'
  <2>1. call'[u] = call[u] /\ call[u].op \in Scan
    BY <1>3
  <2>2. call[u].job \in Job
    BY <2>1 DEF Typed, TypeOK, CallOK, Scan
  <2>3. job[call[u].job] = "live" \/ "finalizedInUse" \in mishaps
    BY <2>1, ScanIsParsing DEF UseInv
  <2> QED BY <1>1, <2>1, <2>2, <2>3
<1>4. \A k \in Job : name'[k] = "stale" => "unnamed" \in mishaps'
  BY <1>1 DEF UseInv
<1>5. \A u \in Caller : call'[u].op = "throwing" => "thrown" \in mishaps'
  BY <1>2 DEF UseInv
<1>6. \A u, v \in Caller : call'[u].op \in Scan /\ call'[v].op \in Ending /\ call'[u].job = call'[v].job =>
        "finalizedInUse" \in mishaps'
  BY ScanIsParsing DEF UseInv
<1> QED BY <1>3, <1>4, <1>5, <1>6, ScanStaysParsing DEF UseInv

LEMMA UseStep ==
  ASSUME ObjectsAssumption, Careful, Typed, FateInv, UseInv, [Next]_vars, Up'
  PROVE  UseInv'
<1> USE DEF wrappers, natives
<1>0. /\ Thread \subseteq Caller /\ Finalizer \in Caller
      /\ ({"adding", "idle", "deleting"} \cup Ending) \cap Scan = {}
      /\ {"adding", "idle", "deleting"} \cap Ending = {}
  BY DEF Caller, Scan, Ending
<1>a. mishaps \subseteq mishaps'
  BY MishapsStay
<1>2. ASSUME NEW t \in Thread, ThreadStep(t) PROVE UseInv'
  <2>0. t \in Caller
    BY <1>0
  <2>1. CASE Noted
    BY <1>a, <2>1, UseStill DEF Noted
  <2>2. CASE \E j \in Job : CreateJob(t, j)
    <3>1. PICK j \in Job : CreateJob(t, j)
      BY <2>2
    <3>2. /\ UNCHANGED name /\ job[j] = "none" /\ job' = [job EXCEPT ![j] = "live"]
          /\ call' = [call EXCEPT ![t] = Call("adding", j, Null, size)]
      BY <3>1 DEF CreateJob
    <3>3. call'[t].op = "adding" /\ \A u \in Caller : u # t => call'[u] = call[u]
      BY <2>0, <3>2, CallTurns DEF Typed
    <3>4. \A k \in Job : job[k] = "live" => job'[k] = "live"
      BY <3>2 DEF Typed, TypeOK
    <3>5. \A u \in Caller : call'[u].op \in Scan \cup Ending \cup {"throwing"} => call'[u] = call[u]
      BY <1>0, <3>3
    <3>6. \A u \in Caller : call[u].op \in Scan => call[u].job \in Job
      BY DEF Typed, TypeOK, CallOK, Scan
    <3>7. \A u \in Caller : call'[u].op \in Scan =>
            job'[call'[u].job] = "live" \/ "finalizedInUse" \in mishaps'
      BY <1>a, <3>4, <3>5, <3>6, ScanIsParsing DEF UseInv
    <3>8. \A u, v \in Caller :
            call'[u].op \in Scan /\ call'[v].op \in Ending /\ call'[u].job = call'[v].job =>
              "finalizedInUse" \in mishaps'
      BY <1>a, <3>5, ScanIsParsing DEF UseInv
    <3>9. \A u \in Caller : call'[u].op = "throwing" => "thrown" \in mishaps'
      BY <1>a, <3>5 DEF UseInv
    <3>10. \A k \in Job : name'[k] = "stale" => "unnamed" \in mishaps'
      BY <1>a, <3>2 DEF UseInv
    <3> QED BY <3>7, <3>8, <3>9, <3>10, ScanStaysParsing DEF UseInv
  <2>3. CASE \E j \in Job : Begun(t, j)
    <3>1. PICK j \in Job : Begun(t, j)
      BY <2>3
    <3>2. /\ UNCHANGED <<job, name>> /\ job[j] = "live" /\ ~InUse(j)
          /\ call' = [call EXCEPT ![t] = Call("parsing", j, includer, 0)]
      BY <3>1 DEF Begun, MayCallJob
    <3>3. "parsing" \notin Ending /\ "parsing" # "throwing"
      BY DEF Ending
    <3> QED BY <1>a, <2>0, <3>2, <3>3, UseCall
  <2>4. CASE \E j \in Job : ClientDeletesJob(t, j)
    <3>1. PICK j \in Job : ClientDeletesJob(t, j)
      BY <2>4
    <3>2. /\ UNCHANGED <<job, name>> /\ ~InUse(j)
          /\ call' = [call EXCEPT ![t] = Call("testing", j, Null, 0)]
      BY <3>1 DEF ClientDeletesJob, MayDeleteJob
    <3>3. "testing" \notin Scan /\ "testing" # "throwing"
      BY DEF Scan
    <3> QED BY <1>a, <2>0, <3>2, <3>3, UseCall
  <2>10. CASE FlagJob(t)
    <3> DEFINE j == call[t].job
    <3>1. /\ UNCHANGED <<job, name>> /\ call[t].op \in Ending
          /\ call' = [call EXCEPT ![t] = Call("freeing", j, Null, 0)]
      BY <2>10 DEF FlagJob, Ending
    <3>2. "freeing" \notin Scan /\ "freeing" # "throwing" /\ j = call[t].job
      BY DEF Scan
    <3> HIDE DEF j
    <3> QED BY <1>a, <2>0, <3>1, <3>2, UseCall
  <2>5. CASE AddJob(t) \/ Returned(t) \/ Closed(t)
    <3>1. UNCHANGED <<job, name>> /\ call' = [call EXCEPT ![t] = Call("idle", NoJob, Null, 0)]
      BY <2>5 DEF AddJob, Returned, Closed, Idle
    <3>2. "idle" \notin Scan /\ "idle" \notin Ending /\ "idle" # "throwing"
      BY DEF Scan, Ending
    <3> QED BY <1>a, <2>0, <3>1, <3>2, UseCall
  <2>6. CASE Parsed(t)
    <3>1. PICK op \in Scan, n \in Nat :
            /\ call' = [call EXCEPT ![t] = Later(call[t], op, n)]
            /\ op = "throwing" => call[t].op = "throwing" \/ "thrown" \in mishaps'
      BY <2>6 DEF Parsed
    <3>2. /\ UNCHANGED <<job, name>> /\ call[t].op \in Scan
          /\ call' = [call EXCEPT ![t] = Call(op, call[t].job, call[t].inc, n)]
      BY <2>6, <3>1 DEF Parsed, Later
    <3> DEFINE j == call[t].job
               i == call[t].inc
    <3>3. /\ op \notin Ending /\ (op \in Scan => call[t].op \in Scan /\ j = call[t].job)
          /\ op = "throwing" => call[t].op = "throwing" \/ "thrown" \in mishaps'
      BY <1>0, <3>1, <3>2
    <3>4. UNCHANGED <<job, name>> /\ call' = [call EXCEPT ![t] = Call(op, j, i, n)]
      BY <3>2
    <3> HIDE DEF j, i
    <3> QED BY <1>a, <2>0, <3>3, <3>4, UseCall
  <2>7. CASE (\E i \in Includer : SwapBegun(t, i)) \/ OldFreed(t) \/ AssignIncluder(t)
    BY <1>a, <2>7, UseStill DEF SwapBegun, OldFreed, AssignIncluder
  <2>8. CASE DeleteCompiler(t)
    <3>1. UNCHANGED <<job, name>> /\ call' = [call EXCEPT ![t] = Call("deleting", NoJob, Null, 0)]
      BY <2>8 DEF DeleteCompiler
    <3> QED BY <1>0, <1>a, <2>0, <3>1, UseCall
  <2>9. CASE ListedDone(t)
    <3> DEFINE n == call[t].n + 1
               j == elements[n]
    <3>1. /\ call[t].op = "deleting" /\ n <= size
          /\ call' = [call EXCEPT ![t] = Call("deleting", call[t].job, call[t].inc, n)]
      BY <2>9 DEF ListedDone, Later
    <3>2. CASE UNCHANGED <<job, name>>
      BY <1>0, <1>a, <2>0, <3>1, <3>2, UseCall
    <3>3. CASE Destroyed(j)
      <4>1. j \in Job
        BY <3>1, NextListed
      <4>2. call'[t] = Call("deleting", call[t].job, call[t].inc, n)
              /\ \A u \in Caller : u # t => call'[u] = call[u]
        BY <2>0, <3>1, CallMoves DEF Typed
      <4>3. call'[t].op = "deleting"
        BY <4>2, CallFields
      <4>4. \A u \in Caller : call'[u].op \in Scan \cup Ending => call'[u] = call[u]
        BY <1>0, <4>2, <4>3
      <4>5. \A u \in Caller : call[u].op \notin Scan
        BY <3>1 DEF Caller, Typed, CloseOK, Scan
      <4> HIDE DEF j, n
      <4> QED BY <1>a, <3>3, <4>1, <4>4, <4>5, UseFreed
    <3> QED BY <2>9, <3>2, <3>3 DEF ListedDone
  <2> QED BY <1>2, <2>1, <2>2, <2>3, <2>4, <2>5, <2>6, <2>7, <2>8, <2>9, <2>10 DEF ThreadStep
<1>3. ASSUME NEW t \in Caller, Freed(t) PROVE UseInv'
  <2> DEFINE j == call[t].job
  <2>1. call[t].op = "freeing" /\ Destroyed(j) /\ call' = [call EXCEPT ![t] = Idle]
    BY <1>3 DEF Freed
  <2>2. j \in Job
    BY <2>1, CallerTypes
  <2>3. call'[t].op = "idle" /\ \A u \in Caller : u # t => call'[u] = call[u]
    BY <2>1, CallTurns DEF Typed, Idle
  <2>4. \A u \in Caller : call'[u].op \in Scan \cup Ending => call'[u] = call[u]
    BY <1>0, <2>3
  <2>5. \A u \in Caller : call[u].op \in Scan /\ call[u].job = j => "finalizedInUse" \in mishaps
    BY <2>1, ScanIsParsing DEF UseInv, Ending
  <2> HIDE DEF j
  <2> QED BY <1>a, <2>1, <2>2, <2>4, <2>5, UseFreed
<1>4. ASSUME NEW j \in Job, Finalize(j) PROVE UseInv'
  <2>1. UNCHANGED <<job, name>>
    BY <1>4 DEF Finalize
  <2>2. CASE jobDeleted[j]
    <3>1. UNCHANGED call
      BY <1>4, <2>2 DEF Finalize
    <3> QED BY <1>a, <2>1, <3>1, UseStill
  <2>3. CASE ~jobDeleted[j]
    <3>1. /\ call' = [call EXCEPT ![Finalizer] = Call("freeing", j, Null, 0)]
          /\ ~InUse(j) \/ "finalizedInUse" \in mishaps'
      BY <1>4, <2>3 DEF Finalize
    <3>2. "freeing" \notin Scan /\ "freeing" # "throwing"
      BY DEF Scan
    <3> QED BY <1>0, <1>a, <2>1, <3>1, <3>2, UseCall
  <2> QED BY <2>2, <2>3
<1>5. CASE DropCompiler \/ (\E j \in Job : DropJob(j)) \/ UNCHANGED vars
  BY <1>a, <1>5, UseStill DEF DropCompiler, DropJob, vars
<1> QED BY <1>2, <1>3, <1>4, <1>5, CleanSteps

\* An includer without a Java object comes from a setIncluder(null).
HollowStill ==
  /\ includer' \in {includer, Null} \cup {swap[u].inc : u \in Caller}
  /\ \A u \in Caller : call'[u].inc \in {call[u].inc, includer, Null}
  /\ \A u \in Caller :
       \/ swap'[u].inc \in {swap[u].inc, Null}
       \/ swap'[u].inc \in Hollow => "nullIncluder" \in mishaps'

LEMMA HollowStep ==
  ASSUME ObjectsAssumption, Typed, HollowInv, [Next]_vars, Up'
  PROVE  HollowInv'
<1> USE DEF wrappers, natives
<1>0. Thread \subseteq Caller /\ Finalizer \in Caller /\ Idle.inc = Null /\ NoSwap.inc = Null
  BY CallFields DEF Caller, Idle, NoSwap
<1>a. mishaps \subseteq mishaps' /\ Null \notin Hollow
  BY MishapsStay DEF ObjectsAssumption
<1>1. ASSUME HollowStill PROVE HollowInv'
  BY <1>1, <1>a DEF HollowStill, HollowInv
<1>b. ASSUME UNCHANGED <<includer, swap>>, NEW t \in Caller, NEW op, NEW j, NEW n,
             NEW i \in {call[t].inc, includer, Null}, call' = [call EXCEPT ![t] = Call(op, j, i, n)]
      PROVE  HollowInv'
  <2>0. call'[t] = Call(op, j, i, n) /\ \A u \in Caller : u # t => call'[u] = call[u]
    BY <1>b, CallMoves DEF Typed
  <2>1. call'[t].inc = i /\ \A u \in Caller : u # t => call'[u] = call[u]
    BY <2>0, CallFields
  <2>2. HollowStill
    BY <1>b, <2>1 DEF HollowStill
  <2> QED BY <1>1, <2>2
<1>c. ASSUME UNCHANGED <<includer, swap, call>> PROVE HollowInv'
  <2>1. HollowStill
    BY <1>c DEF HollowStill
  <2> QED BY <1>1, <2>1
<1>2. ASSUME NEW t \in Thread, ThreadStep(t) PROVE HollowInv'
  <2>0. t \in Caller
    BY <1>0
  <2>1. CASE Noted
    BY <1>c, <2>1 DEF Noted
  <2>2. CASE \E j \in Job : CreateJob(t, j)
    <3>1. PICK j \in Job : CreateJob(t, j)
      BY <2>2
    <3>2. UNCHANGED <<includer, swap>> /\ call' = [call EXCEPT ![t] = Call("adding", j, Null, size)]
      BY <3>1 DEF CreateJob
    <3> QED BY <1>b, <2>0, <3>2
  <2>3. CASE \E j \in Job : Begun(t, j)
    <3>1. PICK j \in Job : Begun(t, j)
      BY <2>3
    <3>2. UNCHANGED <<includer, swap>> /\ call' = [call EXCEPT ![t] = Call("parsing", j, includer, 0)]
      BY <3>1 DEF Begun
    <3> QED BY <1>b, <2>0, <3>2
  <2>4. CASE \E j \in Job : ClientDeletesJob(t, j)
    BY <1>b, <2>0, <2>4 DEF ClientDeletesJob
  <2>5. CASE FlagJob(t)
    BY <1>b, <2>0, <2>5 DEF FlagJob
  <2>6. CASE AddJob(t) \/ Returned(t)
    BY <1>b, <2>0, <2>6 DEF AddJob, Returned, Idle
  <2>7. CASE Parsed(t)
    <3>1. UNCHANGED <<includer, swap>> /\ \E op \in Scan, n \in Nat :
            call' = [call EXCEPT ![t] = Call(op, call[t].job, call[t].inc, n)]
      BY <2>7 DEF Parsed, Later
    <3> QED BY <1>b, <2>0, <3>1
  <2>8. CASE DeleteCompiler(t)
    BY <1>b, <2>0, <2>8 DEF DeleteCompiler
  <2>9. CASE ListedDone(t)
    BY <1>b, <2>0, <2>9 DEF ListedDone, Later
  <2>10. CASE Closed(t)
    <3>1. /\ includer' = Null /\ swap' = swap
          /\ call' = [call EXCEPT ![t] = Call("idle", NoJob, Null, 0)]
      BY <2>10 DEF Closed, Idle
    <3>a. call'[t] = Call("idle", NoJob, Null, 0) /\ \A u \in Caller : u # t => call'[u] = call[u]
      BY <2>0, <3>1, CallMoves DEF Typed
    <3>2. call'[t].inc = Null /\ \A u \in Caller : u # t => call'[u] = call[u]
      BY <3>a, CallFields
    <3>3. HollowStill
      BY <3>1, <3>2 DEF HollowStill
    <3> QED BY <1>1, <3>3
  <2>11. CASE \E i \in Includer : SwapBegun(t, i)
    <3>1. PICK i \in Includer : SwapBegun(t, i)
      BY <2>11
    <3>2. /\ UNCHANGED <<includer, call>> /\ (i \in Hollow => "nullIncluder" \in mishaps')
          /\ swap' = [swap EXCEPT ![t] = Swapping("free", i)]
      BY <3>1 DEF SwapBegun
    <3>3. swap'[t].inc = i /\ \A u \in Caller : u # t => swap'[u] = swap[u]
      BY <2>0, <3>2, SwapTurns DEF Typed
    <3>4. HollowStill
      BY <3>2, <3>3 DEF HollowStill
    <3> QED BY <1>1, <3>4
  <2>12. CASE OldFreed(t)
    <3>1. /\ UNCHANGED <<includer, call>>
          /\ swap' = [swap EXCEPT ![t] = Swapping("assign", swap[t].inc)]
      BY <2>12 DEF OldFreed
    <3>2. swap'[t].inc = swap[t].inc /\ \A u \in Caller : u # t => swap'[u] = swap[u]
      BY <2>0, <3>1, SwapTurns DEF Typed
    <3>3. HollowStill
      BY <3>1, <3>2 DEF HollowStill
    <3> QED BY <1>1, <3>3
  <2>13. CASE AssignIncluder(t)
    <3>1. call' = call /\ includer' = swap[t].inc /\ swap' = [swap EXCEPT ![t] = NoSwap]
      BY <2>13 DEF AssignIncluder
    <3>2. swap'[t].inc = Null /\ \A u \in Caller : u # t => swap'[u] = swap[u]
      BY <1>0, <2>0, <3>1, SwapMoves DEF Typed
    <3>3. HollowStill
      BY <2>0, <3>1, <3>2 DEF HollowStill
    <3> QED BY <1>1, <3>3
  <2> QED BY <1>2, <2>1, <2>2, <2>3, <2>4, <2>5, <2>6, <2>7, <2>8, <2>9, <2>10, <2>11, <2>12, <2>13
          DEF ThreadStep
<1>3. ASSUME NEW t \in Caller, Freed(t) PROVE HollowInv'
  BY <1>3, <1>b DEF Freed, Idle
<1>4. ASSUME NEW j \in Job, Finalize(j) PROVE HollowInv'
  <2>1. UNCHANGED <<includer, swap>>
    BY <1>4 DEF Finalize
  <2>2. \/ call' = call \/ call' = [call EXCEPT ![Finalizer] = Call("freeing", j, Null, 0)]
    BY <1>4 DEF Finalize
  <2> QED BY <1>0, <1>b, <1>c, <2>1, <2>2
<1>5. CASE DropCompiler \/ (\E j \in Job : DropJob(j)) \/ UNCHANGED vars
  BY <1>5, <1>c DEF DropCompiler, DropJob, vars
<1> QED BY <1>2, <1>3, <1>4, <1>5, CleanSteps

AnyInv == Up => FateInv /\ HollowInv /\ ("includerRace" \notin mishaps => SwapInv)
CarefulInv ==
  Up => LifeInv /\ UseInv /\ ("lostAdd" \notin mishaps => ListInv)
        /\ ("includerRace" \notin mishaps => ParseInv)

LEMMA CarefulInit == ASSUME ObjectsAssumption, Init PROVE CarefulInv
<1>1. \A t \in Caller : call[t].op = "idle" /\ call[t].job = NoJob /\ swap[t] = NoSwap
  BY CallFields DEF Init, Idle
<1>2. compiler /\ ~deleted /\ (\A j \in Job : job[j] = "none" /\ name[j] = "null")
  BY DEF Init, InitialName
<1>3. Thread \subseteq Caller /\ Finalizer \in Caller
  BY DEF Caller
<1>4. \A t \in Caller : ~Parsing(t)
  BY <1>1, ScanIsParsing DEF Scan
<1>5. LifeInv
  BY <1>1, <1>2, <1>3, <1>4 DEF LifeInv, Closing
<1>6. ListInv
  BY <1>1, <1>2, <1>3 DEF ListInv
<1>7. UseInv
  BY <1>1, <1>2, <1>4 DEF UseInv
<1>8. ParseInv
  BY <1>4 DEF ParseInv
<1> QED BY <1>5, <1>6, <1>7, <1>8 DEF CarefulInv

AllInv == Typed /\ AnyInv /\ CarefulInv

LEMMA AllStep ==
  ASSUME ObjectsAssumption, Careful, AllInv, [Next]_vars
  PROVE  AllInv'
<1>1. Typed'
  BY TypeStep DEF AllInv
<1>2. ASSUME Up' PROVE AnyInv' /\ CarefulInv'
  <2>1. Up
    BY <1>2, CleanSteps DEF AllInv
  <2>2. mishaps \subseteq mishaps'
    BY MishapsStay
  <2>3. FateInv' /\ HollowInv'
    BY <1>2, <2>1, FateStep, HollowStep DEF AllInv, AnyInv
  <2>4. "includerRace" \notin mishaps' => SwapInv' /\ ParseInv'
    BY <1>2, <2>1, <2>2, SwapStep, RaceStep DEF AllInv, AnyInv, CarefulInv
  <2>5. LifeInv'
    BY <1>2, <2>1, LifeStep DEF AllInv, CarefulInv
  <2>6. UseInv'
    BY <1>2, <2>1, UseStep DEF AllInv, AnyInv, CarefulInv
  <2>7. "lostAdd" \notin mishaps' => ListInv'
    BY <1>2, <2>1, <2>2, ListStep DEF AllInv, AnyInv, CarefulInv
  <2> QED BY <2>3, <2>4, <2>5, <2>6, <2>7 DEF AnyInv, CarefulInv
<1>3. ~Up' => AnyInv' /\ CarefulInv'
  BY DEF AnyInv, CarefulInv
<1> QED BY <1>1, <1>2, <1>3 DEF AllInv

LEMMA AllInit == ASSUME ObjectsAssumption, Init PROVE AllInv
<1>1. includer = Forbid /\ \A t \in Caller : call[t].inc = Null /\ swap[t].inc = Null
  BY CallFields DEF Init, Idle, NoSwap
<1>2. HollowInv
  BY <1>1 DEF HollowInv, ObjectsAssumption
<1> QED BY <1>2, InitTypes, FateInit, SwapInit, CarefulInit DEF AllInv, AnyInv

\* ShaderCompiler.delete goes through compileJobs before it frees the compiler:
\* a careful client that lost no add is left without a job of a compiler that is
\* gone, though it may drop jobs and have them finalized in between.
THEOREM JobsGoFirst ==
  ASSUME ObjectsAssumption, Careful PROVE Spec => []CompilerOutlivesJobs
<1>1. Init => AllInv
  BY AllInit
<1>2. AllInv /\ [Next]_vars => AllInv'
  BY AllStep
<1>3. AllInv => CompilerOutlivesJobs
  BY DEF AllInv, CarefulInv, ListInv, CompilerOutlivesJobs
<1> QED BY <1>1, <1>2, <1>3, PTL DEF Spec

-----------------------------------------------------------------------------
(* The faults.                                                             *)

Accounted(m, t) == IF m = "env" THEN t # Loader ELSE Explains(m) \in mishaps'

LEMMA Accounts ==
  ASSUME NEW m, NEW t, NEW j, fault' = [memory |-> m, thread |-> t, job |-> j], Accounted(m, t)
  PROVE  FaultsExplained'
BY DEF FaultsExplained, Accounted

LEMMA Explanations ==
  /\ Explains("compiler") = "lostAdd" /\ Explains("job") = "finalizedInUse"
  /\ Explains("name") = "unnamed" /\ Explains("includer") = "includerRace"
  /\ Explains("method") = "systemInclude" /\ Explains("exception") = "thrown"
  /\ Explains("line") = "preprocess" /\ Explains("object") = "nullIncluder"
BY DEF Explains

LEMMA TouchAccounts ==
  ASSUME NEW m, NEW t, NEW j, Touches(t, m, j), m # "env", Explains(m) \in mishaps
  PROVE  FaultsExplained'
<1>1. fault' = [memory |-> m, thread |-> t, job |-> j] /\ mishaps' = mishaps
  BY DEF Touches
<1> QED BY <1>1, Accounts DEF Accounted

LEMMA EnvAccounts == ASSUME NEW t, EnvFails(t) PROVE FaultsExplained'
<1>1. t # Loader /\ Touches(t, "env", call[t].job)
  BY DEF EnvFails
<1>2. fault' = [memory |-> "env", thread |-> t, job |-> call[t].job]
  BY <1>1 DEF Touches
<1> QED BY <1>1, <1>2 DEF FaultsExplained

LEMMA UpAccounts == ASSUME fault' = NoFault PROVE FaultsExplained'
BY DEF FaultsExplained, NoFault

\* A careful client calls only jobs that are there.
LEMMA CalledIsLive ==
  ASSUME Careful, Typed, FateInv, NEW j \in Job, MayCallJob(j)
  PROVE  job[j] = "live"
<1>1. j \in held /\ ~jobDeleted[j]
  BY DEF MayCallJob
<1>2. job[j] # "none" /\ job[j] # "freed"
  BY <1>1 DEF FateInv
<1> QED BY <1>2 DEF Typed, TypeOK

\* A parse's job is there unless it was finalized in use, its includer without a
\* race, and an exception is pending only after a callback threw.
LEMMA ScanAccounts ==
  ASSUME AllInv, Up, NEW t \in Caller, call[t].op \in Scan
  PROVE  /\ job[call[t].job] # "live" => "finalizedInUse" \in mishaps
         /\ call[t].inc \notin heap => "includerRace" \in mishaps
         /\ call[t].op = "throwing" => "thrown" \in mishaps
         /\ call[t].inc \in Hollow => "nullIncluder" \in mishaps
         /\ compiler
<1>1. Parsing(t)
  BY ScanIsParsing
<1>2. compiler
  BY <1>1 DEF AllInv, CarefulInv, LifeInv
<1>3. "includerRace" \notin mishaps => call[t].inc \in heap
  <2> SUFFICES ASSUME "includerRace" \notin mishaps PROVE call[t].inc \in heap
    OBVIOUS
  <2>1. call[t].inc = includer /\ \A u \in Caller : swap[u] = NoSwap
    BY <1>1 DEF AllInv, CarefulInv, ParseInv
  <2>2. heap = {includer}
    BY <1>2, <2>1 DEF AllInv, AnyInv, SwapInv, Base
  <2> QED BY <2>1, <2>2
<1>4. call[t].inc \in Hollow => "nullIncluder" \in mishaps
  BY DEF AllInv, AnyInv, HollowInv
<1> QED BY <1>1, <1>2, <1>3, <1>4 DEF AllInv, CarefulInv, UseInv

LEMMA DestroyAccounts ==
  ASSUME AllInv, Up, NEW t \in Caller, NEW j \in Job, job[j] = "live", DestroyJob(t, j),
         mishaps' = mishaps
  PROVE  FaultsExplained'
<1>1. CASE name[j] = "stale"
  <2>1. fault' = [memory |-> "name", thread |-> t, job |-> j]
    BY <1>1 DEF DestroyJob
  <2>2. "unnamed" \in mishaps'
    BY <1>1 DEF AllInv, CarefulInv, UseInv
  <2> QED BY <2>1, <2>2, Accounts, Explanations DEF Accounted
<1>2. CASE name[j] # "stale"
  <2>1. fault' = NoFault
    BY <1>2 DEF DestroyJob, Up
  <2> QED BY <2>1, UpAccounts
<1> QED BY <1>1, <1>2

LEMMA ClientFaults ==
  ASSUME ObjectsAssumption, Careful, AllInv, Up, NEW t \in Thread, Client(t)
  PROVE  FaultsExplained'
<1>0. Typed /\ FateInv /\ fault = NoFault
  BY DEF AllInv, AnyInv, Up
<1>1. CASE \E j \in Job : CreateJob(t, j) \/ ClientDeletesJob(t, j)
  BY <1>0, <1>1, UpAccounts DEF CreateJob, ClientDeletesJob
<1>2. CASE \E j \in Job : CompileBegin(t, j)
  <2>1. PICK j \in Job : CompileBegin(t, j)
    BY <1>2
  <2>2. job[j] = "live"
    BY <1>0, <2>1, CalledIsLive DEF CompileBegin
  <2>3. CASE ~compiler
    <3>1. Touches(t, "compiler", j)
      BY <2>1, <2>2, <2>3 DEF CompileBegin
    <3>2. "lostAdd" \in mishaps
      BY <2>2, <2>3 DEF AllInv, CarefulInv, ListInv
    <3> QED BY <3>1, <3>2, TouchAccounts, Explanations
  <2>4. CASE compiler
    <3>1. fault' = fault
      BY <2>1, <2>2, <2>4 DEF CompileBegin
    <3> QED BY <1>0, <3>1, UpAccounts
  <2> QED BY <2>3, <2>4
<1>3. CASE \E j \in Job : AddUniformBlock(t, j)
  <2>1. PICK j \in Job : AddUniformBlock(t, j)
    BY <1>3
  <2>2. job[j] = "live"
    BY <1>0, <2>1, CalledIsLive DEF AddUniformBlock
  <2>3. EnvFails(t) \/ fault' = fault
    BY <2>1, <2>2 DEF AddUniformBlock
  <2> QED BY <1>0, <2>3, UpAccounts, EnvAccounts
<1>4. CASE \E j \in Job : AddPreprocess(t, j)
  <2>1. PICK j \in Job : AddPreprocess(t, j)
    BY <1>4
  <2>2. job[j] = "live"
    BY <1>0, <2>1, CalledIsLive DEF AddPreprocess
  <2>3. fault' = [memory |-> "line", thread |-> t, job |-> j] /\ "preprocess" \in mishaps'
    BY <2>1, <2>2 DEF AddPreprocess
  <2> QED BY <2>3, Accounts, Explanations DEF Accounted
<1>5. CASE \E j \in Job, named \in BOOLEAN : SetSource(t, j, named)
  <2>1. PICK j \in Job : \E named \in BOOLEAN : SetSource(t, j, named)
    BY <1>5
  <2>2. job[j] = "live"
    BY <1>0, <2>1, CalledIsLive DEF SetSource
  <2>3. CASE name[j] = "stale"
    <3>1. Touches(t, "name", j)
      BY <2>1, <2>2, <2>3 DEF SetSource
    <3>2. "unnamed" \in mishaps
      BY <2>3 DEF AllInv, CarefulInv, UseInv
    <3> QED BY <3>1, <3>2, TouchAccounts, Explanations
  <2>4. CASE name[j] # "stale"
    <3>1. fault' = fault
      BY <2>1, <2>2, <2>4 DEF SetSource
    <3> QED BY <1>0, <3>1, UpAccounts
  <2> QED BY <2>3, <2>4
<1>6. CASE \E i \in Includer : SetIncluder(t, i)
  <2>1. EnvFails(t) \/ fault' = fault
    BY <1>6 DEF SetIncluder
  <2> QED BY <1>0, <2>1, UpAccounts, EnvAccounts
<1>7. CASE DeleteCompiler(t)
  BY <1>0, <1>7, UpAccounts DEF DeleteCompiler
<1> QED BY <1>1, <1>2, <1>3, <1>4, <1>5, <1>6, <1>7 DEF Client

LEMMA LibraryFaults ==
  ASSUME ObjectsAssumption, Careful, AllInv, Up, NEW t \in Thread, Library(t)
  PROVE  FaultsExplained'
<1>0. Typed /\ FateInv /\ fault = NoFault /\ t \in Caller
  BY DEF AllInv, AnyInv, Up, Caller
<1>a. CASE fault' = fault
  BY <1>0, <1>a, UpAccounts
<1>b. CASE EnvFails(t)
  BY <1>b, EnvAccounts
<1>1. CASE AddJob(t) \/ FlagJob(t) \/ AssignIncluder(t)
  BY <1>a, <1>1 DEF AddJob, FlagJob, AssignIncluder
<1>2. CASE IncludeLocal(t) \/ ReleaseInclude(t)
  <2>1. call[t].op \in Scan
    BY <1>2 DEF IncludeLocal, ReleaseInclude, Scanning, Scan
  <2>2. \/ fault' = fault \/ EnvFails(t)
        \/ job[call[t].job] # "live" /\ Touches(t, "job", call[t].job)
        \/ call[t].inc \notin heap /\ Touches(t, "includer", call[t].job)
        \/ call[t].op = "throwing" /\ Touches(t, "exception", call[t].job)
        \/ call[t].inc \in Hollow /\ Touches(t, "object", call[t].job)
    BY <1>2 DEF IncludeLocal, ReleaseInclude
  <2> QED BY <1>0, <1>a, <1>b, <2>1, <2>2, ScanAccounts, TouchAccounts, Explanations
<1>3. CASE IncludeSystem(t)
  <2>1. call[t].op \in Scan
    BY <1>3 DEF IncludeSystem, Scanning, Scan
  <2>2. \/ job[call[t].job] # "live" /\ Touches(t, "job", call[t].job)
        \/ call[t].inc \notin heap /\ Touches(t, "includer", call[t].job)
        \/ /\ fault' = [memory |-> "method", thread |-> t, job |-> call[t].job]
           /\ "systemInclude" \in mishaps'
    BY <1>3 DEF IncludeSystem
  <2>3. CASE /\ fault' = [memory |-> "method", thread |-> t, job |-> call[t].job]
             /\ "systemInclude" \in mishaps'
    BY <2>3, Accounts, Explanations DEF Accounted
  <2> QED BY <1>0, <2>1, <2>2, <2>3, ScanAccounts, TouchAccounts, Explanations
<1>4. CASE \E result \in {"header", "null", "throws"} : CallbackReturns(t, result)
  <2>1. call[t].op \in Scan
    BY <1>4 DEF CallbackReturns, Scan
  <2>2. \/ fault' = fault \/ EnvFails(t)
        \/ job[call[t].job] # "live" /\ Touches(t, "job", call[t].job)
    BY <1>4 DEF CallbackReturns
  <2> QED BY <1>0, <1>a, <1>b, <2>1, <2>2, ScanAccounts, TouchAccounts, Explanations
<1>5. CASE \E parsed \in BOOLEAN : CompileEnds(t, parsed)
  <2>1. call[t].op \in Scan
    BY <1>5 DEF CompileEnds, Scanning, Scan
  <2>2. \/ fault' = fault \/ ~compiler
        \/ job[call[t].job] # "live" /\ Touches(t, "job", call[t].job)
        \/ call[t].op = "throwing" /\ Touches(t, "exception", call[t].job)
    BY <1>5 DEF CompileEnds
  <2> QED BY <1>0, <1>a, <2>1, <2>2, ScanAccounts, TouchAccounts, Explanations
<1>6. CASE FreeIncluder(t)
  <2>1. swap[t].step = "free"
    BY <1>6 DEF FreeIncluder
  <2>2. swap[t] # NoSwap
    BY <1>0, <2>1 DEF Typed, CallOK
  <2>3. compiler
    BY <1>0, <2>2 DEF AllInv, CarefulInv, LifeInv
  <2>4. "includerRace" \notin mishaps => includer \in heap
    BY <1>0, <2>1, <2>3 DEF AllInv, AnyInv, SwapInv, Base
  <2>5. \/ fault' = fault \/ EnvFails(t)
        \/ includer \notin heap /\ Touches(t, "includer", NoJob)
    BY <1>6, <2>3 DEF FreeIncluder
  <2> QED BY <1>a, <1>b, <2>4, <2>5, TouchAccounts, Explanations
<1>7. CASE DeleteListed(t)
  <2> DEFINE j == elements[call[t].n + 1]
  <2>1. call[t].n + 1 <= size /\ mishaps' = mishaps
    BY <1>7 DEF DeleteListed
  <2>2. call[t].n + 1 \in 1 .. Len(elements) /\ j \in Job
    BY <1>0, <2>1, NextListed
  <2>3. CASE jobDeleted[j]
    BY <1>7, <1>a, <2>3 DEF DeleteListed
  <2>4. CASE ~jobDeleted[j]
    <3>1. DestroyJob(t, j)
      BY <1>7, <2>4 DEF DeleteListed
    <3>2. job[j] = "live"
      <4>1. job[j] # "none" /\ job[j] # "freed"
        BY <1>0, <2>2, <2>4 DEF FateInv
      <4> QED BY <1>0, <2>2, <4>1 DEF Typed, TypeOK
    <3> HIDE DEF j
    <3> QED BY <1>0, <2>1, <2>2, <3>1, <3>2, DestroyAccounts
  <2> QED BY <2>3, <2>4
<1>8. CASE FreeCompiler(t)
  <2>1. call[t].op = "deleting"
    BY <1>8 DEF FreeCompiler
  <2>2. compiler /\ \A u \in Caller : swap[u] = NoSwap
    BY <1>0, <2>1 DEF AllInv, CarefulInv, LifeInv, Closing, Caller, Typed, CloseOK
  <2>3. "includerRace" \notin mishaps => includer \in heap
    BY <2>2 DEF AllInv, AnyInv, SwapInv, Base
  <2>4. \/ fault' = fault \/ EnvFails(t)
        \/ includer \notin heap /\ Touches(t, "includer", NoJob)
    BY <1>8 DEF FreeCompiler
  <2> QED BY <1>a, <1>b, <2>3, <2>4, TouchAccounts, Explanations
<1> QED BY <1>1, <1>2, <1>3, <1>4, <1>5, <1>6, <1>7, <1>8 DEF Library

LEMMA FaultStep ==
  ASSUME ObjectsAssumption, Careful, AllInv, FaultsExplained, [Next]_vars
  PROVE  FaultsExplained'
<1>1. CASE \E t \in Thread : Client(t) \/ Library(t)
  <2>1. Up
    BY <1>1 DEF Client, Library, CreateJob, CompileBegin, ClientDeletesJob, AddUniformBlock,
      AddPreprocess, SetSource, SetIncluder, DeleteCompiler, AddJob, FlagJob, IncludeLocal,
      IncludeSystem, ReleaseInclude, CallbackReturns, CompileEnds, FreeIncluder, AssignIncluder, DeleteListed,
      FreeCompiler, Free, InApp
  <2> QED BY <1>1, <2>1, ClientFaults, LibraryFaults
<1>2. CASE \E t \in Caller : FreeJob(t)
  <2>1. PICK t \in Caller : FreeJob(t)
    BY <1>2
  <2>2. /\ Up /\ call[t].op = "freeing" /\ DestroyJob(t, call[t].job) /\ mishaps' = mishaps
    BY <2>1 DEF FreeJob
  <2>3. call[t].job \in Job /\ FateInv /\ Typed
    BY <2>2, CallerTypes DEF AllInv, AnyInv
  <2>4. job[call[t].job] # "none" /\ job[call[t].job] # "freed"
    BY <2>2, <2>3 DEF FateInv, InCall
  <2>5. job[call[t].job] = "live"
    BY <2>3, <2>4 DEF Typed, TypeOK
  <2> QED BY <2>2, <2>3, <2>5, DestroyAccounts
<1>3. CASE Jvm \/ UNCHANGED vars
  <2>1. fault' = fault /\ mishaps \subseteq mishaps'
    BY <1>3, MishapsStay DEF Jvm, DropCompiler, DropJob, Finalize, vars
  <2> QED BY <2>1 DEF FaultsExplained
<1> QED BY <1>1, <1>2, <1>3 DEF Next

\* The freed memory a careful client can reach, it reaches in one of the ways
\* Explains names: nothing else in the wrappers and the library goes wrong.
THEOREM NoOtherFault ==
  ASSUME ObjectsAssumption, Careful PROVE Spec => []FaultsExplained
<1> DEFINE I == AllInv /\ FaultsExplained
<1>1. Init => I
  <2>1. Init => FaultsExplained
    BY DEF Init, FaultsExplained, NoFault
  <2> QED BY <2>1, AllInit
<1>2. I /\ [Next]_vars => I'
  BY AllStep, FaultStep
<1>3. I => FaultsExplained
  OBVIOUS
<1> QED BY <1>1, <1>2, <1>3, PTL DEF Spec
=============================================================================
