---------------------------- MODULE MemoryPools ----------------------------
(***************************************************************************)
(* The thread-local glslang memory pools behind the Java compiler API:     *)
(* which pool a thread's thread-local pointer names, how deep each pool's  *)
(* mark stack is, what Java believes that depth to be, and which native    *)
(* data lives in which pool.                                               *)
(*                                                                         *)
(* A pool is named by what owns it: the pool JNI_OnLoad creates, the pool  *)
(* registerWorkThread creates for a thread, the pool inside a job's        *)
(* TShader.  "Item" is native data whose storage comes from a pool: a      *)
(* uniform block (a TVector with its buffer), the strings of its members,  *)
(* the name under which a job's map has it, or the pointer pair that       *)
(* setSource hands to the shader.                                          *)
(*                                                                         *)
(* The first use of a missing or dead pool, or of data whose memory a pool *)
(* has taken back, is undefined behaviour: it touches unmapped or recycled *)
(* memory, so the model records who did it, and to what, in fault and      *)
(* stops there.                                                            *)
(***************************************************************************)
EXTENDS Integers, FiniteSets, Sequences, SequencesExt

CONSTANTS
  Thread,         \* Java threads that use the library
  Job,            \* compile jobs, each with the TShader it owns
  Block,          \* uniform blocks: vectors allocated from a pool
  Array,          \* source arrays: the pointer pairs setSource allocates
  Exports,        \* ShaderCompilerManager natives the JVM finds in the library
  MaxDepth,       \* bound: the JVM threads' stackDepth explored
  MaxNest,        \* bound: compile calls nested through include callbacks
  Reentrant,      \* do include callbacks call back into the API?
  InitResults,    \* outcomes of glslang's InitializeProcess to consider
  ParseMayThrow,  \* can glslang's parse leave by a C++ exception (bad_alloc)?
  NoThread, MainPool, NoPool, NoItem

ASSUME PoolsAssumption ==
  /\ MaxDepth \in Nat /\ MaxNest \in Nat \ {0}
  /\ Reentrant \in BOOLEAN /\ ParseMayThrow \in BOOLEAN
  /\ InitResults \in SUBSET BOOLEAN
  /\ NoThread \notin Thread
  /\ NoItem \notin Block \cup Array \cup (Job \X Block) \cup ({"members"} \X Block)
  /\ Block \cap Array = {}
  /\ Thread \cap Job = {}
  /\ MainPool \notin Thread \cup Job
  /\ NoPool \notin Thread \cup Job \cup {MainPool}

\* The names the library exports for the natives of ShaderCompilerManager.
\* Java calls pushMemoryPool_do and popMemoryPool_do: neither is here.
AsBuiltExports ==
  {"createShaderCompiler_do", "registerWorkThread_do", "unregisterWorkThread_do",
   "pushMemoryPool_do_do", "popMemoryPool_do_do"}

\* What the library would export if the two functions had the Java names.
JavaNatives ==
  {"createShaderCompiler_do", "registerWorkThread_do", "unregisterWorkThread_do",
   "pushMemoryPool_do", "popMemoryPool_do"}

Links(native) == native \in Exports

Made       == Block \cup Array  \* data a native creates, with an allocator
Key(j, i)  == <<j, i>>          \* the name of block i in the map of job j
Members(i) == <<"members", i>>  \* the strings of block i
Item   == Made \cup (Job \X Block) \cup ({"members"} \X Block)
Pool   == Thread \cup Job \cup {MainPool}
Frame  == [job : Job, pre : Pool, phase : {"parsing", "emitting"}]
Emitting(f) == [job |-> f.job, pre |-> f.pre, phase |-> "emitting"]
Op == {"none", "unregister", "push", "pop", "setSource", "createUniformBlock",
       "addMember", "addUniformBlock", "compile", "OnUnload"}
NoFault == [thread |-> NoThread, op |-> "none", item |-> NoItem]

VARIABLES
  lib,         \* "unloaded", "loaded", "available", "failed", "gone"
  loader,      \* the thread JNI_OnLoad ran on
  mainThread,  \* OpenShaderJni.mainThread
  registered,  \* ThreadLocal ShaderCompilerManager.registered
  stackDepth,  \* ThreadLocal ShaderCompilerManager.stackDepth
  leaving,     \* between the two native calls of unregisterWorkThread
  tls,         \* glslang's thread-local pool pointer
  live,        \* pools that exist
  level,       \* marks on each pool's stack
  frames,      \* per thread, the compile_do calls on its stack, innermost last
  born,        \* jobs ever created
  origin,      \* the pool a thing's own allocator draws from, NoPool: not created
  places,      \* the (pool, level) pairs that hold an item's memory
  torn,        \* items some of whose memory has been reclaimed
  source,      \* per job, the source array its shader points to
  blocks,      \* per job, the uniform blocks added to it
  fault        \* first use of a missing or dead pool, or of a torn item

javaVars   == <<mainThread, registered, stackDepth, leaving>>
poolVars   == <<tls, live, level>>
itemVars   == <<origin, places, torn>>
jobVars    == <<born, source, blocks>>
vars == <<lib, loader, javaVars, poolVars, frames, itemVars, jobVars, fault>>

TypeOK ==
  /\ lib \in {"unloaded", "loaded", "available", "failed", "gone"}
  /\ loader \in Thread \cup {NoThread}
  /\ mainThread \in Thread \cup {NoThread}
  /\ registered \in [Thread -> BOOLEAN]
  /\ stackDepth \in [Thread -> Nat]
  /\ leaving \in [Thread -> BOOLEAN]
  /\ tls \in [Thread -> Pool \cup {NoPool}]
  /\ live \in SUBSET Pool
  /\ level \in [Pool -> Nat]
  /\ frames \in [Thread -> Seq(Frame)]
  /\ born \in SUBSET Job
  /\ origin \in [Made -> Pool \cup {NoPool}]
  /\ places \in [Item -> SUBSET (Pool \X Nat)]
  /\ torn \in SUBSET Item
  /\ source \in [Job -> Array \cup {NoItem}]
  /\ blocks \in [Job -> SUBSET Block]
  /\ fault \in [thread : Thread \cup {NoThread}, op : Op, item : Item \cup {NoItem}]

Init ==
  /\ lib = "unloaded" /\ loader = NoThread /\ mainThread = NoThread
  /\ registered = [t \in Thread |-> FALSE]
  /\ stackDepth = [t \in Thread |-> 0]
  /\ leaving = [t \in Thread |-> FALSE]
  /\ tls = [t \in Thread |-> NoPool]
  /\ live = {}
  /\ level = [p \in Pool |-> 0]
  /\ frames = [t \in Thread |-> <<>>]
  /\ born = {}
  /\ origin = [i \in Made |-> NoPool]
  /\ places = [i \in Item |-> {}]
  /\ torn = {}
  /\ source = [j \in Job |-> NoItem]
  /\ blocks = [j \in Job |-> {}]
  /\ fault = NoFault

-----------------------------------------------------------------------------
(* What the natives do to a pool.                                          *)

Top(t) == frames[t][Len(frames[t])]
Usable(t) == tls[t] \in live

\* Items with memory in pool p at mark n or above.
HeldAt(p, n) == {i \in Item : \E pl \in places[i] : pl[1] = p /\ pl[2] >= n}

\* TPoolAllocator::push on the current thread's pool
PushMark(p) == level' = [level EXCEPT ![p] = @ + 1] /\ UNCHANGED torn

\* TPoolAllocator::pop: nothing on an empty stack, else reclaims to the mark
PopMark(p) ==
  IF level[p] = 0
  THEN UNCHANGED <<level, torn>>
  ELSE /\ level' = [level EXCEPT ![p] = @ - 1]
       /\ torn' = torn \cup HeldAt(p, level[p])

\* The C++ object of pool p is deleted with everything in it.
DropPool(p) ==
  /\ live' = live \ {p}
  /\ level' = [level EXCEPT ![p] = 0]
  /\ torn' = torn \cup HeldAt(p, 0)

When(c, e) == IF c THEN {e} ELSE {}

\* Memory taken now, for each pair in S, for item e[1] from the pool e[2].
Allocate(S) ==
  places' = [i \in Item |->
              places[i] \cup {<<e[2], level[e[2]]>> : e \in {d \in S : d[1] = i}}]

Stops(t, op, i) ==
  /\ fault' = [thread |-> t, op |-> op, item |-> i]
  /\ UNCHANGED <<lib, loader, javaVars, poolVars, frames, itemVars, jobVars>>

\* Thread t dereferences a pool pointer that is null or stale.
Faults(t, op) == Stops(t, op, NoItem)

\* Thread t uses memory of item i that its pool has taken back.
Misuses(t, op, i) == i \in torn /\ Stops(t, op, i)

\* Thread t can make an API call now: it is outside the library, or in an
\* include callback that compile's parse made.
Ready(t) ==
  /\ fault = NoFault
  /\ lib \in {"available", "failed"} \/ (lib = "loaded" /\ t # loader)
  /\ ~leaving[t]
  /\ frames[t] # <<>> => Reentrant /\ Top(t).phase = "parsing"

-----------------------------------------------------------------------------
(* Loading, initialising and unloading the library.                        *)

\* System.load inside OpenShaderJni.init, running JNI_OnLoad on thread t
OnLoad(t) ==
  /\ lib = "unloaded"
  /\ lib' = "loaded" /\ loader' = t
  /\ tls' = [tls EXCEPT ![t] = MainPool]
  /\ live' = live \cup {MainPool}
  /\ level' = [level EXCEPT ![MainPool] = 1]
  /\ UNCHANGED <<javaVars, frames, itemVars, jobVars, fault>>

\* The rest of OpenShaderJni.init: initJni throws if glslang did not start,
\* and then mainThread is never assigned; init is not tried again.
FinishInit(ok) ==
  /\ lib = "loaded" /\ fault = NoFault
  /\ lib' = IF ok THEN "available" ELSE "failed"
  /\ mainThread' = IF ok THEN loader ELSE mainThread
  /\ UNCHANGED <<loader, registered, stackDepth, leaving, poolVars, frames,
                 itemVars, jobVars, fault>>

\* The JVM unloads the library once its classes are unreachable.
OnUnload ==
  /\ lib \in {"available", "failed"} /\ fault = NoFault
  /\ \A t \in Thread : frames[t] = <<>> /\ ~leaving[t]
  /\ lib' = "gone"
  /\ IF MainPool \in live
     THEN DropPool(MainPool) /\ UNCHANGED fault
     ELSE /\ fault' = [thread |-> NoThread, op |-> "OnUnload", item |-> NoItem]
          /\ UNCHANGED <<live, level, torn>>
  /\ UNCHANGED <<loader, javaVars, tls, frames, origin, places, jobVars>>

-----------------------------------------------------------------------------
(* ShaderCompilerManager.                                                  *)

\* Mutants: workers share the main pool; the new pool is never installed.
MutantMainPool(t) == MainPool
MutantNoPool(t)   == NoPool

\* The pool registerWorkThread_do installs: a new one, the thread's own
WorkerPool(t) == t

\* Throws on the main thread and does nothing on a registered one.
RegisterWorkThread(t) ==
  /\ Ready(t) /\ t # mainThread /\ ~registered[t]
  /\ registered' = [registered EXCEPT ![t] = TRUE]
  /\ stackDepth' = [stackDepth EXCEPT ![t] = 0]
  /\ tls' = [tls EXCEPT ![t] = WorkerPool(t)]
  /\ live' = live \cup {t}
  /\ level' = [level EXCEPT ![t] = 0]
  /\ UNCHANGED <<lib, loader, mainThread, leaving, frames, itemVars, jobVars, fault>>

\* unregisterWorkThread_do deletes whatever pool the thread-local names.
DetachPool(t) ==
  /\ DropPool(tls[t])
  /\ tls' = [tls EXCEPT ![t] = NoPool]

\* Mutant: the flag is left as it was.
MutantStillRegistered == TRUE

RegisteredAfterwards == FALSE

\* The call inside if (registered.get()), and registered.set(false)
UnregisterWorkThread(t) ==
  /\ Ready(t) /\ t # mainThread /\ registered[t]
  /\ IF Usable(t)
     THEN /\ DetachPool(t)
          /\ registered' = [registered EXCEPT ![t] = RegisteredAfterwards]
          /\ leaving' = [leaving EXCEPT ![t] = TRUE]
          /\ UNCHANGED <<lib, loader, mainThread, stackDepth, frames, origin,
                         places, jobVars, fault>>
     ELSE Faults(t, "unregister")

\* The call after the if, made for a thread that was registered or not
UnregisterAgain(t) ==
  /\ \/ leaving[t] /\ fault = NoFault
     \/ Ready(t) /\ t # mainThread /\ ~registered[t]
  /\ IF Usable(t)
     THEN /\ DetachPool(t)
          /\ leaving' = [leaving EXCEPT ![t] = FALSE]
          /\ UNCHANGED <<lib, loader, mainThread, registered, stackDepth, frames,
                         origin, places, jobVars, fault>>
     ELSE Faults(t, "unregister")

\* stackDepth moves first; then the native call, or UnsatisfiedLinkError.
PushMemoryPool(t) ==
  /\ Ready(t) /\ registered[t] /\ stackDepth[t] < MaxDepth
  /\ stackDepth' = [stackDepth EXCEPT ![t] = @ + 1]
  /\ IF ~Links("pushMemoryPool_do")
     THEN UNCHANGED <<level, torn, fault>>
     ELSE IF Usable(t)
          THEN PushMark(tls[t]) /\ UNCHANGED fault
          ELSE /\ fault' = [thread |-> t, op |-> "push", item |-> NoItem]
               /\ UNCHANGED <<level, torn>>
  /\ UNCHANGED <<lib, loader, mainThread, registered, leaving, tls, live, frames,
                 origin, places, jobVars>>

\* Mutant: the check lets the depth go one below zero.
MutantDepthAllows(t) == stackDepth[t] - 1 >= -1

NewDepthAllowed(t) == stackDepth[t] - 1 >= 0

PopMemoryPool(t) ==
  /\ Ready(t) /\ registered[t] /\ NewDepthAllowed(t)
  /\ stackDepth' = [stackDepth EXCEPT ![t] = @ - 1]
  /\ IF ~Links("popMemoryPool_do")
     THEN UNCHANGED <<level, torn, fault>>
     ELSE IF Usable(t)
          THEN PopMark(tls[t]) /\ UNCHANGED fault
          ELSE /\ fault' = [thread |-> t, op |-> "pop", item |-> NoItem]
               /\ UNCHANGED <<level, torn>>
  /\ UNCHANGED <<lib, loader, mainThread, registered, leaving, tls, live, frames,
                 origin, places, jobVars>>

-----------------------------------------------------------------------------
(* Jobs and the pool memory they refer to.                                 *)

InUse(j) == \E t \in Thread : \E n \in DOMAIN frames[t] : frames[t][n].job = j

\* ShaderCompiler.createCompileJob: the TShader comes with a pool of its own
CreateJob(t, j) ==
  /\ Ready(t) /\ j \notin born
  /\ born' = born \cup {j}
  /\ live' = live \cup {j}
  /\ UNCHANGED <<lib, loader, javaVars, tls, level, frames, itemVars, source,
                 blocks, fault>>

\* CompileJob.delete, here of a job that no thread is compiling
DeleteJob(t, j) ==
  /\ Ready(t) /\ j \in live /\ ~InUse(j)
  /\ DropPool(j)
  /\ UNCHANGED <<lib, loader, javaVars, tls, frames, origin, places, jobVars, fault>>

\* CompileJob.setSource: the pointer pair comes from the caller's pool
SetSource(t, j, i) ==
  /\ Ready(t) /\ j \in live /\ origin[i] = NoPool
  /\ IF Usable(t)
     THEN /\ Allocate({<<i, tls[t]>>})
          /\ origin' = [origin EXCEPT ![i] = tls[t]]
          /\ source' = [source EXCEPT ![j] = i]
          /\ UNCHANGED <<lib, loader, javaVars, poolVars, frames, torn, born,
                         blocks, fault>>
     ELSE Faults(t, "setSource")

\* ShaderCompiler.createUniformBlock: new TVector on the caller's pool
CreateUniformBlock(t, i) ==
  /\ Ready(t) /\ origin[i] = NoPool
  /\ IF Usable(t)
     THEN /\ Allocate({<<i, tls[t]>>})
          /\ origin' = [origin EXCEPT ![i] = tls[t]]
          /\ UNCHANGED <<lib, loader, javaVars, poolVars, frames, torn, jobVars, fault>>
     ELSE Faults(t, "createUniformBlock")

\* UniformBlock.addMember: a member too long to fit in the string object takes
\* memory from the caller's pool; push_back works on the vector, wherever that
\* lives, and takes a larger buffer from the vector's pool when it is full.
AddMember(t, i) ==
  /\ Ready(t) /\ origin[i] # NoPool
  /\ \E long, full \in BOOLEAN :
       \/ long /\ ~Usable(t) /\ Faults(t, "addMember")
       \/ (long => Usable(t)) /\ Misuses(t, "addMember", i)
       \/ /\ long => Usable(t)
          /\ i \notin torn
          /\ Allocate(When(long, <<Members(i), tls[t]>>)
                      \cup When(full, <<i, origin[i]>>))
          /\ UNCHANGED <<lib, loader, javaVars, poolVars, frames, origin, torn,
                         jobVars, fault>>

\* CompileJob.addUniformBlock: a long name takes memory from the caller's pool
\* and is compared with names of the map, at least one if there is any; the map
\* keeps it unless it has that name already, with whatever block comes with it.
AddUniformBlock(t, j, i) ==
  /\ Ready(t) /\ j \in live /\ origin[i] # NoPool
  /\ \E long \in BOOLEAN :
       \/ long /\ ~Usable(t) /\ Faults(t, "addUniformBlock")
       \/ /\ long => Usable(t)
          /\ \E k \in blocks[j] : Misuses(t, "addUniformBlock", Key(j, k))
       \/ /\ long => Usable(t)
          /\ blocks[j] # {} => \E k \in blocks[j] : Key(j, k) \notin torn
          /\ Allocate(When(long /\ i \notin blocks[j], <<Key(j, i), tls[t]>>))
          /\ blocks' = [blocks EXCEPT ![j] = @ \cup {i}]
          /\ UNCHANGED <<lib, loader, javaVars, poolVars, frames, origin, torn, born,
                         source, fault>>

-----------------------------------------------------------------------------
(* compile_do and CompileJob::compile.                                     *)

\* Mutants: compile_do without its push; with a pop missing; with prePool taken
\* after parse has switched pools.
MutantNoMark(p)  == UNCHANGED <<level, torn>>
MutantLate(f)    == f.job

CompilePush(p) == PushMark(p)
CompilePop(p)  == PopMark(p)
PrePool(f)     == f.pre

\* push(), remember the pool in prePool; parse points the thread at the shader's
\* and goes through the pointers that setSource left.
CompileBegin(t, j) ==
  /\ Ready(t) /\ j \in live /\ Len(frames[t]) < MaxNest
  /\ IF ~Usable(t) THEN Faults(t, "compile")
     ELSE IF source[j] \in torn THEN Misuses(t, "compile", source[j])
     ELSE /\ CompilePush(tls[t])
          /\ frames' = [frames EXCEPT ![t] =
                          Append(@, [job |-> j, pre |-> tls[t], phase |-> "parsing"])]
          /\ tls' = [tls EXCEPT ![t] = j]
          /\ UNCHANGED <<lib, loader, javaVars, live, origin, places, jobVars, fault>>

InPhase(t, ph) ==
  fault = NoFault /\ ~leaving[t] /\ frames[t] # <<>> /\ Top(t).phase = ph

\* parse is still at the source when another thread, or a callback, takes the
\* memory of its pointers away.
ParseReads(t) ==
  InPhase(t, "parsing") /\ Misuses(t, "compile", source[Top(t).job])

\* process() of the emitter writes out the blocks of the job: their names, their
\* vectors and the members in them.
Emitted(j) == UNION {{Key(j, i), i, Members(i)} : i \in blocks[j]}

EmitReads(t) ==
  /\ InPhase(t, "emitting")
  /\ \E i \in Emitted(Top(t).job) : Misuses(t, "compile", i)

\* SetThreadPoolAllocator(prePool)
ParseReturns(t) ==
  /\ InPhase(t, "parsing")
  /\ tls' = [tls EXCEPT ![t] = PrePool(Top(t))]
  /\ frames' = [frames EXCEPT ![t] = [@ EXCEPT ![Len(frames[t])] = Emitting(Top(t))]]
  /\ UNCHANGED <<lib, loader, javaVars, live, level, itemVars, jobVars, fault>>

\* pop() of whatever the thread-local names, and return to Java
LeaveCompile(t) ==
  /\ IF Usable(t)
     THEN CompilePop(tls[t]) /\ UNCHANGED fault
     ELSE /\ fault' = [thread |-> t, op |-> "compile", item |-> NoItem]
          /\ UNCHANGED <<level, torn>>
  /\ frames' = [frames EXCEPT ![t] = Front(@)]
  /\ UNCHANGED <<lib, loader, javaVars, tls, live, origin, places, jobVars>>

\* The info log or the emitted source is returned, or the handler that catches
\* an exception of the emitter runs: all pop the same pool, and the blocks are
\* read only when the source parsed and the capability asks for them.
CompileEnds(t) == InPhase(t, "emitting") /\ LeaveCompile(t)

\* An exception out of parse skips SetThreadPoolAllocator(prePool).
ParseThrows(t) == ParseMayThrow /\ InPhase(t, "parsing") /\ LeaveCompile(t)

-----------------------------------------------------------------------------
CompileStep(t) ==
  ParseReads(t) \/ ParseReturns(t) \/ ParseThrows(t) \/ EmitReads(t) \/ CompileEnds(t)

ManagerCall(t) ==
  \/ RegisterWorkThread(t) \/ UnregisterWorkThread(t) \/ UnregisterAgain(t)
  \/ PushMemoryPool(t) \/ PopMemoryPool(t)

JobCall(t) ==
  \/ \E j \in Job : CreateJob(t, j) \/ DeleteJob(t, j) \/ CompileBegin(t, j)
  \/ \E j \in Job, i \in Array : SetSource(t, j, i)
  \/ \E j \in Job, i \in Block : AddUniformBlock(t, j, i)
  \/ \E i \in Block : CreateUniformBlock(t, i) \/ AddMember(t, i)

Next ==
  \/ \E t \in Thread : OnLoad(t) \/ ManagerCall(t) \/ JobCall(t) \/ CompileStep(t)
  \/ \E ok \in InitResults : FinishInit(ok)
  \/ OnUnload

Spec == Init /\ [][Next]_vars
-----------------------------------------------------------------------------
(* Properties.                                                             *)

\* A thread the API serves: registered as a worker, or the main thread.
Attached(t) == registered[t] \/ t = mainThread

\* The pool that should be current on t when t is outside the library.
Own(t) ==
  IF registered[t] THEN t
  ELSE IF t = loader /\ MainPool \in live THEN MainPool ELSE NoPool

Base(p)         == IF p = MainPool THEN 1 ELSE 0
JavaMarks(p)    == IF p \in Thread /\ Links("pushMemoryPool_do") THEN stackDepth[p] ELSE 0
CompileMarks(p) == Cardinality({tn \in Thread \X (1..MaxNest) :
                     tn[2] \in DOMAIN frames[tn[1]] /\ frames[tn[1]][tn[2]].pre = p})

Running == fault = NoFault /\ lib # "gone"

\* Whatever compile calls, include callbacks and other threads do, an attached
\* thread's pool pointer is its own pool outside the library, the shader's pool
\* while a parse runs, and the pool it had before that parse once the parse is
\* over; each nested compile remembers the pool of the parse that called it.
\* About compile's prePool and SetThreadPoolAllocator(prePool).
PoolChain ==
  Running => \A t \in Thread : Attached(t) =>
    /\ tls[t] = IF frames[t] = <<>> THEN Own(t)
                ELSE IF Top(t).phase = "parsing" THEN Top(t).job ELSE Top(t).pre
    /\ \A n \in DOMAIN frames[t] :
         frames[t][n].pre = IF n = 1 THEN Own(t) ELSE frames[t][n - 1].job

\* The marks on a thread's own pool are those the Java API pushed and those of
\* the compile calls still running, no more and no fewer: every push of
\* compile_do is matched by the pop of every way out, and stackDepth is the
\* depth popMemoryPool checks it to be.
MarksBalanced ==
  Running => \A p \in live \ Job :
    level[p] = Base(p) + JavaMarks(p) + CompileMarks(p)

\* Native code dereferences a missing or dead pool only on a thread that is not
\* (or, unregistering, no longer) registered and is not the main thread; unloading
\* the library does so only if initialisation failed.
FaultsOnlyOutside ==
  fault # NoFault /\ fault.item = NoItem =>
    IF fault.thread = NoThread THEN mainThread = NoThread ELSE ~Attached(fault.thread)

\* Some memory of item i is in a pool that is gone or was taken under a mark of a
\* pool, above the mark JNI_OnLoad leaves on the main one.
Reclaimed(i) == \E pl \in places[i] : pl[1] \notin live \/ pl[2] > Base(pl[1])

\* Data allocated at the base of a pool, outside any push/pop scope and compile,
\* keeps its memory for as long as the pool exists.
BaseDataSurvives == \A i \in torn : Reclaimed(i)

\* Data that a call finds gone was lost in one of two ways: it took memory under
\* a mark that popMemoryPool or the end of a compile has popped, or from the pool
\* of a worker that is unregistering.  About setSource, addMember and
\* addUniformBlock of data that outlives the scope or the thread it was made in.
LostDataExplained ==
  fault.item # NoItem =>
    \E pl \in places[fault.item] :
      pl[2] > Base(pl[1]) \/ (pl[1] \in Thread /\ leaving[pl[1]])

\* With include callbacks that call the API there is one more way to use a dead
\* pool: another thread unregistering from a callback deletes the pool of the
\* shader both parse.  Data is lost with its pool or with a mark, no other way.
FaultsExplained ==
  IF fault.item = NoItem
  THEN FaultsOnlyOutside \/ \E u \in Thread : leaving[u]
  ELSE Reclaimed(fault.item)

\* Pools are not thread-safe: two threads have the same current pool only while
\* both are inside compile of one job.
PoolsShared ==
  Running => \A t, u \in Thread :
    t # u /\ tls[t] = tls[u] /\ tls[t] # NoPool =>
      \A v \in {t, u} : \E n \in DOMAIN frames[v] : frames[v][n].job = tls[v]

\* The parts of the inductive invariant behind PoolChain (no exceptions out of
\* parse, initialisation succeeds): where the library stands, what threads the
\* library does not serve have, and the chain for those it does.
LibInv ==
  /\ lib # "failed"
  /\ lib = "unloaded" =>
       /\ loader = NoThread /\ fault = NoFault
       /\ \A t \in Thread : ~registered[t] /\ ~leaving[t] /\ tls[t] = NoPool /\ frames[t] = <<>>
  /\ lib # "unloaded" => loader \in Thread /\ ~registered[loader] /\ ~leaving[loader]
  /\ mainThread = IF lib \in {"available", "gone"} THEN loader ELSE NoThread
  /\ lib = "loaded" => frames[loader] = <<>>
  /\ lib \in {"loaded", "available"} => MainPool \in live

OutsideInv ==
  \A t \in Thread :
    /\ leaving[t] => ~registered[t]
    /\ t # loader /\ ~registered[t] => tls[t] = NoPool /\ (leaving[t] \/ frames[t] = <<>>)

Home(t) == IF registered[t] THEN t ELSE MainPool

Chain(t) ==
  /\ frames[t] = <<>> => tls[t] = Home(t)
  /\ frames[t] # <<>> => tls[t] = IF Top(t).phase = "parsing" THEN Top(t).job ELSE Top(t).pre
  /\ \A n \in 1..Len(frames[t]) :
       /\ frames[t][n].pre = IF n = 1 THEN Home(t) ELSE frames[t][n - 1].job
       /\ n < Len(frames[t]) => frames[t][n].phase = "parsing"

ChainInv == Running => \A t \in Thread : registered[t] \/ t = loader => Chain(t)

PoolInv == TypeOK /\ LibInv /\ OutsideInv /\ ChainInv

\* And, when callbacks stay out of the API, that those threads' pools exist.
NestInv == \A t \in Thread : Len(frames[t]) <= 1
LiveInv == Running => \A t \in Thread : registered[t] => t \in live

GoneInv == lib = "gone" => \A t \in Thread : frames[t] = <<>> /\ ~leaving[t]

\* And that no data is in the pool of a shader, and all data in the pool it was
\* created in.
HomeInv ==
  /\ lib = "unloaded" => \A i \in Item : places[i] = {}
  /\ \A i \in Item : \A pl \in places[i] : pl[1] \notin Job
  /\ \A i \in Made : origin[i] # NoPool => \E pl \in places[i] : pl[1] = origin[i]

ServedInv == PoolInv /\ NestInv /\ LiveInv /\ GoneInv /\ HomeInv /\ FaultsOnlyOutside

\* When parse may throw: an attached thread outside the library has a pool other
\* than its own exactly when its own pool has kept a mark that nobody will pop.
StrayPoolKeepsMark ==
  Running => \A t \in Thread : Attached(t) /\ frames[t] = <<>> =>
    (tls[t] # Own(t) <=> level[Own(t)] > Base(Own(t)))

\* The thread's side of the API as WorkerThreads has it.
ThreadState(t) ==
  IF ~Attached(t) THEN "outside"
  ELSE IF frames[t] = <<>> THEN "attached" ELSE "compiling"

\* The threads some memory of item i came from.
Makers(i) ==
  {t \in Thread : \E pl \in places[i] : pl[1] = t \/ (pl[1] = MainPool /\ t = loader)}

Abstract == INSTANCE WorkerThreads WITH
  state <- [t \in Thread |-> ThreadState(t)],
  made  <- [i \in Item |-> Makers(i)],
  lost  <- torn,
  down  <- fault # NoFault

\* The pools implement WorkerThreads: pushing, switching and popping pools never
\* lets a call of an attached thread bring the process down while no data is
\* lost, and data is lost only by a call of a thread that gave it memory.
ServesWorkers == Abstract!Spec

\* What the pool stack check of popMemoryPool takes for granted: stackDepth is
\* the number of marks the Java API has on the thread's pool.
StackDepthIsPoolDepth ==
  Running => \A t \in Thread :
    registered[t] /\ frames[t] = <<>> => level[t] = stackDepth[t]

\* What the guard of unregisterWorkThread says: only a registered thread's pool
\* is detached, once, so that unregistering cannot bring the process down.
UnregisterIsSafe == fault.op # "unregister"

\* What the GUI test relies on: setting a source and compiling on a thread that
\* never registered as a work thread.
CompileAnywhere == fault.op \notin {"setSource", "compile"}
=============================================================================
