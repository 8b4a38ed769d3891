--------------------------- MODULE NativeObjects ---------------------------
(***************************************************************************)
(* Lifetimes of the C++ objects behind one ShaderCompiler: the compiler,   *)
(* its compile jobs, the includer it passes to a parse and the file name   *)
(* string of a job, as the Java wrappers, the JVM's finalizer thread and   *)
(* the include callbacks create, use and delete them.                      *)
(*                                                                         *)
(* Threads share the compiler and each works on jobs of its own: a client  *)
(* makes no call on a job another thread is using, and deletes the         *)
(* compiler while nobody uses it.  A careful one also makes no call on an  *)
(* object it has deleted; a careless one may, and may delete a job while   *)
(* another thread uses or deletes it.                                      *)
(*                                                                         *)
(* The first use of freed memory is recorded in fault and ends the run.    *)
(* What the client did that the wrappers do not defend against is recorded *)
(* in mishaps, a history variable that no action reads.                    *)
(***************************************************************************)
EXTENDS Integers, FiniteSets, Sequences, SequencesExt

CONSTANTS
  Thread,     \* application threads
  Loader,     \* the one JNI_OnLoad ran on, whose JNIEnv is JAVAENV
  Finalizer,  \* the JVM's finalizer thread
  Job,        \* compile jobs
  Includer,   \* CallbackIncluder objects
  Hollow,     \* those that setIncluder(null) makes, which have no Java object
  Careful,    \* does the client keep off what it has deleted?
  MaxInclude, \* MAX_INCLUDE_DEPTH
  Forbid,     \* the ForbidIncluder a compiler starts with
  Null, NoJob

ASSUME ObjectsAssumption ==
  /\ Loader \in Thread /\ Finalizer \notin Thread
  /\ Forbid \notin Includer /\ Hollow \subseteq Includer /\ Null \notin Includer \cup {Forbid}
  /\ NoJob \notin Job
  /\ Careful \in BOOLEAN /\ MaxInclude \in Nat

VARIABLES
  deleted,    \* ShaderCompiler.deleted
  compiler,   \* is the C++ ShaderCompiler there?
  elements,   \* the array of ShaderCompiler.compileJobs, as far as it was ever filled
  size,       \* the size of that list
  jobDeleted, \* per job, CompileJob.deleted
  job,        \* per job, its C++ object: "none", "live", "freed"
  name,       \* per job, its filename pointer: "null", "owned", "stale"
  held,       \* jobs the application has a reference to
  kept,       \* does it have a reference to the compiler?
  finalized,  \* jobs whose finalize has run
  includer,   \* the C++ compiler's includer pointer
  heap,       \* includer objects that exist, each with its global reference
  call,       \* per thread, the API call it is in: "throwing" is a parse with a Java
              \* exception pending; n is its place in the list, or the headers open
  swap,       \* per thread, the setIncluder call it is in
  fault,      \* what freed memory was touched, by whom, for which job
  mishaps     \* history: what the wrappers do not defend against

wrappers == <<deleted, elements, size, jobDeleted, held, kept, finalized>>
natives  == <<compiler, job, name>>
vars == <<wrappers, natives, includer, heap, call, swap, fault, mishaps>>

Caller   == Thread \cup {Finalizer}
Includers == Includer \cup {Forbid}
Mishap   == {"lostAdd", "includerRace", "unnamed", "finalizedInUse",
             "systemInclude", "foreignEnv", "thrown", "preprocess", "nullIncluder"}
Op       == {"idle", "adding", "parsing", "throwing", "callback", "testing", "freeing",
             "deleting"}
Memory   == {"none", "compiler", "job", "name", "includer", "method", "env", "exception",
             "line", "object"}

Call(op, j, i, n) == [op |-> op, job |-> j, inc |-> i, n |-> n]
Idle == Call("idle", NoJob, Null, 0)
\* The same call further on.
Later(c, op, n) == Call(op, c.job, c.inc, n)

Swapping(step, i) == [step |-> step, inc |-> i]
NoSwap == Swapping("idle", Null)
NoFault == [memory |-> "none", thread |-> Finalizer, job |-> NoJob]

TypeOK ==
  /\ deleted \in BOOLEAN /\ compiler \in BOOLEAN /\ kept \in BOOLEAN
  /\ elements \in Seq(Job) /\ size \in 0 .. Len(elements)
  /\ jobDeleted \in [Job -> BOOLEAN]
  /\ job \in [Job -> {"none", "live", "freed"}]
  /\ name \in [Job -> {"null", "owned", "stale"}]
  /\ held \in SUBSET Job /\ finalized \in SUBSET Job
  /\ includer \in Includers \cup {Null}
  /\ heap \in SUBSET Includers
  /\ call \in [Caller -> [op : Op, job : Job \cup {NoJob}, inc : Includers \cup {Null}, n : Nat]]
  /\ swap \in [Caller -> [step : {"idle", "free", "assign"}, inc : Includer \cup {Null}]]
  /\ fault \in [memory : Memory, thread : Caller, job : Job \cup {NoJob}]
  /\ mishaps \in SUBSET Mishap

\* Mutant: the pointer is left uninitialised.
MutantUninitialised == "garbage"

InitialName == "null"

\* After createShaderCompiler: no job yet, includes forbidden.
Init ==
  /\ deleted = FALSE /\ compiler = TRUE /\ kept = TRUE
  /\ elements = <<>> /\ size = 0
  /\ jobDeleted = [j \in Job |-> FALSE]
  /\ job = [j \in Job |-> "none"]
  /\ name = [j \in Job |-> InitialName]
  /\ held = {} /\ finalized = {}
  /\ includer = Forbid /\ heap = {Forbid}
  /\ call = [t \in Caller |-> Idle]
  /\ swap = [t \in Caller |-> NoSwap]
  /\ fault = NoFault
  /\ mishaps = {}

-----------------------------------------------------------------------------
Up == fault = NoFault

\* t is free to make a call: outside the library, or (for setIncluder) in a
\* callback that a parse of its own made.
Free(t)   == Up /\ call[t].op = "idle" /\ swap[t] = NoSwap
InApp(t)  == Up /\ call[t].op \in {"idle", "callback"} /\ swap[t] = NoSwap

Scanning(t) == call[t].op \in {"parsing", "throwing"}
Parsing(t) == Scanning(t) \/ call[t].op = "callback"
Using(t, j) == call[t].job = j
InUse(j)    == \E t \in Caller : Using(t, j)
Closing     == \E t \in Thread : call[t].op = "deleting"

\* What a client may call: the compiler, or one of its jobs.
MayCallCompiler == kept /\ ~Closing /\ (Careful => ~deleted)
MayCallJob(j) ==
  j \in held /\ ~InUse(j) /\ ~Closing /\ (Careful => ~jobDeleted[j])
MayDeleteJob(j) ==
  j \in held /\ ~Closing /\ (Careful => ~InUse(j) /\ ~jobDeleted[j])

Touches(t, m, j) ==
  /\ fault' = [memory |-> m, thread |-> t, job |-> j]
  /\ UNCHANGED <<wrappers, natives, includer, heap, call, swap, mishaps>>

\* A JNI function of JAVAENV called on t: if JAVAENV belongs to another thread
\* the call may fail in any way, or work.
EnvFails(t) == t # Loader /\ Touches(t, "env", call[t].job)
EnvWorks(t) == mishaps' = mishaps \cup (IF t = Loader THEN {} ELSE {"foreignEnv"})

-----------------------------------------------------------------------------
(* ShaderCompiler.createCompileJob: the C++ object, then compileJobs.add,  *)
(* which reads the size and later writes the element and the new size; what *)
(* is past the size stays in the array.                                    *)
(* The new job only stores the compiler's address.                         *)

CreateJob(t, j) ==
  /\ Free(t) /\ MayCallCompiler /\ job[j] = "none"
  /\ job' = [job EXCEPT ![j] = "live"]
  /\ call' = [call EXCEPT ![t] = Call("adding", j, Null, size)]
  /\ UNCHANGED <<wrappers, compiler, name, includer, heap, swap, fault, mishaps>>

\* Mutant: the job before it is forgotten.
MutantForgets(n, j) == IF n = 0 THEN <<j>> ELSE [Append(elements, j) EXCEPT ![n] = j]

Remember(n, j) ==
  IF n < Len(elements) THEN [elements EXCEPT ![n + 1] = j] ELSE Append(elements, j)

AddJob(t) ==
  /\ Up /\ call[t].op = "adding"
  /\ elements' = Remember(call[t].n, call[t].job) /\ size' = call[t].n + 1
  /\ held' = held \cup {call[t].job}
  /\ mishaps' = mishaps \cup (IF size = call[t].n THEN {} ELSE {"lostAdd"})
  /\ call' = [call EXCEPT ![t] = Idle]
  /\ UNCHANGED <<deleted, jobDeleted, kept, finalized, natives, includer, heap, swap, fault>>

-----------------------------------------------------------------------------
(* CompileJob.                                                             *)

\* What setSource leaves in the filename pointer, having deleted what it found
FilenameAfter(j, named) ==
  IF named THEN "owned" ELSE IF name[j] = "null" THEN "null" ELSE "stale"

SetSource(t, j, named) ==
  /\ Free(t) /\ MayCallJob(j)
  /\ IF job[j] # "live" THEN Touches(t, "job", j)
     ELSE IF name[j] = "stale" THEN Touches(t, "name", j)
     ELSE /\ name' = [name EXCEPT ![j] = FilenameAfter(j, named)]
          /\ mishaps' = mishaps \cup
               (IF FilenameAfter(j, named) = "stale" THEN {"unnamed"} ELSE {})
          /\ UNCHANGED <<wrappers, compiler, job, includer, heap, call, swap, fault>>

\* addUniformBlock stores the block in the job, its name read with JAVAENV.
AddUniformBlock(t, j) ==
  /\ Free(t) /\ MayCallJob(j)
  /\ \/ EnvFails(t)
     \/ /\ EnvWorks(t)
        /\ IF job[j] = "live" THEN UNCHANGED fault
           ELSE fault' = [memory |-> "job", thread |-> t, job |-> j]
        /\ UNCHANGED <<wrappers, natives, includer, heap, call, swap>>

\* addPreprocess of any line reads an array of references as one of plain data, and
\* takes a TString for a std::string: undefined, so it may do anything.  Without a
\* line, or if that goes well, it stores what it has in the job.
AddPreprocess(t, j) ==
  /\ Free(t) /\ MayCallJob(j)
  /\ \/ /\ fault' = [memory |-> "line", thread |-> t, job |-> j]
        /\ mishaps' = mishaps \cup {"preprocess"}
     \/ /\ job[j] # "live"
        /\ fault' = [memory |-> "job", thread |-> t, job |-> j]
        /\ UNCHANGED mishaps
  /\ UNCHANGED <<wrappers, natives, includer, heap, call, swap>>

\* compile: parse gets a reference to the includer the compiler has now.
CompileBegin(t, j) ==
  /\ Free(t) /\ MayCallJob(j)
  /\ IF job[j] # "live" THEN Touches(t, "job", j)
     ELSE IF ~compiler THEN Touches(t, "compiler", j)
     ELSE /\ call' = [call EXCEPT ![t] =
                        Call("parsing", j, includer, 0)]
          /\ mishaps' = mishaps \cup
               (IF \E u \in Caller : swap[u] # NoSwap THEN {"includerRace"} ELSE {})
          /\ UNCHANGED <<wrappers, natives, includer, heap, swap, fault>>

\* #include "...": a ForbidIncluder finds nothing, nor does a CallbackIncluder too
\* deep; otherwise it calls Java, which JNI does not allow with an exception pending.
IncludeLocal(t) ==
  LET c == call[t] IN
  /\ Up /\ Scanning(t) /\ swap[t] = NoSwap
  /\ IF job[c.job] # "live" THEN Touches(t, "job", c.job)
     ELSE IF c.inc \notin heap THEN Touches(t, "includer", c.job)
     ELSE /\ c.inc # Forbid /\ c.n < MaxInclude
          /\ \/ EnvFails(t)
             \/ c.op = "throwing" /\ Touches(t, "exception", c.job)
             \/ c.inc \in Hollow /\ Touches(t, "object", c.job)
             \/ /\ c.op = "parsing" /\ c.inc \notin Hollow /\ EnvWorks(t)
                /\ call' = [call EXCEPT ![t] = Later(c, "callback", c.n)]
                /\ UNCHANGED <<wrappers, natives, includer, heap, swap, fault>>

\* #include <...>: the same with a method id that nothing assigns.
IncludeSystem(t) ==
  LET c == call[t] IN
  /\ Up /\ Scanning(t) /\ swap[t] = NoSwap
  /\ IF job[c.job] # "live" THEN Touches(t, "job", c.job)
     ELSE IF c.inc \notin heap THEN Touches(t, "includer", c.job)
     ELSE /\ c.inc # Forbid /\ c.n < MaxInclude
          /\ fault' = [memory |-> "method", thread |-> t, job |-> c.job]
          /\ mishaps' = mishaps \cup {"systemInclude"}
          /\ UNCHANGED <<wrappers, natives, includer, heap, call, swap>>

\* What include makes of the callback's answer: a header is opened; null, and what a
\* call that threw returns, is a header not found.
Answered(c, result) ==
  Later(c, IF result = "throws" THEN "throwing" ELSE "parsing",
        IF result = "header" THEN c.n + 1 ELSE c.n)

CallbackReturns(t, result) ==
  LET c == call[t] IN
  /\ Up /\ c.op = "callback" /\ swap[t] = NoSwap
  /\ IF job[c.job] # "live" THEN Touches(t, "job", c.job)
     ELSE \/ result = "header" /\ EnvFails(t)
          \/ /\ call' = [call EXCEPT ![t] = Answered(c, result)]
             /\ mishaps' = mishaps \cup (IF result = "throws" THEN {"thrown"} ELSE {})
             /\ UNCHANGED <<wrappers, natives, includer, heap, swap, fault>>

\* The end of a header, or of the parse inside it: releaseInclude, a virtual call on
\* the includer that the parse was given.
ReleaseInclude(t) ==
  LET c == call[t] IN
  /\ Up /\ Scanning(t) /\ c.n > 0
  /\ IF job[c.job] # "live" THEN Touches(t, "job", c.job)
     ELSE IF c.inc \notin heap THEN Touches(t, "includer", c.job)
     ELSE /\ call' = [call EXCEPT ![t] = Later(c, c.op, c.n - 1)]
          /\ UNCHANGED <<wrappers, natives, includer, heap, swap, fault, mishaps>>

\* The rest of compile: after a parse that succeeded it reads the compiler's
\* capabilities and version, after one that failed only the shader's log.  The
\* text becomes a Java string, which a pending exception forbids too; if that
\* goes well Java throws it as soon as the call has returned.
CompileEnds(t, parsed) ==
  LET c == call[t] IN
  /\ Up /\ Scanning(t) /\ c.n = 0 /\ (parsed => c.op = "parsing")
  /\ IF job[c.job] # "live" THEN Touches(t, "job", c.job)
     ELSE IF parsed /\ ~compiler THEN Touches(t, "compiler", c.job)
     ELSE \/ c.op = "throwing" /\ Touches(t, "exception", c.job)
          \/ /\ call' = [call EXCEPT ![t] = Idle]
             /\ UNCHANGED <<wrappers, natives, includer, heap, swap, fault, mishaps>>

\* Mutant: delete does not record that it ran.
MutantForgetsDelete(j) == jobDeleted[j]

DeletedAfter(j) == TRUE

\* CompileJob.delete, the Java part: nothing if the flag is already set; otherwise
\* it is set, a step later, and the native called.
ClientDeletesJob(t, j) ==
  /\ Free(t) /\ MayDeleteJob(j) /\ ~jobDeleted[j]
  /\ call' = [call EXCEPT ![t] = Call("testing", j, Null, 0)]
  /\ UNCHANGED <<wrappers, natives, includer, heap, swap, fault, mishaps>>

FlagJob(t) ==
  /\ Up /\ call[t].op = "testing"
  /\ jobDeleted' = [jobDeleted EXCEPT ![call[t].job] = DeletedAfter(call[t].job)]
  /\ call' = [call EXCEPT ![t] = Call("freeing", call[t].job, Null, 0)]
  /\ UNCHANGED <<deleted, elements, size, held, kept, finalized, natives, includer, heap, swap,
                 fault, mishaps>>

\* CompileJob::~CompileJob of a live job, deleting the file name it points to
DestroyJob(t, j) ==
  IF job[j] # "live" THEN fault' = [memory |-> "job", thread |-> t, job |-> j] /\ UNCHANGED <<job, name>>
  ELSE IF name[j] = "stale"
  THEN fault' = [memory |-> "name", thread |-> t, job |-> j] /\ UNCHANGED <<job, name>>
  ELSE /\ job' = [job EXCEPT ![j] = "freed"]
       /\ name' = [name EXCEPT ![j] = "null"]
       /\ UNCHANGED fault

FreeJob(t) ==
  /\ Up /\ call[t].op = "freeing"
  /\ DestroyJob(t, call[t].job)
  /\ call' = [call EXCEPT ![t] = Idle]
  /\ UNCHANGED <<wrappers, compiler, includer, heap, swap, mishaps>>

-----------------------------------------------------------------------------
(* The JVM: references dropped, and finalize on the finalizer thread.  The *)
(* natives are static and take the address, so a call in progress does not *)
(* keep its job reachable; the compiler's list does.                       *)

Reachable(j) ==
  \/ j \in held
  \/ /\ \E n \in DOMAIN elements : elements[n] = j
     /\ kept \/ \E t \in Thread : call[t].op \in {"adding", "deleting"}
  \/ \E t \in Thread : call[t].op \in {"adding", "testing"} /\ Using(t, j)

DropJob(j) ==
  /\ Up /\ j \in held
  /\ held' = held \ {j}
  /\ UNCHANGED <<deleted, elements, size, jobDeleted, kept, finalized, natives, includer, heap,
                 call, swap, fault, mishaps>>

DropCompiler ==
  /\ Up /\ kept
  /\ kept' = FALSE
  /\ UNCHANGED <<deleted, elements, size, jobDeleted, held, finalized, natives, includer, heap,
                 call, swap, fault, mishaps>>

\* delete again; no other thread can see the job's flag by now.
Finalize(j) ==
  /\ Free(Finalizer) /\ job[j] # "none" /\ j \notin finalized /\ ~Reachable(j)
  /\ finalized' = finalized \cup {j}
  /\ IF jobDeleted[j]
     THEN UNCHANGED <<jobDeleted, call, mishaps>>
     ELSE /\ jobDeleted' = [jobDeleted EXCEPT ![j] = DeletedAfter(j)]
          /\ call' = [call EXCEPT ![Finalizer] = Call("freeing", j, Null, 0)]
          /\ mishaps' = mishaps \cup (IF InUse(j) THEN {"finalizedInUse"} ELSE {})
  /\ UNCHANGED <<deleted, elements, size, held, kept, natives, includer, heap, swap, fault>>

-----------------------------------------------------------------------------
(* ShaderCompiler.setIncluder and delete.                                  *)

\* A new CallbackIncluder, with a global reference to the Java object, if any
SetIncluder(t, i) ==
  /\ InApp(t) /\ MayCallCompiler /\ \A u \in Caller : swap[u].inc # i /\ call[u].inc # i
  /\ i \notin heap
  /\ \/ EnvFails(t)
     \/ /\ mishaps' = mishaps
             \cup (IF t = Loader THEN {} ELSE {"foreignEnv"})
             \cup (IF \E u \in Caller : swap[u] # NoSwap \/ Parsing(u)
                   THEN {"includerRace"} ELSE {})
             \cup (IF i \in Hollow THEN {"nullIncluder"} ELSE {})
        /\ heap' = heap \cup {i}
        /\ swap' = [swap EXCEPT ![t] = Swapping("free", i)]
        /\ UNCHANGED <<wrappers, natives, includer, call, fault>>

\* Mutant: the includer that was installed is left alone.
MutantKeepsOld(i) == heap

Without(i) == heap \ {i}

\* if (includer != nullptr) delete includer
FreeIncluder(t) ==
  /\ Up /\ swap[t].step = "free"
  /\ IF ~compiler THEN Touches(t, "compiler", NoJob)
     ELSE IF includer \notin heap THEN Touches(t, "includer", NoJob)
     ELSE \/ includer # Forbid /\ EnvFails(t)
          \/ /\ heap' = Without(includer)
             /\ swap' = [swap EXCEPT ![t] = Swapping("assign", swap[t].inc)]
             /\ UNCHANGED <<wrappers, natives, includer, call, fault, mishaps>>

AssignIncluder(t) ==
  /\ Up /\ swap[t].step = "assign"
  /\ includer' = swap[t].inc
  /\ swap' = [swap EXCEPT ![t] = NoSwap]
  /\ UNCHANGED <<wrappers, natives, heap, call, fault, mishaps>>

\* delete: the flag, then every job of the list, then the C++ compiler
DeleteCompiler(t) ==
  /\ Free(t) /\ MayCallCompiler /\ ~deleted
  /\ \A u \in Thread : Free(u)
  /\ deleted' = TRUE
  /\ call' = [call EXCEPT ![t] = Call("deleting", NoJob, Null, 0)]
  /\ UNCHANGED <<elements, size, jobDeleted, held, kept, finalized, natives, includer, heap, swap,
                 fault, mishaps>>

DeleteListed(t) ==
  LET n == call[t].n + 1
      j == elements[n]
  IN
  /\ Up /\ call[t].op = "deleting" /\ n <= size
  /\ IF jobDeleted[j]
     THEN UNCHANGED <<jobDeleted, job, name, fault>>
     ELSE /\ jobDeleted' = [jobDeleted EXCEPT ![j] = DeletedAfter(j)]
          /\ DestroyJob(t, j)
  /\ call' = [call EXCEPT ![t] = Later(call[t], "deleting", n)]
  /\ UNCHANGED <<deleted, elements, size, held, kept, finalized, compiler, includer, heap, swap, mishaps>>

\* ~ShaderCompiler is setIncluder(nullptr)
FreeCompiler(t) ==
  /\ Up /\ call[t].op = "deleting" /\ call[t].n = size
  /\ IF includer \notin heap THEN Touches(t, "includer", NoJob)
     ELSE \/ includer # Forbid /\ EnvFails(t)
          \/ /\ elements' = <<>> /\ size' = 0
             /\ heap' = Without(includer)
             /\ includer' = Null
             /\ compiler' = FALSE
             /\ call' = [call EXCEPT ![t] = Idle]
             /\ UNCHANGED <<deleted, jobDeleted, held, kept, finalized, job, name, swap,
                            fault, mishaps>>

-----------------------------------------------------------------------------
Client(t) ==
  \/ \E j \in Job : CreateJob(t, j) \/ CompileBegin(t, j) \/ ClientDeletesJob(t, j)
                \/ AddUniformBlock(t, j) \/ AddPreprocess(t, j)
  \/ \E j \in Job, named \in BOOLEAN : SetSource(t, j, named)
  \/ \E i \in Includer : SetIncluder(t, i)
  \/ DeleteCompiler(t)

Library(t) ==
  \/ AddJob(t) \/ FlagJob(t) \/ IncludeLocal(t) \/ IncludeSystem(t) \/ ReleaseInclude(t)
  \/ \E result \in {"header", "null", "throws"} : CallbackReturns(t, result)
  \/ \E parsed \in BOOLEAN : CompileEnds(t, parsed)
  \/ FreeIncluder(t) \/ AssignIncluder(t) \/ DeleteListed(t) \/ FreeCompiler(t)

Jvm == DropCompiler \/ \E j \in Job : DropJob(j) \/ Finalize(j)

Next ==
  \/ \E t \in Thread : Client(t) \/ Library(t)
  \/ \E t \in Caller : FreeJob(t)
  \/ Jvm

Spec == Init /\ [][Next]_vars
-----------------------------------------------------------------------------
(* Properties.                                                             *)

\* A careful client touches freed memory only in one of these ways: two creates
\* whose compileJobs.add overlapped; setIncluder during a parse or another
\* setIncluder; a source set with a file name and then without; a job that
\* became unreachable while it was compiling; #include <...>; JAVAENV on a
\* thread that is not its own.  A JNI call with an exception pending counts as
\* one more, and needs an includer that threw; so does one on the null that
\* setIncluder(null) installed; and addPreprocess is never safe.
Explains(m) ==
  CASE m = "compiler" -> "lostAdd"
    [] m = "job"      -> "finalizedInUse"
    [] m = "name"     -> "unnamed"
    [] m = "includer" -> "includerRace"
    [] m = "method"   -> "systemInclude"
    [] m = "exception" -> "thrown"
    [] m = "line"     -> "preprocess"
    [] m = "object"   -> "nullIncluder"

FaultsExplained ==
  fault.memory # "none" =>
    IF fault.memory = "env" THEN fault.thread # Loader
    ELSE Explains(fault.memory) \in mishaps

\* A careful client's job has lost its C++ object exactly when its deleted flag is
\* set and the delete is over, whichever of the client, the compiler's delete and
\* the finalizer ran it.
FlagIsFate ==
  Up => \A j \in Job :
    job[j] = "freed" <=> jobDeleted[j] /\ ~ \E t \in Caller : call[t].op = "freeing" /\ Using(t, j)

\* No live job is left with a compiler that is gone, unless an add was lost:
\* every job is in the list the compiler deletes first.
CompilerOutlivesJobs ==
  Up /\ ~compiler /\ "lostAdd" \notin mishaps => \A j \in Job : job[j] # "live"

\* Without an includer race there is one includer object and the compiler points
\* to it; the includers it replaced, and after delete all of them, are gone with
\* their global references.
OneIncluder ==
  Up /\ "includerRace" \notin mishaps /\ (\A t \in Caller : swap[t] = NoSwap) =>
    heap = IF compiler THEN {includer} ELSE {}

\* What CompileJob.assertNotDeleted says: a call on a job that was deleted is
\* refused, so none reaches a C++ job that is gone.
DeletedIsRefused == fault.memory # "job"
=============================================================================
