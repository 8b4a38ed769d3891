# OpenShaderJni in TLA+

OpenShaderJni compiles GLSL with glslang and writes it back as GLSL of another
version, behind a Java API. A C++ library holds the compiler objects and the emitter;
Java wrappers hold their addresses; a small Java package finds, unpacks and loads the
library. This directory has models of those parts, the TLC runs that check them, and
TLAPS proofs about the memory pools, the objects, the start-up, the emitter's scopes and
some of the algorithms that write its text.

Paths below are relative to `src/src/main/`; `OJ` is `cpp/OpenShaderJni.cpp`.

## 1. The system

| part | state | operations | talks to |
|---|---|---|---|
| Start-up: `OpenShaderJni.java`, `JNI_OnLoad` in OJ | static `loaded`, `available`, `mainThread`; C++ globals `JAVAENV`, `openshaderMainPool`, the method ids | `init`, `initJni`, `JNI_OnLoad`, `JNI_OnUnload` | extraction; every native uses the globals |
| Library extraction: `BaseJniExtractor`, `NativeLibraryUtil` | the temporary directory, shared by every process of the machine; `deleteOnExit` lists | `loadNativeLibrary`, `extractJni`, `extractResource`, `deleteLeftoverFiles` | the file system, `System.load` |
| Manager and pools: `ShaderCompilerManager.java`, natives in OJ | thread-locals `registered` and `stackDepth` in Java, glslang's thread-local pool pointer, each pool's stack of marks | `registerWorkThread`, `unregisterWorkThread`, `pushMemoryPool`, `popMemoryPool`, `createShaderCompiler` | every native that allocates from the thread's pool |
| Compiler and job: `ShaderCompiler`, `CompileJob` in Java and in `cpp/Compiler.{h,cpp}` | addresses, `deleted` flags, the list of jobs; includer, source, file name, capabilities | create, `setSource`, `setIncluder`, `setShaderCapability`, `addPreprocess`, `addUniformBlock`, `compile`, `delete`, `finalize` | glslang's `TShader`, the pools, the emitter |
| Includer: `CallbackIncluder` in OJ | a global reference to the Java includer | `includeLocal`, `includeSystem`, `releaseInclude` | calls Java from inside a parse |
| Emitter: `cpp/Traverser.{h,cpp}`, `cpp/dtoa/dtoa_milo.h` | stack of scopes `declaredVars`, depth pointer, `structTable`, the output streams | one visit method per kind of node, `process` | glslang's syntax tree, the capabilities |
| glslang | external (an empty submodule directory) | parse, pools, `InitializeProcess` | |

What is hard about it:

* **Who owns the thread's pool.** `compile_do` pushes a mark on the current pool, the
  parse replaces that pool by the shader's, `CompileJob::compile` puts the earlier one
  back, and an exception goes around that. Include callbacks run Java in the middle and
  may compile another job. What is allocated from a pool dies with a pop the client may
  order from Java, or with the thread that made it: the pointers of `setSource`, uniform
  blocks, the strings in them and their names, which other threads go on using.
* **Java and C++ count separately**: `stackDepth` and the native marks, `deleted` and
  the C++ object, `compileJobs` and the jobs that exist.
* **No locks**: the list of jobs, the includer, the static fields of `OpenShaderJni`
  and the finalizer thread.
* **Processes share a directory**, delete each other's files, and are killed.
* **The emitter rebuilds text that the tree has lost**: declarations, brackets,
  constructors, the order of structures, the dialect. Each is a small algorithm whose
  mistakes show only on combinations that nobody wrote a test for. (The one test is a
  Swing program that shows the emitted text.)

What makes each part correct: an attached thread always has its own live pool when it
is outside the library, its calls never touch a missing one, and data is lost only with
the pool or the mark it was taken from; an object is freed once
and never used afterwards, and a compiler outlives its jobs; whoever is told that the
library is loaded can use it; the emitted text means what the source meant, that is, it
parses back to the same expression, a name refers to the same variable, a type is
declared before it is used, and every word belongs to the version in `#version`.

## 2. The modules

| module | models | shape |
|---|---|---|
| `WorkerThreads` | what the API promises its threads: attach, compile, finish, leave | abstract specification |
| `MemoryPools` | the pools behind the manager, the jobs and compile | state machine, implements `WorkerThreads` |
| `MemoryPools_proofs` | | theorems |
| `NativeObjects` | lifetimes of compiler, jobs, includer, file names; finalizer; callbacks, open headers, pending exceptions | state machine, one action per step between which another thread can move |
| `NativeObjects_proofs` | | theorems |
| `LibraryLoading` | `init`, extraction, sweep, load, exit, kill and restart of several processes | state machine |
| `LibraryLoading_proofs` | | theorems |
| `EmitterScopes` | where locals are declared in the text | state machine that reads one statement per step |
| `EmitterScopes_proofs` | | theorems |
| `ScopeErrors_proofs` | | theorems |
| `TextReader` | the steps of a reader of GLSL, shared by the next two | operators |
| `ExpressionText` | text of expressions, and a reader of GLSL's grammar | recursive operators over a growing expression |
| `StatementText` | text of a function's statements, and a reader of it | recursive operators over a growing statement |
| `TypedText` | names of conversions, constructors, selections and some built-in functions: the emitter's table against GLSL's meaning of each name | state machine that applies one operator per step |
| `ConstantText` | text of constants | recursive functions over a growing constant |
| `DecimalText` | decimal text of numbers | operators over a growing number |
| `StructOrder` | which structures, known by their names, are declared, in which order | recursive function over a growing set of visits |
| `Dialect` | capabilities, version, and the words and qualifiers chosen from them | state machine |
| `ShaderSections` | which global declarations of a source are written, where, and which initialisers run | operators over a growing list of declarations |
| `TextWords_proofs` | `Dialect`, `ShaderSections` | theorems |
| `TextRecursion_proofs` | `StructOrder`, `ConstantText`, `DecimalText` | theorems |
| `Recursion_proofs` | that a recursive function exists when each step looks lower | lemmas used by the one above |
| `MC*` | the instances TLC runs; `MCShaderText` composes the text modules, one algorithm per behaviour | |

### MemoryPools

A pool is named after its owner: `MainPool` (made in `JNI_OnLoad`), a thread (made in
`registerWorkThread_do`) or a job (inside its `TShader`). `tls[t]` is glslang's
thread-local pointer, `live` the pools that exist, `level` the marks on each,
`frames[t]` the `compile_do` calls on the thread's stack with the pool each must
restore (`prePool`). An item is data with memory in pools: the pointer pair of
`setSource`, a uniform block, the strings of a block's members, the name under which a
job's map has a block. `places` are the pools and marks an item has memory at, `origin`
the pool its own allocator draws from (a block's vector grows where the block was made,
whichever thread calls `addMember`), `torn` the items that have lost some of their memory.
Strings of up to 15 characters take none, and a vector's buffer grows only when it is
full, so `AddMember` and `AddUniformBlock` may or may not allocate.

One action per API call: `OnLoad`, `FinishInit`, `OnUnload`,
`RegisterWorkThread`, `UnregisterWorkThread` with `UnregisterAgain` (its two native
calls), `PushMemoryPool`, `PopMemoryPool`, `CreateJob`, `DeleteJob`, `SetSource`,
`CreateUniformBlock`, `AddMember`, `AddUniformBlock`, and compile in steps:
`CompileBegin` (push, `prePool`, the pool switch of parse, the first look at the source),
`ParseReads` (a later one), `ParseReturns` (restore) or `ParseThrows` (the `catch` of
`compile_do`), `EmitReads` (the job's blocks and their names), `CompileEnds` (pop, return).
With `Reentrant` a thread may call the API from an include callback, between
`CompileBegin` and `ParseReturns`. The first use of a missing or dead pool, or of a torn
item, is undefined behaviour; the model records who did it to what, in `fault`, and stops
there. `addPreprocess` takes a string from the pool too; any line it is given is already
undefined (it reads references as plain data), so it is in `NativeObjects` only.

`Exports` is what the JVM finds when it binds the natives of the manager.
`AsBuiltExports` is what the C++ file defines: it misspells the push and pop functions
(`pushMemoryPool_do_1do`), so these two calls throw after the Java counter has moved.
`JavaNatives` is what it would define with Java's names. Only `pools_data` uses
the latter, because its properties ask about pools being pushed and popped,
which the library as built cannot do; everything else is checked as built.

### NativeObjects

Threads of a client share a compiler. The Java wrappers are state of their own
(`deleted`, `elements` and `size`, which are the `ArrayList` of jobs, `jobDeleted`)
beside the C++ objects (`compiler`, `job`, `name`, `includer`, `heap`), and calls are cut
where another thread can act: between creating a job and adding it to the list
(`CreateJob` reads the size, `AddJob` writes the element and the new size), between
testing a job's `deleted` flag, setting it and freeing the object (`ClientDeletesJob`,
`FlagJob`, `FreeJob`: two threads may pass the test), between freeing an includer and assigning
the next, and during a parse with its callbacks. `Finalize` is the JVM's: a job that the
application and the list no longer hold.

A parse is `CompileBegin`, then any of `IncludeLocal`, `IncludeSystem`,
`CallbackReturns` and `ReleaseInclude`, then `CompileEnds`. `call[t].n` counts the headers
that are open: each answer that is a header opens one, up to `MAX_INCLUDE_DEPTH`, and each
is closed by a virtual call on the includer the parse was *given*, whatever the compiler's
is by then. A callback may throw; `Call_ObjectMethod`'s null is taken for a missing header
and the parse goes on with the exception pending (`throwing`), so that the next include
and the final `NewStringUTF` are JNI calls that must not be made.

Every client works on a job with one thread at a time and deletes the compiler while
nobody uses it, but for deletions: a careless one may delete a job another thread is
using or deleting, and use what it has deleted. A careful one (`Careful`) does neither. `mishaps` records what the client legitimately did
that the wrappers do not defend against; no action reads it, and `FaultsExplained` says
that each kind of fault happens only after the mishap that explains it. The mishaps are:
two concurrent `createCompileJob` losing an entry of the list; two `setIncluder`, or one
during a parse; `setSource` without a name after one with a name; a `finalize` while a
static native call on the address still runs; `#include <...>`, whose method id `initJni`
never assigns; an includer that throws; `addPreprocess` of any line, which reads Java
references as plain data; `setIncluder(null)`, which installs an includer without a Java
object (`Hollow`), whose next include calls a method of null; and a use of `JAVAENV` on a thread other than the one it
belongs to. Of the races inside `ArrayList.add` the lost entry is modelled; two adds that
both have to grow the array are not.

### LibraryLoading

Several processes (`Process`) with threads in `init`, one shared `disk` of temporary
files. `Reads` and `Claim` are the test and the set of `loaded`; `List` and `Sweep` delete
leftovers one by one; `Create`, `OpenFile`, `Copy`, `Finish` and `Abort` are `extractJni`
(any prefix of the library may be on disk); `Load`, `LinkNatives`, `LinkFails` are
`System.load`, `JNI_OnLoad` and the binding of `initJni`; `Name`, `Publish` the last
two assignments. `Exit` runs `deleteOnExit`, `Kill` does not, `Start` starts the process
anew. A deletion fails for a file that is loaded or open on Windows, as the comment on
`deleteLeftoverFiles` expects, and succeeds elsewhere. The static fields are not
volatile; a read may still see the default value of a field another thread has written
(`Reads`).

### EmitterScopes

glslang's tree has no declarations; only initialisers are left. `src` holds the scopes
of the source being read, `out` those of the text being written, `declared` and
`pointer` are `declaredVars` and `traverseDepthsPointer`. An action reads one statement,
or one end of a compound statement, and writes what `emitStatements`, `visitSelection`,
`visitLoop`, `visitSwitch` and `visitSymbol` write for it. The emitter loses declarations
in known shapes of source (a name shadowed by an inner one, a name used by two loops, a
variable first met in an inner scope or a header, several initialised variables in one
statement, a `const` whose initialiser is not a constant, which glslang does not keep as a
temporary and `visitSymbol` so never declares, nesting at `MAX_TRAVERSE_DEPTH`).
`features` records which of them occurred, and `ErrorsExplained` says that a local is
undeclared, captured, typed twice or in the wrong place only where one of them did: of what
the model covers, the declarations of a function's locals, a source without them is
emitted right. At the depth limit `pushDepth` counts without pushing a list, and
`popDepth` may reach an empty stack, which is undefined (`Underflow`). An `else` is a `Close` and an `OpenBlock`, since its braces
push and pop as those of a block do; the test and terminal of a `for` name what its
header or an earlier statement has declared; labels and branches declare nothing.

### The text modules

* `ExpressionText` grows an expression one operator at a time, writes it by `Emit` (the
  brackets of `visitBinary`, `visitUnary`, `visitAggregate`) and reads the tokens with a
  recursive-descent reader of GLSL's grammar. `ExpressionReadsBack` is an equivalence:
  the text reads back as the expression *exactly when* the expression has none of four
  shapes: a sign before something that starts with a minus (`-(-x)` becomes `--x`); a
  plain assignment as an operand (written with no brackets); a selection from a `++` or
  `--`; a comma operator (its operands are written with nothing between them).
* `StatementText` grows a statement: blocks, `if`, `while`, `do`, `for`, `switch`,
  branches, declarations. The tree has no `for` (it is a sequence of a head and a loop
  with a terminal, known again by `isForLoop`), no declaration (a sequence of assignments)
  and no conditional expression (a selection). `StatementReadsBack` compares what the text
  makes a program do with what the tree says, again as an equivalence: it differs exactly
  for a conditional that is part of an expression, for a `for` that is the whole body of a
  loop or branch of an `if` (it becomes a `while` without its terminal), and for a head of
  two declarators or of a conditional.
* `TypedText` follows one value through conversions, constructors, selections, `!`, the
  relational functions and thirteen built-in functions. The tree's side is what glslang's
  operator means (`Applied`, `Compared`, `Selected`, ...), each component carrying how it
  was computed; the text's side is what GLSL makes of the name the emitter writes. The
  emitter's names (`ScalarName`, `VectorName`, `FunctionName`, `ComparisonName`, `Letter`)
  and GLSL's reading of them (`KindOf`, `OperatorOf`, `PlaceOf`) are two tables written
  independently, so that a wrong or a swapped name shows. `TypesKept` says that a step
  changes the meaning exactly when the operator got a name that means another or none: a
  conversion of a vector (always the scalar's constructor), `!` of a vector,
  `interpolateAtCentroid` (no name at all), `allInvocationsEqual` and
  `sparseTexelsResident` (without their extension's suffix).
* `ConstantText` writes constants from glslang's flat array of components and
  reads the constructors back; a matrix whose components are equal and not zero is
  written with one component, which GLSL reads as a diagonal (the one shape
  `ConstantReadsBack` excepts). Types are numbered, a structure's members having smaller
  numbers. `emitConst` calls itself once per argument, with the index the previous argument
  left; `Emitted` is that loop as a function of the constructor, the arguments done and
  the first index. `Laid` walks the same arguments by glslang's layout, in which every
  component has its place; the text agrees with it although it skips components.
* `DecimalText` compares what `Prettify` and `WriteExponent` write with the number, digit
  by digit, for every number of up to 17 digits' length and every exponent of a double.
* `StructOrder` is `findStruct` and the traversal that calls it (`AfterMembers` is the
  loop over a structure's members). The traverser knows a structure by its name, and those
  of two functions may share one (`called`): the second is passed over, or replaces the
  definition written for the first. `StructsDeclared` is an equivalence: every structure
  comes once, after those it contains, and only those are missing that no visited symbol
  leads to (named only by an unused linker object, a member of a block, a constructor or a
  function's result), exactly unless two that are reached share a name.
* `ShaderSections` declares globals, uniforms, blocks, prototypes and functions in any
  order and writes the sections of `process`. `NamesResolve` says exactly which names are
  used in the text before, or without, their declaration: a function the source declares
  first and defines later, whether a function calls it or an initialiser that stays outside
  `main` and is written where it is (prototypes are not written); a
  uniform that `UNIFORM_BLOCK` leaves to the client's blocks and no block can hold, a
  block without a name, an array in a block. `InitialisersRun`: each initialiser is written
  once, and all of them in `main` exactly when there is at most one, since `initSeq` keeps
  the last and the others stay outside any function.
* `Dialect` has the capability bits, what `compile` clears for its version, the words
  for storage and texture functions, the order of a variable's qualifiers, and ten words
  that are written whatever the version (`FixedSince`: types, qualifiers and functions of
  130 to 430, standing for the many that no capability touches); the source's
  own version may be older or newer than the text's. `NoWordTooNew` compares the version
  that brought a word with `#version`: storage, interpolation and texture functions fit,
  but for the blocks of `UNIFORM_BLOCK` and `textureGather`; any other word of the model is
  too new only when the source is newer than the text. It says nothing of words outside the
  model. `OldWordsMean` says what the older words stand for; the exceptions, named in the
  module, are an empty texture function name, a plain sampler's name for an array of
  textures, `varying` where the stage cannot have it, and a missing interpolation.
  `QualifiersRead` says when the qualifiers are
  words of GLSL in an order it accepts: unless `precise` is asked for (written
  `noContraction`), or `centroid` with an interpolation that is written, before 420.

## 3. The runs

| run | instance | shows |
|---|---|---|
| `pools_reentrant` | 2 threads, 2 jobs, 1 source array, callbacks that call the API, compiles nested 2 deep | every attached thread has the pool it should, in and out of parses (`PoolChain`); two threads share one only inside compiles of one job (`PoolsShared`); a missing or dead pool is used only by a thread that is not attached, or after a thread unregistered in the middle of a parse, and lost data was in a dead pool or under a mark (`FaultsExplained`) |
| `pools_data` | 2 threads, 1 job, 1 block, 1 source array, push and pop as Java declares them | marks balance, data allocated outside a push survives while its pool does, lost data was under a mark or from a worker that unregisters (`LostDataExplained`), and `MemoryPools` implements `WorkerThreads` |
| `pools_throw` | parse may throw, `InitializeProcess` may fail | a thread keeps a foreign pool exactly when a mark was left on its own |
| `objects` | 2 threads, 2 jobs, 2 includers, one of them null's, finalizer, headers nested 2 deep, careful client | each fault has its explanation, flags and objects agree, the compiler outlives the jobs it lists, one includer at a time |
| `scopes` | 2 names, 4 variables, 3 open statements, 6 statements, depth limit 3 | which features of a source put a local's declaration in the wrong place, that nothing else does, and that lists and scopes correspond |
| `loading` | a process with two threads and one with a thread that is started twice, Windows, macOS on x86-64 and ARM | who is told the library is loaded can use it unless an init failed or two threads overlapped; a file is incomplete only if another's sweep took it; a later init clears what is left |
| `shader_text` | see 4 | the eight text algorithms: eleven properties, each about one of them |
| `pools_stack_depth`, `pools_unregister`, `pools_gui`, `objects_deleted`, `scopes_sas` | small | disagreements between the code and its own statements, see 5 |

Deadlock is not checked: each model has an end (the library unloaded, a fault, a process
that exited for good, the bound of a growing input), and every client may stop calling.

## 4. The bounds

* **Two threads** are enough to have a main thread and a worker, or two workers, in
  each other's way; the pools of a third would be as independent as those of the second
  (the proofs of section 6 hold for any number). Nesting of two compiles is the first
  that must restore a pool that is itself a shader's. `MaxDepth = 1` allows one push, and
  so both a balanced and an unbalanced pop.
* **Two jobs, two includers** suffice to lose one of two additions, and to replace an
  includer by another while the first is in use. **`MaxInclude = 2`**, 32 in the code, lets
  a header open another and reach the limit; the code only compares with it.
* **`MaxFiles = 4`** never binds: a start creates at most one file per thread that
  passes the test of `loaded`, which is four in this instance.
* **One block, one source array, one job** in the runs about data: a block made by one
  thread, extended by another and emitted by either needs no second one. With callbacks
  that re-enter the API only the source array is there, as blocks under two jobs are too many
  states for TLC; `FaultsHaveReason` proves it of blocks too.
* **Scopes**: two names give shadowing and reuse; the depth limit, 256 in the code, is 3,
  so that six statements can go beyond it; the code is uniform in that number.
* **Expressions** have up to four operators around a variable: each misreading needs
  two, in some order, and two more may hide it. **Constants** have components 0 and 1 and
  sixteen types, the members of structures among them: arrays of one to three dimensions, a square and an oblong matrix, nested
  and arrayed structures; no constructor has more than three arguments (`MaxArguments`), nor
  an array more than three dimensions. **Numbers**: all lengths up to 17, all powers from -324 to 308;
  `Prettify` looks at nothing else. **Statements** nest three deep around the innermost, so
  that a shape that is misread can itself be the body of another statement. **Typed values**
  take up to four operators, from vectors of up to four components of five kinds.
  **Sections** have up to four declarations, one more than the longest exception needs (a
  prototype, a caller and a definition). **Structures**: all containments of four and all
  ways for them to share names, with one built-in: a structure inside one of its own name,
  between others, needs three. **Versions** lie on both sides of every comparison in the code; the four
  capabilities are those any modelled choice looks at; a behaviour writes one text, since a
  compilation leaves the capabilities alone.

## 5. Where the code disagrees with itself

Each is a run that TLC finds violated, with a trace that ends in the disagreement.

* `pools_stack_depth`: Java's stack depth is no depth of the native stack, since push and
  pop are exported under other names (OJ:187, :192).
* `pools_unregister`: `unregisterWorkThread` detaches twice, and the second call uses
  the pool pointer that the first has cleared (`ShaderCompilerManager.java:36`, `:39`).
* `pools_gui`: the GUI test compiles on the Swing event thread, which nobody registered.
* `objects_deleted`: `assertNotDeleted` is called by no method, so the run creates a job,
  deletes it and compiles it: the freed object's address reaches native code.
* `scopes_sas`: `int a = 1, b = 2;` is taken for a block (the comment at
  `cpp/Traverser.cpp:571` says what is thought of such sequences), and the variables are
  declared inside braces of their own.

The exceptions in `ExpressionReadsBack`, `StatementReadsBack`, `TypesKept`, `NamesResolve`,
`InitialisersRun`, `QualifiersRead`, `ConstantReadsBack`, `StructsDeclared`,
`OldWordsMean`, and the mishaps of `NativeObjects` describe further behaviour of the code
that no comment contradicts; they are stated in the properties, which say both that they
happen and that nothing else does.

## 6. What is proved

`MemoryPools_proofs` proves, for every set of threads, jobs, blocks and arrays and every
`MaxDepth` and `MaxNest` that `PoolsAssumption` admits:

* `TypeCorrect`: `Spec => []TypeOK`, with no further assumption.
* `PoolChainHolds`: `Spec => []PoolChain`, if parse does not throw and `InitializeProcess`
  succeeds. Callbacks may nest to any depth.
* `NoAttachedFault`: `Spec => []FaultsOnlyOutside`, if moreover callbacks keep out of the
  API: an attached thread never uses a missing or dead pool. It may still find data lost,
  which is what `LostDataHasReason` is about.
* `PoolsServeWorkers`: under those assumptions `Spec => Abstract!Spec`: initial states map
  to initial states, every step to a step of `WorkerThreads` or a stutter. There, a call by
  an attached thread is fatal only after data has been lost, and data is lost only by what
  one of the threads does that gave it memory.

A second part of the module is about the pools themselves, for the same constants:

* `OnePoolOneThread` and `FaultsHaveReason`: `Spec => []PoolsShared` and `Spec =>
  []FaultsExplained`, if parse does not throw and `InitializeProcess` succeeds, with
  callbacks nesting to any depth.
* `BaseDataStays`: `Spec => []BaseDataSurvives`, under those two assumptions as well.
* `LostDataHasReason`: `Spec => []LostDataExplained`, if moreover callbacks keep out of the
  API.
* `MarksMatch`: `Spec => []MarksBalanced`, if moreover the two natives of the pool stack are
  both exported or both missing (`Paired`; as built both are missing).

`PoolChain` is not inductive. It speaks of attached threads and of the innermost frame; to
know which pool `ParseReturns` puts back one must know what each frame remembers, and to
know that a worker's pool is its own one must know that nobody else writes its pointer.
`PoolInv` is the invariant:

* `LibInv`: which fields can differ from their first values in which phase of loading, and
  that the loader is never registered;
* `OutsideInv`: a thread neither registered nor the loader has no pool;
* `ChainInv`: along the frames of a thread, each remembers the pool of the one below, the
  lowest remembers the thread's home pool, all but the last are parsing, and the pointer is
  the shader's pool in a parse and the remembered one after it;
* `TypeOK`.

`ServedInv` adds what the faults need: at most one frame (`NestInv`), a registered thread's
pool lives (`LiveInv`), nobody is in a call once the library is gone (`GoneInv`), no data is
in a shader's pool and all data has memory in the pool it was created in (`HomeInv`), so
that a call that extends it with that pool dead finds it torn. The preservation proofs have
one lemma per action; the refinement goes through `NextKinds`, which sorts the steps of
`Next` into what they do to a thread's abstract state. The assumptions on parse and
callbacks are needed: with a throwing parse TLC finds a thread left with a foreign pool
(`pools_throw` describes exactly when), and with re-entrant callbacks a thread that
unregisters from inside a callback, which deletes the pool of the shader being parsed.

`PoolsShared` follows from `PoolInv`: a served thread's pool is its home or a job of one of
its frames, and homes differ. The others need more:

* `AliveInv`: until a thread unregisters, the pools of the registered threads and of all
  jobs being compiled exist. It is preserved because `leaving` never ends: the second native
  call of `unregisterWorkThread` finds no pool (`AgainFaults`).
* `MarkInv`: the level of a worker's pool is Java's marks plus one if its thread is
  compiling, the main pool's is one plus the same for its thread, and a worker's pool exists
  while it is registered only. One compile's begin and end move the level of one pool
  (`HomeMoves`).
* `TakenInv`: a pool that exists, in which an item has memory, or from which an item's
  vector draws, is never created again, so that what is reclaimed stays so.
* `DeepInv`: the main pool keeps the mark of `JNI_OnLoad`, and one more while its thread
  compiles. The base of a worker's pool is level 0, where nothing can be popped, so no pop
  reaches a base, whatever callbacks call; `MarkInv` is not needed for that.
* `LostInv`: the item of a fault is torn. It has lost memory by `BaseDataStays`, and whose
  that was follows from `LiveInv` and `TakenInv`.

The third part drops the assumptions that parse does not throw and that `InitializeProcess`
succeeds, under which `PoolInv` and `MarkInv` hold: `StrayKeepsMark` is `Spec =>
[]StrayPoolKeepsMark`, if callbacks keep out of the API and neither native of the pool stack
links, as built. A parse that leaves by an exception skips both the pop of `compile_do`'s
mark and the restoring of the pool, and a later compile of the same thread starts from the
shader's pool that is left. `StrayInv` says that these never come apart: each attached
thread has, or will get back, its own pool at its usual level, or a shader's pool while the
level of its own is above that (`Stands`), and no other thread has that own pool current
(`Place`, `HomeAlone`), so that nobody else can change its level. Only while the library
runs: a pool of a thread that has left is nobody's own.

`LibraryLoading_proofs` proves all five invariants of the start-up, for any numbers of
processes, threads and starts and all platforms: `TypeCorrect`, `MainThread`
(`MainThreadHasPool`), `ReturnsReady` (`InitReturnsReady`), `CopyWhole`
(`WholeUnlessRobbed`) and `SweepsLeftovers` (`LeftoversSwept`). `MainInv` collects the
threads that ever claimed the load: `mainThread` and the owner of the main pool are among
them, so they are the same if there is one. `ReadyInv`: while the library is claimed and
neither available nor given up, some thread is still on its way. For the copies, `DirInv`:
no two threads extract to one file (`OwnInv`), what a process deletes at its exit is nobody
else's (`HookInv`), and a file missing during or after its copy has been swept (`CopyInv`).
For the sweep: a process that has ended holds no file (`HeldInv`), a file a sweep found dead
is taken up by nobody (`StrayInv`), so that it is gone or still on that sweep's list
(`SweptInv`).

`NativeObjects_proofs` proves, for any threads, jobs and includers: `TypeCorrect` and
`NoIncluderLeft` (`OneIncluder`) for any client, `FlagTellsFate` (`FlagIsFate`),
`JobsGoFirst` (`CompilerOutlivesJobs`) and `NoOtherFault` (`FaultsExplained`) for a
`Careful` one, as careless threads that both pass the test of `deleted` free one job twice.
The invariants are conjunctions with one part per hazard, each under the mishap that voids
it: `FateInv` ties a wrapper's flag to its object and to where its `delete` stands, before
the flag or between the flag and the native, in one thread at a time, `SwapInv` (without
`includerRace`) the includer to the step of `setIncluder`, `ListInv` (without `lostAdd`) the
compiler's list to the live jobs, `ParseInv` (without a race) a parse to the objects it
uses, `HollowInv` an includer without a Java object to a `setIncluder(null)`, `LifeInv` that
a careful client's calls find the compiler until `delete`'s last step, and `UseInv` which
mishaps explain a bad use. `CallOK` and `CloseOK`, part of the typing, say what a call's
arguments can be at each of its steps.

`EmitterScopes_proofs` proves, for any names, any depth and statements in any number:

* `TypeCorrect`: `Spec => []TypeOK`.
* `ListsMirror`: `Spec => []ScopesMirror`: below the depth limit there is one list per open
  brace, and a name that an open scope of the text declares is in the list of the innermost
  brace around it. The converse does not hold: a loop's name stays in its list after the
  loop. `MirrorInv`: the lists the text's scopes point to never fall along the open scopes,
  and a loop's header, which has no list of its own, is followed by the brace of its body,
  which is no `do`'s.
* `StaysVisible`: `Spec => []VisibleWhileInScope`, a statement about sources without any of
  the listed features. `VisInv`: each name is bound once in the source and once in the text,
  each text scope has a home among the source's scopes (a header's is its body's) and
  declares exactly what is bound there, so that the two close together.

`ScopeErrors_proofs` adds `ErrorsAreExplained`: `Spec => []ErrorsExplained`, for the same
constants and for sources with any of the features. A local `const` that is no temporary is
never declared, so that the text that initialises it is already an error, which its feature
explains (`ConstExplained`). Once a feature has been met `VisInv` is lost, and past the
depth limit so is `MirrorInv`: the lists no longer count the braces. So `SoundInv` counts
the braces of the text itself (`Depth`), which always number the source's open scopes
(`Nest`), and says the rest in three parts, each void only once one of the features that
explain an error of its kind has been met (`Settled`):

* without a late first use, a declaration of several or too deep a nesting, a typed variable
  in scope is in a list that lasts as long as its scope (`Kept`): nothing is typed twice or
  inside an expression;
* without shadowing, each name is bound once in the source, and what a scope of the text
  declares a scope of the source that lasts at least as long declares (`Own`): no use is
  captured;
* without shadowing, late uses or a loop's name used again, a name in a list is there for a
  scope of the text, or for a loop of the source, that the list does not outlast, and a
  loop's name in scope is bound by its header (`Live`): every use has its declaration.

Below the depth limit `MirrorInv` rules out that a `popDepth` finds no list
(`OverflowIsDeep`). A feature is never forgotten, so an error found after it is explained by
it; the proof is one lemma per action for the errors (`UsesExplained`, `ForExplained`, ...)
and one for the invariant.

Two modules of the text have their theorems in `TextWords_proofs`. For `Dialect`, for any
set of versions and of capabilities that `DialectAssumption` admits, as theorems of
`DialectSpec`:

* `WordsAreOldEnough`: `[]NoWordTooNew`;
* `OldWordsAreMeant`: `[]OldWordsMean`;
* `QualifiersAreRead`: `[]QualifiersRead`, an equivalence.

`NoWordTooNew` is about the words of the model: storage, interpolation and texture
functions, which capabilities decide, and the ten of `FixedSince`, which are new only in a
new source. Nothing is assumed of the capabilities but that they are bits, so every
combination of `setShaderCapability` calls is covered, beyond the ones the run tries. The
lemmas are the arithmetic of the bits: clearing one leaves the others (`Clearing`,
`Cleared130`, ...), so that a compilation has GLSL130 exactly if the client set it and the
version is at least 300, and GLSL150 likewise from 320 (`EffectiveBits`); and the order of
the words, each piece of the text being ranked above the one before it (`ConcatRanked`,
`WordsWritten`). A word newer than the text then has a source that asked for it, which is
newer than the text as well (`NewerSource`, `LargestVersion`).

For `ShaderSections` they are `NamesAreResolved` and `InitialisersAreRun`, `SectionsSpec =>
[]NamesResolve` and `SectionsSpec => []InitialisersRun`, for any names and sources of any
length. `SourceInv` says of a source that a declaration's kind tells whose name it has, that
only a prototype and its function have one name, that what is used is declared somewhere,
and that one initialiser is the last. What a text declares before a function is what a
symbol, the client's block or an earlier function declares (`GivenIs`); `DataResolves` and
`FunctionResolves` compare that, kind by kind, with what `NamesResolve` excepts.

`TextRecursion_proofs` is about the three modules whose code is recursive, or whose text is
read by a recursion. It rests on `Recursion_proofs`: a recursive function of TLA+ is
whatever satisfies its equation, if anything does, so nothing follows from its definition
until such a function is known to exist. `RecursionByRank` says that it does if the value at
each argument depends only on the values at arguments of a lower rank (`LooksLower`), a
natural number; the lemma is proved from the least element of a set of numbers
(`NatSetInduction`), and `RankInduction` is the induction that goes with it. `HighestOf`
picks the last of several structures of one name. `LexicographicRank` supplies the rank: a
structure's or type's number first, then the arguments done.

* `StructsAreDeclared`: `StructSpec => []StructsDeclared`, an equivalence, for any number of
  structures, any containment, any names they share and any built-ins. `AfterMembersIs` is
  the equation of the loop. `FindStructExtends`: what `findStruct` finds extends what it
  had, by structures inside the one it was given, which then is among them, and leaves the
  order without repetition and closed (`InOrder`), among structures that have names of their
  own (`World`); by induction on the rank of the call. `StructInv` adds to that what the
  order is made of: exactly what is inside the visited structures, if their names are. For
  the converse, a text in which all of those are declared once has a name for each
  (`DeclaredIsApart`). What is inside a structure is the least set closed under members
  (`InsideIsLeast`), and has smaller numbers (`InsideIsSmaller`), which is why a structure
  is never found again while its own members are looked for.
* `ConstantsMean`: `ConstSpec => []ConstantReadsBack`, an equivalence, for any types that
  `ConstantAssumption` admits: a nesting of structures and of arrays with any bound on their
  arguments, including arrays of none. `EmittedIs` and `LaidIs` are the equations of the two
  walks. `Agrees` relates them: they end at the same index, and the text is the components
  between exactly when none of the matrices there is uniform. `LeafAgrees` is the case
  without arguments, where `emitNonArrayConst` shortens; `ArgumentAgrees` joins one more
  argument to those done, `LoopAgrees` and `ConstructorAgrees` are the induction.
* `DecimalsMean`: `DecimalSpec => []DecimalReadsBack`, for numbers of up to 119 digits,
  which is what the buffer of `emitConst` holds (17 is what Grisu2 yields), and exponents of
  up to three digits, which is what `WriteExponent` writes. One lemma for each way
  `Prettify` writes a number says where its digits are (`WholeIs`, `PointedIs`,
  `FractionIs`, `HeadIs`), one what a reader makes of it (`WholeReads`, ...).
  `MagnitudeSums` and `ExponentRead`: reading the exponent from the left gives back the
  number that was written from its quotients and remainders.

Left to TLC: `TypesKept`, whose content is the two tables of names, finite and compared name
by name by the run; and `ExpressionReadsBack` and `StatementReadsBack`. The writers and
readers of these two are `RECURSIVE` operators, with which the provers can do nothing; as
functions they would need the set of all trees for a domain, and the theorem would be that a
reader with a grammar's levels of precedence inverts the writer. TLC covers their trees of
up to four operators or three levels.

**Fairness.** None is assumed and no liveness is stated. A compile ends if its parse does,
and the parse calls the includer a client wrote (OJ:58), of which the code guarantees
nothing; everything else in a module happens when a client calls.

## 7. Not modelled

* `NativeLoader`, `WebappJniExtractor`, `MxSysInfo`: no code of the library uses them.
* Grisu2 in `dtoa_milo.h`: 64-bit arithmetic over all doubles. `DecimalText` takes its
  digits and exponent as given and models what `Prettify` makes of them.
* glslang beyond what the code uses of it: those definitions are marked external.
* The layout line of the shader's stage (`Traverser.cpp:164-235`) and the items of a layout
  qualifier: each copies one value of glslang.
* The suffixes of scalar literals of the wide types (`uint`, 64-bit, `double`).
* A null result of `listFiles` (`BaseJniExtractor.java:279`), on which the sweep throws.
* The other built-in functions of `visitUnary` and `visitAggregate`, about 200 names: a call
  in `ExpressionText` is one function, and `TypedText` has the names of its section 2 only.
  Matrices are values in `ConstantText` only.
* Extensions, and words of the version other than those of `Dialect`.
* The string `addPreprocess` takes from the pool, since the call is undefined with any line
  (`NativeObjects`).
* The GUI test beyond its calls to the API; vendored headers; the build scripts.
* Two additions to a compiler's `ArrayList` of jobs overlap as a lost addition; that the
  list's own array may also be left inconsistent is not distinguished.

## 8. Plan

What is left, in order:

1. The shortest digits of a `double` (Grisu2), over a small floating-point format.
2. Layout qualifiers in `ShaderSections`, if the emitter gains conditions on them.
