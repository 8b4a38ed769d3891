--------------------------- MODULE LibraryLoading ---------------------------
(***************************************************************************)
(* Loading the native library: threads of several Java processes call      *)
(* OpenShaderJni.init, which extracts the packaged library to the shared   *)
(* temporary directory, sweeps the leftovers of earlier runs from there,   *)
(* loads the copy and initialises it.                                      *)
(*                                                                         *)
(* The processes share only the directory: what one extracts another may   *)
(* delete.  The threads of a process share the static fields of            *)
(* OpenShaderJni, which no lock guards and which are not volatile.  A      *)
(* process may exit or be killed at any moment and be started again.       *)
(***************************************************************************)
EXTENDS Integers, FiniteSets, TLC

CONSTANTS
  Process,   \* Java processes with the same temporary directory
  Thread,    \* threads that call OpenShaderJni.init
  ProcessOf, \* the process of each thread
  Machines,  \* the <<os.name, os.arch>> to consider
  Packaged,  \* the <<architecture, suffix>> of the libraries in the jar
  MaxFiles,  \* bound: temporary files ever created
  MaxStarts, \* bound, per process: how often it is started
  None

ASSUME LoadingAssumption ==
  /\ ProcessOf \in [Thread -> Process]
  /\ MaxFiles \in Nat \ {0} /\ MaxStarts \in [Process -> Nat \ {0}]
  /\ None \notin Process \cup Thread
  /\ \A m \in Machines : m[1] \in {"linux", "windows", "mac"}

VARIABLES
  machine,    \* the machine's <<os.name, os.arch>>
  alive,      \* per process: is it running?
  starts,     \* per process: how often it was started
  loaded,     \* per process: OpenShaderJni.loaded
  available,  \* per process: OpenShaderJni.available
  mainThread, \* per process: OpenShaderJni.mainThread
  image,      \* per process: the file its natives are bound to
  poolThread, \* per process: the thread JNI_OnLoad of that image ran on
  mapped,     \* per process: the files System.load has loaded
  atExit,     \* per process: the files deleteOnExit has registered
  leaked,     \* per process: the files whose output stream was never closed
  pc,         \* per thread: where it is in init
  file,       \* per thread: the file it extracts to
  todo,       \* per thread: the leftovers it has listed and not yet tried
  disk,       \* per file: what the temporary directory holds
  suffix,     \* per file: the suffix of its name
  claimed,    \* history, per process: threads that went past the test of loaded
  failed,     \* history, per process: did an init throw?
  robbed,     \* history: files another's sweep deleted before they were loaded
  doomed      \* history, per thread: dead files its sweep listed, deletable

statics == <<loaded, available, mainThread>>
linked  == <<image, poolThread, mapped>>
held    == <<atExit, leaked>>
life    == <<machine, alive, starts>>
history == <<claimed, failed, robbed, doomed>>
vars == <<life, statics, linked, held, pc, file, todo, disk, suffix, history>>

Files == 1 .. MaxFiles
Peers(p) == {t \in Thread : ProcessOf[t] = p}

Waiting == {"idle", "returned", "threw"}
Steps   == {"claiming", "listing", "sweeping", "created", "copying",
            "extracted", "linking", "naming", "publishing"}
Contents == {"absent", "empty", "part", "whole"}

TypeOK ==
  /\ machine \in Machines
  /\ alive \in [Process -> BOOLEAN]
  /\ starts \in [Process -> Nat] /\ \A p \in Process : starts[p] <= MaxStarts[p]
  /\ loaded \in [Process -> BOOLEAN] /\ available \in [Process -> BOOLEAN]
  /\ mainThread \in [Process -> Thread \cup {None}]
  /\ poolThread \in [Process -> Thread \cup {None}]
  /\ image \in [Process -> Files \cup {0}]
  /\ mapped \in [Process -> SUBSET Files] /\ atExit \in [Process -> SUBSET Files]
  /\ leaked \in [Process -> SUBSET Files]
  /\ pc \in [Thread -> Waiting \cup Steps]
  /\ file \in [Thread -> Files \cup {0}] /\ todo \in [Thread -> SUBSET Files]
  /\ disk \in [Files -> Contents]
  /\ suffix \in [Files -> {"", ".so", ".dll", ".dylib", ".jnilib"}]
  /\ claimed \in [Process -> SUBSET Thread] /\ failed \in [Process -> BOOLEAN]
  /\ robbed \in SUBSET Files /\ doomed \in [Thread -> SUBSET Files]

-----------------------------------------------------------------------------
(* The platform. *)

Processor(arch) ==
  CASE arch = "arm" -> "ARM"
    [] arch = "aarch64" -> "AARCH_64"
    [] arch = "ppc" -> "PPC"
    [] arch \in {"x86", "i386"} -> "INTEL_32"
    [] arch \in {"x86_64", "amd64"} -> "INTEL_64"
    [] OTHER -> "UNKNOWN"

Names ==
  [linux   |-> [INTEL_32 |-> "linux_32", INTEL_64 |-> "linux_64",
                ARM |-> "linux_arm", AARCH_64 |-> "linux_arm64"],
   windows |-> [INTEL_32 |-> "windows_32", INTEL_64 |-> "windows_64"],
   mac     |-> [INTEL_32 |-> "osx_32", INTEL_64 |-> "osx_64", PPC |-> "osx_ppc"]]

Architecture(m) ==
  IF Processor(m[2]) \in DOMAIN Names[m[1]] THEN Names[m[1]][Processor(m[2])]
  ELSE "UNKNOWN"

Mapped(os) == [linux |-> ".so", windows |-> ".dll", mac |-> ".dylib"][os]

(* The mapped name of the library, or the other of the two macOS suffixes. *)
Alternative(s) == IF s = ".dylib" THEN ".jnilib" ELSE s

Found(m) ==
  LET a == Architecture(m)  s == Mapped(m[1])
  IN  {x \in {s, Alternative(s)} : a # "UNKNOWN" /\ <<a, x>> \in Packaged}

\* Mutant of Chosen: the suffix is cut after its dot.
MutantNoDot(m) == [linux |-> "so", windows |-> "dll", mac |-> "dylib"][m[1]]

Chosen(m) == IF Mapped(m[1]) \in Found(m) THEN Mapped(m[1]) ELSE Alternative(Mapped(m[1]))

(* A file that is open or loaded is deleted all the same, except on Windows. *)
(* A stream left open is closed when the collector gets to it.               *)
Running == {p \in Process : alive[p]}
Open == {file[t] : t \in {u \in Thread : pc[u] = "copying"}}
Leaked == UNION {leaked[p] : p \in Running}
Deletable(f) ==
  IF machine[1] # "windows" THEN {TRUE}
  ELSE IF f \in Open \cup UNION {mapped[p] : p \in Running} THEN {FALSE}
  ELSE IF f \in Leaked THEN {TRUE, FALSE}
  ELSE {TRUE}

(* The library files in the directory that belong to no running process.     *)
Dead ==
  {f \in Files : disk[f] # "absent" /\ suffix[f] = Chosen(machine)}
  \ (Leaked \cup {file[t] : t \in Thread} \cup UNION {atExit[p] : p \in Running})

-----------------------------------------------------------------------------
(* OpenShaderJni.init, a step at a time. *)

Init ==
  /\ machine \in Machines
  /\ alive = [p \in Process |-> TRUE] /\ starts = [p \in Process |-> 1]
  /\ loaded = [p \in Process |-> FALSE] /\ available = [p \in Process |-> FALSE]
  /\ mainThread = [p \in Process |-> None] /\ poolThread = [p \in Process |-> None]
  /\ image = [p \in Process |-> 0] /\ mapped = [p \in Process |-> {}]
  /\ atExit = [p \in Process |-> {}] /\ leaked = [p \in Process |-> {}]
  /\ pc = [t \in Thread |-> "idle"] /\ file = [t \in Thread |-> 0]
  /\ todo = [t \in Thread |-> {}]
  /\ disk = [f \in Files |-> "absent"] /\ suffix = [f \in Files |-> ""]
  /\ claimed = [p \in Process |-> {}] /\ failed = [p \in Process |-> FALSE]
  /\ robbed = {} /\ doomed = [t \in Thread |-> {}]

Goes(t, to) == pc' = [pc EXCEPT ![t] = to]

At(t, from, to) ==
  /\ alive[ProcessOf[t]] /\ pc[t] = from
  /\ Goes(t, to)

(* What a thread may read in loaded, which is not volatile: what it wrote    *)
(* itself, and until then the old value as well.                             *)
Reads(t) ==
  IF loaded[ProcessOf[t]] /\ t \notin claimed[ProcessOf[t]] THEN {TRUE, FALSE}
  ELSE {loaded[ProcessOf[t]]}

\* Mutant of Test: mainThread is assigned after the if, not in it.
MutantNames(t) ==
  /\ alive[ProcessOf[t]] /\ pc[t] \in Waiting
  /\ \E seen \in Reads(t) :
       /\ Goes(t, IF seen THEN "returned" ELSE "claiming")
       /\ mainThread' = IF seen THEN [mainThread EXCEPT ![ProcessOf[t]] = t] ELSE mainThread
  /\ UNCHANGED <<life, loaded, available, linked, held, file, todo, disk, suffix, history>>

(* if (!loaded)                                                              *)
Test(t) ==
  /\ alive[ProcessOf[t]] /\ pc[t] \in Waiting
  /\ \E seen \in Reads(t) : Goes(t, IF seen THEN "returned" ELSE "claiming")
  /\ UNCHANGED <<life, statics, linked, held, file, todo, disk, suffix, history>>

(* loaded = true.  An unknown architecture then returns false, and a missing *)
(* resource throws an IOException that loadNativeLibrary swallows; init      *)
(* reads neither.                                                            *)
Claim(t) ==
  /\ At(t, "claiming", IF Found(machine) = {} THEN "linking" ELSE "listing")
  /\ loaded' = [loaded EXCEPT ![ProcessOf[t]] = TRUE]
  /\ claimed' = [claimed EXCEPT ![ProcessOf[t]] = @ \cup {t}]
  /\ UNCHANGED <<life, available, mainThread, linked, held, file, todo, disk, suffix,
                 failed, robbed, doomed>>

\* Mutant of Leftovers: the prefix compared is the whole name.
MutantNoMatch == {}

Leftovers == {f \in Files : disk[f] # "absent" /\ suffix[f] = Chosen(machine)}

(* deleteLeftoverFiles: list the files with our prefix and suffix            *)
List(t) ==
  /\ At(t, "listing", "sweeping")
  /\ todo' = [todo EXCEPT ![t] = Leftovers]
  /\ doomed' = [doomed EXCEPT ![t] = Dead]
  /\ UNCHANGED <<life, statics, linked, held, file, disk, suffix, claimed, failed, robbed>>

(* ... and try to delete each.  A file that cannot be deleted stays.         *)
Sweep(t) ==
  /\ At(t, "sweeping", "sweeping")
  /\ \E f \in todo[t] : \E deleted \in Deletable(f) :
       /\ todo' = [todo EXCEPT ![t] = @ \ {f}]
       /\ disk' = IF deleted THEN [disk EXCEPT ![f] = "absent"] ELSE disk
       /\ robbed' = IF deleted /\ f \in {file[u] : u \in Thread \ {t}}
                    THEN robbed \cup {f} ELSE robbed
  /\ UNCHANGED <<life, statics, linked, held, file, suffix, claimed, failed, doomed>>

Fresh == {f \in Files : suffix[f] = "" /\ \A g \in 1 .. f - 1 : suffix[g] # ""}

(* File.createTempFile                                                       *)
Create(t) ==
  /\ At(t, "sweeping", "created")
  /\ todo[t] = {}
  /\ \E f \in Fresh :
       /\ file' = [file EXCEPT ![t] = f]
       /\ disk' = [disk EXCEPT ![f] = "empty"]
       /\ suffix' = [suffix EXCEPT ![f] = Chosen(machine)]
  /\ UNCHANGED <<life, statics, linked, held, todo, history>>

(* new FileOutputStream: truncates the file, or makes it again if it is gone *)
OpenFile(t) ==
  /\ At(t, "created", "copying")
  /\ disk' = [disk EXCEPT ![file[t]] = "empty"]
  /\ UNCHANGED <<life, statics, linked, held, file, todo, suffix, history>>

\* Mutant of Write: the loop stops after its first pass.
MutantShort(t, part) == [disk EXCEPT ![file[t]] = IF @ = "absent" THEN @ ELSE "part"]

(* One pass of copy's loop; what is written to a deleted file is lost.       *)
Write(t, part) == [disk EXCEPT ![file[t]] = IF @ = "absent" THEN @ ELSE part]

Copy(t) ==
  /\ At(t, "copying", "copying")
  /\ disk[file[t]] = "empty"
  /\ disk' = Write(t, "part")
  /\ UNCHANGED <<life, statics, linked, held, file, todo, suffix, history>>

(* The last pass, both streams closed, deleteOnExit.                         *)
Finish(t) ==
  /\ At(t, "copying", "extracted")
  /\ disk[file[t]] # "empty"
  /\ disk' = Write(t, "whole")
  /\ atExit' = [atExit EXCEPT ![ProcessOf[t]] = @ \cup {file[t]}]
  /\ UNCHANGED <<life, statics, linked, leaked, file, todo, suffix, history>>

(* An IOException while the file is created, opened or written: what is      *)
(* there stays, in the last case with its stream open, and it is not         *)
(* registered for deletion.                                                  *)
Abort(t) ==
  /\ alive[ProcessOf[t]]
  /\ \/ pc[t] \in {"created", "copying"}
     \/ pc[t] = "sweeping" /\ todo[t] = {}
  /\ Goes(t, "linking")
  /\ file' = [file EXCEPT ![t] = 0] /\ doomed' = [doomed EXCEPT ![t] = {}]
  /\ leaked' = IF pc[t] = "copying" THEN [leaked EXCEPT ![ProcessOf[t]] = @ \cup {file[t]}]
               ELSE leaked
  /\ robbed' = robbed \ {file[t]}
  /\ UNCHANGED <<life, statics, linked, atExit, todo, disk, suffix, claimed, failed>>

Loadable(f) == disk[f] = "whole"

(* System.load, whose UnsatisfiedLinkError is swallowed.  JNI_OnLoad runs on *)
(* this thread and gives it a main pool in the copy loaded; the natives stay *)
(* bound to the first copy.                                                  *)
Load(t) ==
  LET p == ProcessOf[t] IN
  /\ At(t, "extracted", "linking")
  /\ IF Loadable(file[t])
     THEN /\ mapped' = [mapped EXCEPT ![p] = @ \cup {file[t]}]
          /\ image' = [image EXCEPT ![p] = IF @ = 0 THEN file[t] ELSE @]
          /\ poolThread' = [poolThread EXCEPT ![p] = IF image[p] = 0 THEN t ELSE @]
     ELSE UNCHANGED linked
  /\ file' = [file EXCEPT ![t] = 0] /\ robbed' = robbed \ {file[t]}
  /\ doomed' = [doomed EXCEPT ![t] = {}]
  /\ UNCHANGED <<life, statics, held, todo, disk, suffix, claimed, failed>>

(* initJni: an UnsatisfiedLinkError unless a copy is loaded.  (That glslang  *)
(* does not initialise is in MemoryPools; here it always does.)              *)
LinkNatives(t) ==
  /\ At(t, "linking", "naming")
  /\ image[ProcessOf[t]] # 0
  /\ UNCHANGED <<life, statics, linked, held, file, todo, disk, suffix, history>>

LinkFails(t) ==
  /\ At(t, "linking", "threw")
  /\ image[ProcessOf[t]] = 0
  /\ failed' = [failed EXCEPT ![ProcessOf[t]] = TRUE]
  /\ UNCHANGED <<life, statics, linked, held, file, todo, disk, suffix,
                 claimed, robbed, doomed>>

(* mainThread = Thread.currentThread()                                       *)
Name(t) ==
  /\ At(t, "naming", "publishing")
  /\ mainThread' = [mainThread EXCEPT ![ProcessOf[t]] = t]
  /\ UNCHANGED <<life, loaded, available, linked, held, file, todo, disk, suffix, history>>

\* Mutant of Publish: available is not set.
MutantUnavailable(t) ==
  /\ At(t, "publishing", "returned")
  /\ UNCHANGED <<life, statics, linked, held, file, todo, disk, suffix, history>>

(* available = true                                                          *)
Publish(t) ==
  /\ At(t, "publishing", "returned")
  /\ available' = [available EXCEPT ![ProcessOf[t]] = TRUE]
  /\ UNCHANGED <<life, loaded, mainThread, linked, held, file, todo, disk, suffix, history>>

-----------------------------------------------------------------------------
(* The end of a process and the next one. *)

(* Its threads, static fields and loaded copies are gone.                    *)
Ends(p) ==
  /\ alive' = [alive EXCEPT ![p] = FALSE]
  /\ loaded' = [loaded EXCEPT ![p] = FALSE]
  /\ available' = [available EXCEPT ![p] = FALSE]
  /\ mainThread' = [mainThread EXCEPT ![p] = None]
  /\ poolThread' = [poolThread EXCEPT ![p] = None]
  /\ image' = [image EXCEPT ![p] = 0]
  /\ mapped' = [mapped EXCEPT ![p] = {}]
  /\ atExit' = [atExit EXCEPT ![p] = {}] /\ leaked' = [leaked EXCEPT ![p] = {}]
  /\ pc' = [t \in Thread |-> IF t \in Peers(p) THEN "idle" ELSE pc[t]]
  /\ file' = [t \in Thread |-> IF t \in Peers(p) THEN 0 ELSE file[t]]
  /\ todo' = [t \in Thread |-> IF t \in Peers(p) THEN {} ELSE todo[t]]
  /\ doomed' = [t \in Thread |-> IF t \in Peers(p) THEN {} ELSE doomed[t]]
  /\ claimed' = [claimed EXCEPT ![p] = {}]
  /\ failed' = [failed EXCEPT ![p] = FALSE]
  /\ robbed' = robbed \ {file[t] : t \in Peers(p)}
  /\ UNCHANGED <<machine, starts, suffix>>

Kill(p) ==
  /\ alive[p]
  /\ Ends(p)
  /\ UNCHANGED disk

(* An orderly exit runs the deleteOnExit hook while the copies are mapped.   *)
Exit(p) ==
  /\ alive[p]
  /\ Ends(p)
  /\ disk' = [f \in Files |-> IF f \in atExit[p] /\ Deletable(f) = {TRUE} THEN "absent" ELSE disk[f]]

Start(p) ==
  /\ ~alive[p] /\ starts[p] < MaxStarts[p]
  /\ alive' = [alive EXCEPT ![p] = TRUE]
  /\ starts' = [starts EXCEPT ![p] = @ + 1]
  /\ UNCHANGED <<machine, statics, linked, held, pc, file, todo, disk, suffix, history>>

Step(t) ==
  \/ Test(t) \/ Claim(t) \/ List(t) \/ Sweep(t) \/ Create(t) \/ OpenFile(t)
  \/ Copy(t) \/ Finish(t) \/ Load(t) \/ LinkNatives(t) \/ LinkFails(t)
  \/ Name(t) \/ Publish(t)

Next ==
  \/ \E t \in Thread : Step(t) \/ Abort(t)
  \/ \E p \in Process : Kill(p) \/ Exit(p) \/ Start(p)

Spec == Init /\ [][Next]_vars

-----------------------------------------------------------------------------
(* Properties. *)

(* The thread OpenShaderJni.getMainThread names, which the compiler manager  *)
(* takes to have the pool that JNI_OnLoad made, does have it, unless two     *)
(* threads got past the test of loaded.                                      *)
MainThreadHasPool ==
  \A p \in Process :
    mainThread[p] # None =>
      mainThread[p] = poolThread[p] \/ Cardinality(claimed[p]) > 1

(* When init returns normally the natives can be called, unless another      *)
(* thread is still in it or an earlier call threw: init is not tried again.  *)
InitReturnsReady ==
  \A t \in Thread :
    pc[t] = "returned" /\ ~available[ProcessOf[t]] =>
      \/ failed[ProcessOf[t]]
      \/ \E u \in Peers(ProcessOf[t]) \ {t} : pc[u] \in Steps

(* The copy that is about to be loaded is the whole library, unless the      *)
(* sweep of another thread or process deleted it meanwhile.                  *)
WholeUnlessRobbed ==
  \A t \in Thread :
    pc[t] = "extracted" => disk[file[t]] = "whole" \/ file[t] \in robbed

(* An extraction leaves none of the files that ended processes had left in   *)
(* the directory when it listed them.                                        *)
LeftoversSwept ==
  \A t \in Thread :
    pc[t] \in {"created", "copying", "extracted"} =>
      \A f \in doomed[t] : disk[f] = "absent"
=============================================================================
