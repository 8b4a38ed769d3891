------------------------ MODULE LibraryLoading_proofs ------------------------
(***************************************************************************)
(* Proofs about LibraryLoading for any processes, threads, machines and    *)
(* packaged libraries and any number of files and restarts.                *)
(***************************************************************************)
EXTENDS LibraryLoading, FiniteSetTheorems, TLAPS

-----------------------------------------------------------------------------
(* Type correctness.                                                       *)

Suffixes == {".so", ".dll", ".dylib", ".jnilib"}

\* What an extraction names its file is one of the platforms' suffixes.
LEMMA ChosenSuffix ==
  ASSUME LoadingAssumption, TypeOK
  PROVE  Chosen(machine) \in Suffixes
<1>1. machine[1] \in {"linux", "windows", "mac"}
  BY DEF LoadingAssumption, TypeOK
<1>2. Mapped(machine[1]) \in {".so", ".dll", ".dylib"}
  BY <1>1 DEF Mapped
<1> QED BY <1>2 DEF Chosen, Alternative, Suffixes

LEMMA StartsBound ==
  ASSUME LoadingAssumption, NEW p \in Process PROVE MaxStarts[p] \in Nat /\ 1 <= MaxStarts[p]
BY DEF LoadingAssumption

LEMMA InitTypes == ASSUME LoadingAssumption, Init PROVE TypeOK
<1>1. starts \in [Process -> Nat] /\ \A p \in Process : starts[p] = 1
  BY DEF Init
<1>2. \A p \in Process : starts[p] <= MaxStarts[p]
  BY <1>1, StartsBound
<1>3. disk \in [Files -> Contents] /\ pc \in [Thread -> Waiting \cup Steps]
  BY DEF Init, Contents, Waiting
<1> QED BY <1>1, <1>2, <1>3 DEF Init, TypeOK

\* A thread has a file exactly while it extracts the library to one.
Extracting == {"created", "copying", "extracted"}
FileOK == \A t \in Thread : file[t] = 0 <=> pc[t] \notin Extracting

Typed == TypeOK /\ FileOK

LEMMA OwnFile ==
  ASSUME LoadingAssumption, Typed, NEW t \in Thread
  PROVE  /\ ProcessOf[t] \in Process
         /\ pc[t] \in Extracting => file[t] \in Files
         /\ 0 \notin Files
<1>1. ProcessOf[t] \in Process
  BY DEF LoadingAssumption
<1>2. 0 \notin Files
  BY DEF Files
<1>3. file[t] \in Files \cup {0}
  BY DEF Typed, TypeOK
<1> QED BY <1>1, <1>2, <1>3 DEF Typed, FileOK

\* The steps of init that write no file.
LEMMA StaticsTypes ==
  ASSUME LoadingAssumption, Typed, NEW t \in Thread,
         \/ Test(t) \/ Claim(t) \/ List(t) \/ LinkNatives(t) \/ LinkFails(t)
         \/ Name(t) \/ Publish(t)
  PROVE  Typed'
<1> USE DEF life, statics, linked, held, history, Typed
<1>0. ProcessOf[t] \in Process
  BY OwnFile
<1>1. pc' \in [Thread -> Waiting \cup Steps] /\ UNCHANGED <<file, life, linked, held, disk, suffix>>
  BY DEF Test, Claim, List, LinkNatives, LinkFails, Name, Publish, At, Goes, Waiting, Steps, TypeOK
<1>2. FileOK'
  <2>1. /\ pc[t] \notin Extracting /\ file' = file
        /\ \E to : pc' = [pc EXCEPT ![t] = to] /\ to \notin Extracting
    BY DEF Test, Claim, List, LinkNatives, LinkFails, Name, Publish, At, Goes, Waiting, Extracting
  <2> QED BY <2>1 DEF TypeOK, FileOK
<1>3. CASE Test(t) \/ LinkNatives(t)
  BY <1>1, <1>2, <1>3 DEF Test, LinkNatives, TypeOK
<1>4. CASE Claim(t)
  BY <1>0, <1>1, <1>2, <1>4 DEF Claim, TypeOK
<1>5. CASE List(t)
  <2>1. Leftovers \subseteq Files /\ Dead \subseteq Files
    BY DEF Leftovers, Dead
  <2>2. todo' \in [Thread -> SUBSET Files] /\ doomed' \in [Thread -> SUBSET Files]
    BY <1>5, <2>1 DEF List, TypeOK
  <2> QED BY <1>1, <1>2, <1>5, <2>2 DEF List, TypeOK
<1>6. CASE LinkFails(t)
  BY <1>0, <1>1, <1>2, <1>6 DEF LinkFails, TypeOK
<1>7. CASE Name(t)
  <2>1. mainThread' \in [Process -> Thread \cup {None}]
    BY <1>0, <1>7 DEF Name, TypeOK
  <2>2. UNCHANGED <<loaded, available, todo, history>>
    BY <1>7 DEF Name
  <2> QED BY <1>1, <1>2, <2>1, <2>2 DEF TypeOK
<1>8. CASE Publish(t)
  <2>1. available' \in [Process -> BOOLEAN]
    BY <1>0, <1>8 DEF Publish, TypeOK
  <2>2. UNCHANGED <<loaded, mainThread, todo, history>>
    BY <1>8 DEF Publish
  <2> QED BY <1>1, <1>2, <2>1, <2>2 DEF TypeOK
<1> QED BY <1>3, <1>4, <1>5, <1>6, <1>7, <1>8

\* Those that write to the directory.
LEMMA ExtractTypes ==
  ASSUME LoadingAssumption, Typed, NEW t \in Thread,
         Sweep(t) \/ Create(t) \/ OpenFile(t) \/ Copy(t) \/ Finish(t)
  PROVE  Typed'
<1> USE DEF life, statics, linked, held, history, Typed
<1>0. ProcessOf[t] \in Process
  BY OwnFile
<1>1. pc' \in [Thread -> Waiting \cup Steps] /\ UNCHANGED <<life, statics, linked, leaked>>
  BY DEF Sweep, Create, OpenFile, Copy, Finish, At, Goes, Steps, TypeOK
<1>2. FileOK'
  <2>1. CASE Create(t)
    <3>1. PICK f \in Files : file' = [file EXCEPT ![t] = f]
      BY <2>1 DEF Create, Fresh
    <3>2. pc' = [pc EXCEPT ![t] = "created"] /\ "created" \in Extracting
      BY <2>1 DEF Create, At, Goes, Extracting
    <3>3. f # 0
      BY OwnFile
    <3>4. \A u \in Thread : u # t => file'[u] = file[u] /\ pc'[u] = pc[u]
      BY <3>1, <3>2 DEF TypeOK
    <3>5. file'[t] = f /\ pc'[t] = "created"
      BY <3>1, <3>2 DEF TypeOK
    <3> QED BY <3>2, <3>3, <3>4, <3>5 DEF FileOK
  <2>2. CASE ~Create(t)
    BY <2>2 DEF Sweep, OpenFile, Copy, Finish, At, Goes, TypeOK, FileOK, Extracting
  <2> QED BY <2>1, <2>2
<1>3. disk' \in [Files -> Contents]
  BY DEF Sweep, Create, OpenFile, Copy, Finish, Write, Contents, TypeOK
<1>4. CASE Sweep(t)
  <2>0. PICK f \in todo[t] :
          /\ todo' = [todo EXCEPT ![t] = @ \ {f}]
          /\ robbed' \in {robbed, robbed \cup {f}}
    BY <1>4 DEF Sweep
  <2>1. todo' \in [Thread -> SUBSET Files] /\ robbed' \in SUBSET Files
    BY <2>0 DEF TypeOK
  <2> QED BY <1>1, <1>2, <1>3, <1>4, <2>1 DEF Sweep, TypeOK
<1>5. CASE Create(t)
  <2>1. suffix' \in [Files -> {"", ".so", ".dll", ".dylib", ".jnilib"}]
    BY <1>5, ChosenSuffix DEF Create, Fresh, Suffixes, TypeOK
  <2>2. file' \in [Thread -> Files \cup {0}]
    <3>1. \E f \in Files : file' = [file EXCEPT ![t] = f]
      BY <1>5 DEF Create, Fresh
    <3> QED BY <3>1 DEF TypeOK
  <2>3. UNCHANGED <<held, todo, history>>
    BY <1>5 DEF Create
  <2> QED BY <1>1, <1>2, <1>3, <2>1, <2>2, <2>3 DEF TypeOK
<1>6. CASE OpenFile(t) \/ Copy(t)
  BY <1>1, <1>2, <1>3, <1>6 DEF OpenFile, Copy, TypeOK
<1>7. CASE Finish(t)
  <2>1. atExit' \in [Process -> SUBSET Files]
    BY <1>0, <1>7, OwnFile DEF Finish, At, Extracting, TypeOK
  <2> QED BY <1>1, <1>2, <1>3, <1>7, <2>1 DEF Finish, TypeOK
<1> QED BY <1>4, <1>5, <1>6, <1>7

\* Those that let go of the file.
LEMMA LeaveTypes ==
  ASSUME LoadingAssumption, Typed, NEW t \in Thread, Abort(t) \/ Load(t)
  PROVE  Typed'
<1> USE DEF life, statics, linked, held, history, Typed
<1>0. ProcessOf[t] \in Process
  BY OwnFile
<1>1. /\ pc' = [pc EXCEPT ![t] = "linking"] /\ file' = [file EXCEPT ![t] = 0]
      /\ doomed' = [doomed EXCEPT ![t] = {}] /\ robbed' = robbed \ {file[t]}
      /\ UNCHANGED <<life, statics, todo, disk, suffix, atExit, claimed, failed>>
  BY DEF Abort, Load, At, Goes
<1>2. FileOK'
  BY <1>1 DEF TypeOK, FileOK, Extracting
<1>3. /\ pc' \in [Thread -> Waiting \cup Steps] /\ file' \in [Thread -> Files \cup {0}]
      /\ doomed' \in [Thread -> SUBSET Files] /\ robbed' \in SUBSET Files
  BY <1>1 DEF Steps, TypeOK
<1>4. CASE Abort(t)
  <2>1. leaked' \in [Process -> SUBSET Files]
    BY <1>0, <1>4, OwnFile DEF Abort, Extracting, TypeOK
  <2> QED BY <1>1, <1>2, <1>3, <1>4, <2>1 DEF Abort, TypeOK
<1>5. CASE Load(t)
  <2>1. file[t] \in Files
    BY <1>5, OwnFile DEF Load, At, Extracting
  <2>2. mapped' \in [Process -> SUBSET Files]
    <3>1. mapped' \in {mapped, [mapped EXCEPT ![ProcessOf[t]] = @ \cup {file[t]}]}
      BY <1>5 DEF Load
    <3>2. mapped[ProcessOf[t]] \cup {file[t]} \in SUBSET Files
      BY <1>0, <2>1 DEF TypeOK
    <3> QED BY <1>0, <3>1, <3>2 DEF TypeOK
  <2>3. image' \in [Process -> Files \cup {0}]
    <3>1. image' \in {image, [image EXCEPT ![ProcessOf[t]] = IF @ = 0 THEN file[t] ELSE @]}
      BY <1>5 DEF Load
    <3> QED BY <1>0, <2>1, <3>1 DEF TypeOK
  <2>4. poolThread' \in [Process -> Thread \cup {None}]
    BY <1>0, <1>5 DEF Load, TypeOK
  <2> QED BY <1>1, <1>2, <1>3, <1>5, <2>2, <2>3, <2>4 DEF Load, TypeOK
<1> QED BY <1>4, <1>5

LEMMA LifeTypes ==
  ASSUME LoadingAssumption, Typed, NEW p \in Process, Kill(p) \/ Exit(p) \/ Start(p)
  PROVE  Typed'
<1> USE DEF life, statics, linked, held, history, Typed
<1>1. CASE Start(p)
  <2>1. starts[p] \in Nat /\ MaxStarts[p] \in Nat
    BY StartsBound DEF TypeOK
  <2>2. starts' = [starts EXCEPT ![p] = starts[p] + 1] /\ starts[p] + 1 <= MaxStarts[p]
    BY <1>1, <2>1 DEF Start
  <2>3. starts' \in [Process -> Nat]
    <3>1. starts[p] + 1 \in Nat
      BY <2>1
    <3> QED BY <2>2, <3>1 DEF TypeOK
  <2>4. \A q \in Process : starts'[q] <= MaxStarts[q]
    BY <2>1, <2>2 DEF TypeOK
  <2>5. FileOK'
    BY <1>1 DEF Start, FileOK
  <2> QED BY <1>1, <2>3, <2>4, <2>5 DEF Start, TypeOK
<1>2. CASE Kill(p) \/ Exit(p)
  <2>1. Ends(p)
    BY <1>2 DEF Kill, Exit
  <2>2. disk' \in [Files -> Contents]
    BY <1>2 DEF Kill, Exit, TypeOK, Contents
  <2>3. FileOK'
    BY <2>1 DEF Ends, TypeOK, FileOK, Extracting
  <2>4. /\ pc' \in [Thread -> Waiting \cup Steps] /\ file' \in [Thread -> Files \cup {0}]
        /\ todo' \in [Thread -> SUBSET Files] /\ doomed' \in [Thread -> SUBSET Files]
    BY <2>1 DEF Ends, Waiting, TypeOK
  <2>5. /\ robbed' \in SUBSET Files /\ atExit' \in [Process -> SUBSET Files]
        /\ leaked' \in [Process -> SUBSET Files] /\ mapped' \in [Process -> SUBSET Files]
        /\ claimed' \in [Process -> SUBSET Thread] /\ failed' \in [Process -> BOOLEAN]
    BY <2>1 DEF Ends, TypeOK
  <2> QED BY <2>1, <2>2, <2>3, <2>4, <2>5 DEF Ends, TypeOK
<1> QED BY <1>1, <1>2

LEMMA TypeStep == ASSUME LoadingAssumption, Typed, [Next]_vars PROVE Typed'
<1>1. CASE Next
  BY <1>1, StaticsTypes, ExtractTypes, LeaveTypes, LifeTypes DEF Next, Step
<1>2. CASE UNCHANGED vars
  BY <1>2 DEF vars, life, statics, linked, held, history, TypeOK, FileOK, Typed
<1> QED BY <1>1, <1>2

LEMMA TypedHolds == ASSUME LoadingAssumption PROVE Spec => []Typed
<1>1. Init => Typed
  BY InitTypes DEF Init, Typed, FileOK, Extracting
<1>2. Typed /\ [Next]_vars => Typed'
  BY TypeStep
<1> QED BY <1>1, <1>2, PTL DEF Spec

\* Every reachable state is well typed: in particular starts stay in their bound,
\* every extracted file has a suffix of some platform, and only a thread that has
\* one registers, leaks or loads a file.
THEOREM TypeCorrect == ASSUME LoadingAssumption PROVE Spec => []TypeOK
BY TypedHolds, PTL DEF Typed

-----------------------------------------------------------------------------
(* The main thread and its pool.  A thread past the test of loaded has     *)
(* claimed the library; only those name the main thread, or make its pool. *)

Started == {"listing", "sweeping", "created", "copying", "extracted", "linking",
            "naming", "publishing"}

MainInv ==
  /\ \A t \in Thread : pc[t] \in Started => t \in claimed[ProcessOf[t]]
  /\ \A t \in Thread : pc[t] \in {"naming", "publishing"} => image[ProcessOf[t]] # 0
  /\ \A p \in Process :
       /\ IsFiniteSet(claimed[p])
       /\ mainThread[p] \in claimed[p] \cup {None}
       /\ poolThread[p] \in claimed[p] \cup {None}
       /\ mainThread[p] # None => image[p] # 0
       /\ image[p] # 0 => poolThread[p] # None

LEMMA MainInit == ASSUME Init PROVE MainInv
<1>1. \A p \in Process : /\ claimed[p] = {} /\ mainThread[p] = None /\ poolThread[p] = None
                         /\ image[p] = 0
  BY DEF Init
<1>2. \A t \in Thread : pc[t] = "idle"
  BY DEF Init
<1> QED BY <1>1, <1>2, FS_EmptySet DEF MainInv, Started

\* The steps between the test and initJni that write only files.
Extracts(t) ==
  /\ pc[t] \in Started
  /\ \E to \in Started \ {"naming", "publishing"} : pc' = [pc EXCEPT ![t] = to]
  /\ UNCHANGED <<statics, linked, claimed, failed>>

LEMMA StepKinds ==
  ASSUME NEW t \in Thread, Step(t) \/ Abort(t)
  PROVE  \/ Extracts(t) \/ Test(t) \/ Claim(t) \/ Load(t)
         \/ LinkNatives(t) \/ LinkFails(t) \/ Name(t) \/ Publish(t)
<1> USE DEF At, Goes, history, Extracts, Started
<1>1. CASE List(t) \/ Sweep(t) \/ Create(t)
  BY <1>1 DEF List, Sweep, Create
<1>2. CASE OpenFile(t) \/ Copy(t) \/ Finish(t) \/ Abort(t)
  BY <1>2 DEF OpenFile, Copy, Finish, Abort
<1> QED BY <1>1, <1>2 DEF Step

\* A move of one thread's program counter, seen from every thread.
LEMMA PcMoves ==
  ASSUME Typed, NEW t \in Thread, NEW to, pc' = [pc EXCEPT ![t] = to]
  PROVE  pc'[t] = to /\ \A u \in Thread : u # t => pc'[u] = pc[u]
BY DEF Typed, TypeOK

LEMMA MainStep ==
  ASSUME LoadingAssumption, Typed, MainInv, [Next]_vars
  PROVE  MainInv'
<1> USE DEF life, statics, linked, held, history
<1>1. ASSUME NEW t \in Thread, Step(t) \/ Abort(t) PROVE MainInv'
  <2> DEFINE p == ProcessOf[t]
  <2>0. p \in Process
    BY OwnFile
  <2>1. CASE Extracts(t)
    BY <2>1, PcMoves DEF Extracts, MainInv
  <2>2. CASE Test(t)
    <3>1. \E to \in {"returned", "claiming"} : pc' = [pc EXCEPT ![t] = to]
      BY <2>2 DEF Test, Goes
    <3> QED BY <2>2, <3>1, PcMoves DEF Test, Started, MainInv
  <2>3. CASE Claim(t)
    <3>1. \E to \in {"linking", "listing"} : pc' = [pc EXCEPT ![t] = to]
      BY <2>3 DEF Claim, At, Goes
    <3>2. claimed' = [claimed EXCEPT ![p] = claimed[p] \cup {t}]
      BY <2>3 DEF Claim
    <3>3. /\ claimed'[p] = claimed[p] \cup {t}
          /\ \A q \in Process : q # p => claimed'[q] = claimed[q]
      BY <2>0, <3>2 DEF Typed, TypeOK
    <3>4. \A q \in Process : IsFiniteSet(claimed'[q])
      <4>1. IsFiniteSet(claimed[p] \cup {t})
        BY <2>0, FS_AddElement DEF MainInv
      <4> QED BY <3>3, <4>1 DEF MainInv
    <3>5. \A u \in Thread : pc'[u] \in Started => u \in claimed'[ProcessOf[u]]
      <4>1. \A u \in Thread : ProcessOf[u] \in Process
        BY OwnFile
      <4> QED BY <2>0, <3>1, <3>3, <4>1, PcMoves DEF MainInv
    <3>6. UNCHANGED <<mainThread, poolThread, image>>
      BY <2>3 DEF Claim
    <3>7. \A u \in Thread : pc'[u] \in {"naming", "publishing"} => image'[ProcessOf[u]] # 0
      BY <3>1, <3>6, PcMoves DEF MainInv
    <3> QED BY <3>3, <3>4, <3>5, <3>6, <3>7 DEF MainInv
  <2>4. CASE Load(t)
    <3>1. pc' = [pc EXCEPT ![t] = "linking"] /\ pc[t] = "extracted" /\ UNCHANGED <<claimed, mainThread>>
      BY <2>4 DEF Load, At, Goes
    <3>2. t \in claimed[p]
      BY <3>1 DEF MainInv, Started
    <3>3. file[t] \in Files /\ file[t] # 0
      BY <3>1, OwnFile DEF Extracting
    <3>4. \/ UNCHANGED <<image, poolThread>>
          \/ /\ image' = [image EXCEPT ![p] = IF image[p] = 0 THEN file[t] ELSE image[p]]
             /\ poolThread' = [poolThread EXCEPT ![p] = IF image[p] = 0 THEN t ELSE poolThread[p]]
      BY <2>4 DEF Load
    <3>5. CASE UNCHANGED <<image, poolThread>>
      BY <3>1, <3>5, PcMoves DEF MainInv, Started
    <3>6. CASE /\ image' = [image EXCEPT ![p] = IF image[p] = 0 THEN file[t] ELSE image[p]]
               /\ poolThread' = [poolThread EXCEPT ![p] = IF image[p] = 0 THEN t ELSE poolThread[p]]
      <4>1. /\ image'[p] = IF image[p] = 0 THEN file[t] ELSE image[p]
            /\ poolThread'[p] = IF image[p] = 0 THEN t ELSE poolThread[p]
            /\ \A q \in Process : q # p => image'[q] = image[q] /\ poolThread'[q] = poolThread[q]
        BY <2>0, <3>6 DEF Typed, TypeOK
      <4>2. t # None
        BY DEF LoadingAssumption
      <4>3. \A u \in Thread : ProcessOf[u] \in Process
        BY OwnFile
      <4>4. \A u \in Thread : /\ pc'[u] \in {"naming", "publishing"} => image'[ProcessOf[u]] # 0
                              /\ pc'[u] \in Started => u \in claimed'[ProcessOf[u]]
        BY <3>1, <3>2, <3>3, <4>1, <4>3, PcMoves DEF MainInv
      <4> QED BY <3>1, <3>2, <3>3, <4>1, <4>2, <4>4 DEF MainInv
    <3> QED BY <3>4, <3>5, <3>6
  <2>5. CASE LinkNatives(t)
    <3>1. /\ pc' = [pc EXCEPT ![t] = "naming"] /\ pc[t] = "linking" /\ image[p] # 0
          /\ UNCHANGED <<statics, linked, claimed>>
      BY <2>5 DEF LinkNatives, At, Goes
    <3> QED BY <3>1, PcMoves DEF MainInv, Started
  <2>6. CASE LinkFails(t)
    <3>1. pc' = [pc EXCEPT ![t] = "threw"] /\ UNCHANGED <<statics, linked, claimed>>
      BY <2>6 DEF LinkFails, At, Goes
    <3> QED BY <3>1, PcMoves DEF MainInv, Started
  <2>7. CASE Name(t)
    <3>1. /\ pc' = [pc EXCEPT ![t] = "publishing"] /\ pc[t] = "naming"
          /\ mainThread' = [mainThread EXCEPT ![p] = t] /\ UNCHANGED <<linked, claimed>>
      BY <2>7 DEF Name, At, Goes
    <3>2. t \in claimed[p] /\ image[p] # 0
      BY <3>1 DEF MainInv, Started
    <3>3. mainThread'[p] = t /\ \A q \in Process : q # p => mainThread'[q] = mainThread[q]
      BY <2>0, <3>1 DEF Typed, TypeOK
    <3> QED BY <3>1, <3>2, <3>3, PcMoves DEF MainInv, Started
  <2>8. CASE Publish(t)
    <3>1. /\ pc' = [pc EXCEPT ![t] = "returned"]
          /\ UNCHANGED <<mainThread, linked, claimed>>
      BY <2>8 DEF Publish, At, Goes
    <3> QED BY <3>1, PcMoves DEF MainInv, Started
  <2> QED BY <1>1, <2>1, <2>2, <2>3, <2>4, <2>5, <2>6, <2>7, <2>8, StepKinds
<1>2. ASSUME NEW p \in Process, Kill(p) \/ Exit(p) PROVE MainInv'
  <2>1. Ends(p)
    BY <1>2 DEF Kill, Exit
  <2>2. \A u \in Thread : ProcessOf[u] \in Process
    BY OwnFile
  <2>3. \A u \in Thread : pc'[u] = IF ProcessOf[u] = p THEN "idle" ELSE pc[u]
    BY <2>1 DEF Ends, Peers
  <2>4. /\ claimed'[p] = {} /\ mainThread'[p] = None /\ poolThread'[p] = None /\ image'[p] = 0
        /\ \A q \in Process : q # p => /\ claimed'[q] = claimed[q] /\ image'[q] = image[q]
                                       /\ mainThread'[q] = mainThread[q]
                                       /\ poolThread'[q] = poolThread[q]
    BY <2>1 DEF Ends, Typed, TypeOK
  <2>5. \A q \in Process : IsFiniteSet(claimed'[q])
    BY <2>4, FS_EmptySet DEF MainInv
  <2> QED BY <2>2, <2>3, <2>4, <2>5 DEF MainInv, Started
<1>3. ASSUME NEW p \in Process, Start(p) PROVE MainInv'
  BY <1>3 DEF Start, MainInv
<1>4. CASE UNCHANGED vars
  BY <1>4 DEF vars, MainInv
<1> QED BY <1>1, <1>2, <1>3, <1>4 DEF Next

\* Two claims are more than one.
LEMMA TwoClaims ==
  ASSUME NEW S, IsFiniteSet(S), NEW x \in S, NEW y \in S, x # y
  PROVE  Cardinality(S) > 1
<1>1. Cardinality(S) \in Nat
  BY FS_CardinalityType
<1>2. Cardinality(S) # 0
  BY FS_EmptySet
<1>3. Cardinality(S) # 1
  BY FS_Singleton
<1> QED BY <1>1, <1>2, <1>3

\* In every process, however often started and with however many threads in init,
\* the main thread has the main pool unless two threads got past the test.
THEOREM MainThread == ASSUME LoadingAssumption PROVE Spec => []MainThreadHasPool
<1>1. Init => MainInv
  BY MainInit
<1>2. Typed /\ MainInv /\ [Next]_vars => MainInv'
  BY MainStep
<1>3. MainInv => MainThreadHasPool
  BY TwoClaims DEF MainInv, MainThreadHasPool
<1> QED BY <1>1, <1>2, <1>3, TypedHolds, PTL DEF Spec

-----------------------------------------------------------------------------
(* What init has done when it returns.  While the library is claimed and   *)
(* neither available nor given up, some thread is still on its way.        *)

ReadyInv ==
  /\ \A t \in Thread : pc[t] \in Started \cup {"returned"} => loaded[ProcessOf[t]]
  /\ \A p \in Process :
       loaded[p] /\ ~available[p] /\ ~failed[p] => \E u \in Peers(p) : pc[u] \in Started

LEMMA ReadyStep ==
  ASSUME LoadingAssumption, Typed, ReadyInv, [Next]_vars
  PROVE  ReadyInv'
<1> USE DEF life, statics, linked, held, history
<1>1. ASSUME NEW t \in Thread, Step(t) \/ Abort(t) PROVE ReadyInv'
  <2> DEFINE p == ProcessOf[t]
  <2>0. p \in Process /\ \A u \in Thread : ProcessOf[u] \in Process
    BY OwnFile
  <2>a. ASSUME pc[t] \in Started, NEW to \in Started, pc' = [pc EXCEPT ![t] = to],
               UNCHANGED <<loaded, available, failed>>
        PROVE  ReadyInv'
    BY <2>a, PcMoves DEF ReadyInv, Peers
  <2>b. ASSUME pc[t] \notin Started, NEW to, pc' = [pc EXCEPT ![t] = to], to \notin Started,
               to = "returned" => loaded[p], UNCHANGED <<loaded, available, failed>>
        PROVE  ReadyInv'
    BY <2>b, PcMoves DEF ReadyInv, Peers
  <2>1. CASE Extracts(t)
    BY <2>1, <2>a DEF Extracts
  <2>2. CASE Test(t)
    <3>1. PICK seen \in Reads(t) : pc' = [pc EXCEPT ![t] = IF seen THEN "returned" ELSE "claiming"]
      BY <2>2 DEF Test, Goes
    <3>2. seen => loaded[p]
      BY <3>1 DEF Reads
    <3>3. pc[t] \notin Started /\ UNCHANGED <<loaded, available, failed>>
      BY <2>2 DEF Test, Waiting, Started
    <3>4. "returned" \notin Started /\ "claiming" \notin Started
      BY DEF Started
    <3> QED BY <3>1, <3>2, <3>3, <3>4, <2>b
  <2>3. CASE Claim(t)
    <3>1. PICK to \in {"linking", "listing"} : pc' = [pc EXCEPT ![t] = to]
      BY <2>3 DEF Claim, At, Goes
    <3>2. loaded' = [loaded EXCEPT ![p] = TRUE] /\ UNCHANGED <<available, failed>>
      BY <2>3 DEF Claim
    <3>3. pc'[t] \in Started /\ pc[t] = "claiming" /\ t \in Peers(p)
      BY <2>3, <3>1, PcMoves DEF Claim, At, Started, Peers
    <3>4. loaded'[p] /\ \A q \in Process : q # p => loaded'[q] = loaded[q]
      BY <2>0, <3>2 DEF Typed, TypeOK
    <3>5. \A u \in Thread : pc'[u] \in Started \cup {"returned"} => loaded'[ProcessOf[u]]
      BY <2>0, <3>1, <3>4, PcMoves DEF ReadyInv
    <3>6. \A q \in Process : q # p /\ loaded'[q] /\ ~available'[q] /\ ~failed'[q]
                                => \E u \in Peers(q) : pc'[u] \in Started
      BY <3>1, <3>2, <3>4, PcMoves DEF ReadyInv, Peers
    <3> QED BY <3>3, <3>5, <3>6 DEF ReadyInv, Peers
  <2>4. CASE Load(t) \/ LinkNatives(t) \/ Name(t)
    <3>1. /\ \E to \in {"linking", "naming", "publishing"} : pc' = [pc EXCEPT ![t] = to]
          /\ pc[t] \in {"extracted", "linking", "naming"} /\ UNCHANGED <<loaded, available, failed>>
      BY <2>4 DEF Load, LinkNatives, Name, At, Goes
    <3> QED BY <3>1, <2>a DEF Started
  <2>5. CASE LinkFails(t)
    <3>1. /\ pc' = [pc EXCEPT ![t] = "threw"] /\ UNCHANGED <<loaded, available>>
          /\ failed' = [failed EXCEPT ![p] = TRUE]
      BY <2>5 DEF LinkFails, At, Goes
    <3>2. failed'[p] /\ \A q \in Process : q # p => failed'[q] = failed[q]
      BY <2>0, <3>1 DEF Typed, TypeOK
    <3> QED BY <2>0, <3>1, <3>2, PcMoves DEF ReadyInv, Started, Peers
  <2>6. CASE Publish(t)
    <3>1. /\ pc' = [pc EXCEPT ![t] = "returned"] /\ pc[t] = "publishing"
          /\ UNCHANGED <<loaded, failed>> /\ available' = [available EXCEPT ![p] = TRUE]
      BY <2>6 DEF Publish, At, Goes
    <3>2. available'[p] /\ \A q \in Process : q # p => available'[q] = available[q]
      BY <2>0, <3>1 DEF Typed, TypeOK
    <3>3. loaded[p]
      BY <3>1 DEF ReadyInv, Started
    <3> QED BY <2>0, <3>1, <3>2, <3>3, PcMoves DEF ReadyInv, Started, Peers
  <2> QED BY <1>1, <2>1, <2>2, <2>3, <2>4, <2>5, <2>6, StepKinds
<1>2. ASSUME NEW p \in Process, Kill(p) \/ Exit(p) PROVE ReadyInv'
  <2>1. Ends(p)
    BY <1>2 DEF Kill, Exit
  <2>2. \A u \in Thread : ProcessOf[u] \in Process
    BY OwnFile
  <2>3. \A u \in Thread : pc'[u] = IF ProcessOf[u] = p THEN "idle" ELSE pc[u]
    BY <2>1 DEF Ends, Peers
  <2>4. /\ ~loaded'[p]
        /\ \A q \in Process : q # p => /\ loaded'[q] = loaded[q] /\ failed'[q] = failed[q]
                                       /\ available'[q] = available[q]
    BY <2>1 DEF Ends, Typed, TypeOK
  <2> QED BY <2>2, <2>3, <2>4 DEF ReadyInv, Started, Peers
<1>3. ASSUME NEW p \in Process, Start(p) PROVE ReadyInv'
  BY <1>3 DEF Start, ReadyInv, Peers
<1>4. CASE UNCHANGED vars
  BY <1>4 DEF vars, ReadyInv, Peers
<1> QED BY <1>1, <1>2, <1>3, <1>4 DEF Next

\* An init that has returned leaves the natives ready, unless an earlier one threw
\* or another thread is still in it, for any number of threads and processes.
THEOREM ReturnsReady == ASSUME LoadingAssumption PROVE Spec => []InitReturnsReady
<1>1. Init => ReadyInv
  BY DEF Init, ReadyInv, Started
<1>2. Typed /\ ReadyInv /\ [Next]_vars => ReadyInv'
  BY ReadyStep
<1>3. Typed /\ ReadyInv => InitReturnsReady
  BY OwnFile DEF ReadyInv, InitReturnsReady, Started, Steps
<1> QED BY <1>1, <1>2, <1>3, TypedHolds, PTL DEF Spec

-----------------------------------------------------------------------------
(* The temporary directory.  No two threads extract to one file, and what  *)
(* a process may delete at its exit is the file of no other process.       *)

OwnInv ==
  \A t \in Thread : file[t] # 0 =>
    /\ suffix[file[t]] # ""
    /\ \A u \in Thread : u # t => file[u] # file[t]

HookInv ==
  \A p \in Process : \A f \in atExit[p] :
    /\ suffix[f] # ""
    /\ \A t \in Thread : ProcessOf[t] # p => file[t] # f

CopyInv ==
  \A t \in Thread :
    /\ pc[t] \in {"copying", "extracted"} /\ disk[file[t]] = "absent" => file[t] \in robbed
    /\ pc[t] = "extracted" => disk[file[t]] \in {"absent", "whole"}

DirInv == OwnInv /\ HookInv /\ CopyInv

\* Steps that write no file, keep the threads' files and are not in an extraction.
LEMMA DirQuiet ==
  ASSUME Typed, DirInv, NEW t \in Thread, NEW to, pc' = [pc EXCEPT ![t] = to],
         to \notin {"copying", "extracted"},
         UNCHANGED <<file, suffix, atExit, disk, robbed>>
  PROVE  DirInv'
<1>1. OwnInv'
  BY DEF DirInv, OwnInv
<1>2. HookInv'
  BY DEF DirInv, HookInv
<1>3. CopyInv'
  BY PcMoves DEF DirInv, CopyInv
<1> QED BY <1>1, <1>2, <1>3 DEF DirInv

LEMMA DirSame ==
  ASSUME DirInv, UNCHANGED <<pc, file, suffix, atExit, disk, robbed>>
  PROVE  DirInv'
<1>1. OwnInv'
  BY DEF DirInv, OwnInv
<1>2. HookInv'
  BY DEF DirInv, HookInv
<1>3. CopyInv'
  BY DEF DirInv, CopyInv
<1> QED BY <1>1, <1>2, <1>3 DEF DirInv

LEMMA SweepDir ==
  ASSUME LoadingAssumption, Typed, DirInv, NEW t \in Thread, Sweep(t)
  PROVE  DirInv'
<1>1. PICK f \in todo[t] :
        \/ /\ disk' = [disk EXCEPT ![f] = "absent"]
           /\ robbed' = IF f \in {file[u] : u \in Thread \ {t}} THEN robbed \cup {f} ELSE robbed
        \/ disk' = disk /\ robbed' = robbed
  <2>1. PICK f \in todo[t] : \E deleted \in Deletable(f) :
          /\ disk' = IF deleted THEN [disk EXCEPT ![f] = "absent"] ELSE disk
          /\ robbed' = IF deleted /\ f \in {file[u] : u \in Thread \ {t}}
                       THEN robbed \cup {f} ELSE robbed
    BY DEF Sweep
  <2> QED BY <2>1
<1>2. /\ pc[t] = "sweeping" /\ pc' = [pc EXCEPT ![t] = "sweeping"]
      /\ UNCHANGED <<file, suffix, atExit>>
  BY DEF Sweep, At, Goes, held
<1>3. f \in Files /\ f # 0 /\ file[t] = 0
  <2>1. f \in Files
    BY DEF Typed, TypeOK
  <2>2. file[t] = 0
    BY <1>2 DEF Typed, FileOK, Extracting
  <2> QED BY <2>1, <2>2, OwnFile
<1>4. \A u \in Thread : pc'[u] = pc[u]
  BY <1>2, PcMoves
<1>5. \A g : g \in robbed => g \in robbed'
  BY <1>1
<1>6. \A g \in Files : disk'[g] # disk[g] => g = f /\ disk'[g] = "absent"
  BY <1>1, <1>3 DEF Typed, TypeOK
<1>7. \A u \in Thread : file[u] = f /\ disk'[f] # disk[f] => f \in robbed'
  BY <1>1, <1>3
<1>8. CopyInv'
  <2> SUFFICES ASSUME NEW u \in Thread, pc[u] \in {"copying", "extracted"}
               PROVE  /\ disk'[file[u]] = "absent" => file[u] \in robbed'
                      /\ pc[u] = "extracted" => disk'[file[u]] \in {"absent", "whole"}
    BY <1>2, <1>4 DEF CopyInv
  <2>1. file[u] \in Files
    BY OwnFile DEF Extracting
  <2> QED BY <1>5, <1>6, <1>7, <2>1 DEF DirInv, CopyInv
<1>9. OwnInv' /\ HookInv'
  BY <1>2 DEF DirInv, OwnInv, HookInv
<1> QED BY <1>8, <1>9 DEF DirInv

LEMMA CreateDir ==
  ASSUME LoadingAssumption, Typed, DirInv, NEW t \in Thread, Create(t)
  PROVE  DirInv'
<1>1. PICK f \in Files : /\ suffix[f] = "" /\ file' = [file EXCEPT ![t] = f]
                         /\ disk' = [disk EXCEPT ![f] = "empty"]
                         /\ suffix' = [suffix EXCEPT ![f] = Chosen(machine)]
  BY DEF Create, Fresh
<1>2. pc' = [pc EXCEPT ![t] = "created"] /\ UNCHANGED <<atExit, robbed>>
  BY DEF Create, At, Goes, held, history
<1>3. /\ file'[t] = f /\ \A u \in Thread : u # t => file'[u] = file[u]
      /\ \A g \in Files : g # f => disk'[g] = disk[g] /\ suffix'[g] = suffix[g]
      /\ suffix'[f] # ""
  BY <1>1, ChosenSuffix DEF Typed, TypeOK, Suffixes
<1>4. \A u \in Thread : u # t => file[u] # f
  BY <1>1, OwnFile DEF DirInv, OwnInv
<1>5. \A u \in Thread : file[u] # 0 => file[u] \in Files
  BY DEF Typed, TypeOK
<1>6. OwnInv'
  <2> SUFFICES ASSUME NEW u \in Thread, file'[u] # 0
               PROVE  /\ suffix'[file'[u]] # ""
                      /\ \A w \in Thread : w # u => file'[w] # file'[u]
    BY DEF OwnInv
  <2>1. CASE u = t
    BY <1>3, <1>4, <2>1
  <2>2. CASE u # t
    <3>1. file'[u] = file[u] /\ file[u] \in Files /\ file[u] # f
      BY <1>3, <1>4, <1>5, <2>2
    <3>2. suffix'[file[u]] # "" /\ \A w \in Thread : w # u => file[w] # file[u]
      BY <1>3, <3>1 DEF DirInv, OwnInv
    <3> QED BY <1>3, <3>1, <3>2
  <2> QED BY <2>1, <2>2
<1>7. HookInv'
  <2> SUFFICES ASSUME NEW p \in Process, NEW g \in atExit[p]
               PROVE  /\ suffix'[g] # ""
                      /\ \A u \in Thread : ProcessOf[u] # p => file'[u] # g
    BY <1>2 DEF HookInv
  <2>1. g \in Files
    BY DEF Typed, TypeOK
  <2>2. suffix[g] # "" /\ \A u \in Thread : ProcessOf[u] # p => file[u] # g
    BY DEF DirInv, HookInv
  <2>3. g # f
    BY <1>1, <2>2
  <2> QED BY <1>3, <2>1, <2>2, <2>3
<1>8. CopyInv'
  <2> SUFFICES ASSUME NEW u \in Thread, pc'[u] \in {"copying", "extracted"}
               PROVE  /\ disk'[file'[u]] = "absent" => file'[u] \in robbed'
                      /\ pc'[u] = "extracted" => disk'[file'[u]] \in {"absent", "whole"}
    BY DEF CopyInv
  <2>0. pc'[t] = "created" /\ \A w \in Thread : w # t => pc'[w] = pc[w]
    BY <1>2, PcMoves
  <2>1. u # t /\ pc'[u] = pc[u]
    BY <2>0
  <2>2. file[u] \in Files
    BY <2>1, OwnFile DEF Extracting
  <2>3. file'[u] = file[u] /\ disk'[file[u]] = disk[file[u]]
    BY <1>3, <1>4, <2>1, <2>2
  <2> QED BY <1>2, <2>1, <2>3 DEF DirInv, CopyInv
<1> QED BY <1>6, <1>7, <1>8 DEF DirInv

LEMMA CopyDir ==
  ASSUME LoadingAssumption, Typed, DirInv, NEW t \in Thread,
         OpenFile(t) \/ Copy(t) \/ Finish(t)
  PROVE  DirInv'
<1>0. ProcessOf[t] \in Process
  BY OwnFile
<1>1. pc[t] \in {"created", "copying"} /\ UNCHANGED <<file, suffix, robbed>>
  BY DEF OpenFile, Copy, Finish, At, history
<1>2. file[t] \in Files /\ file[t] # 0
  BY <1>1, OwnFile DEF Extracting
<1>3. \A u \in Thread : u # t => file[u] # file[t]
  BY <1>2 DEF DirInv, OwnInv
<1>4. OwnInv'
  BY <1>1 DEF DirInv, OwnInv
<1>5. HookInv'
  <2>1. \A p \in Process : \A f \in atExit'[p] :
          f \in atExit[p] \/ (f = file[t] /\ p = ProcessOf[t])
    <3>1. CASE Finish(t)
      BY <1>0, <3>1 DEF Finish, Typed, TypeOK
    <3>2. CASE ~Finish(t)
      BY <3>2 DEF OpenFile, Copy, held
    <3> QED BY <3>1, <3>2
  <2> QED BY <1>1, <1>2, <1>3, <2>1 DEF DirInv, HookInv, OwnInv
<1>6. PICK s \in {"empty", "part", "whole", "absent"}, to \in {"copying", "extracted"} :
        /\ disk' = [disk EXCEPT ![file[t]] = s] /\ pc' = [pc EXCEPT ![t] = to]
        /\ s = "absent" => pc[t] = "copying" /\ disk[file[t]] = "absent"
        /\ to = "extracted" => s \in {"absent", "whole"}
  <2>1. CASE OpenFile(t)
    BY <2>1 DEF OpenFile, At, Goes
  <2>2. CASE Copy(t)
    BY <2>2 DEF Copy, Write, At, Goes
  <2>3. CASE Finish(t)
    BY <2>3 DEF Finish, Write, At, Goes
  <2> QED BY <2>1, <2>2, <2>3
<1>7. /\ disk'[file[t]] = s /\ \A g \in Files : g # file[t] => disk'[g] = disk[g]
      /\ pc'[t] = to /\ \A u \in Thread : u # t => pc'[u] = pc[u]
  <2>1. disk' = [disk EXCEPT ![file[t]] = s] /\ disk \in [Files -> Contents]
    BY <1>6 DEF Typed, TypeOK
  <2> QED BY <1>2, <1>6, <2>1, PcMoves
<1>8. CopyInv'
  <2> SUFFICES ASSUME NEW u \in Thread, pc'[u] \in {"copying", "extracted"}
               PROVE  /\ disk'[file[u]] = "absent" => file[u] \in robbed
                      /\ pc'[u] = "extracted" => disk'[file[u]] \in {"absent", "whole"}
    BY <1>1 DEF CopyInv
  <2>1. CASE u = t
    BY <1>6, <1>7, <2>1 DEF DirInv, CopyInv
  <2>2. CASE u # t
    <3>1. file[u] \in Files
      BY <1>7, <2>2, OwnFile DEF Extracting
    <3> QED BY <1>3, <1>7, <2>2, <3>1 DEF DirInv, CopyInv
  <2> QED BY <2>1, <2>2
<1> QED BY <1>4, <1>5, <1>8 DEF DirInv

LEMMA LeaveDir ==
  ASSUME LoadingAssumption, Typed, DirInv, NEW t \in Thread, Abort(t) \/ Load(t)
  PROVE  DirInv'
<1>1. /\ pc' = [pc EXCEPT ![t] = "linking"] /\ file' = [file EXCEPT ![t] = 0]
      /\ robbed' = robbed \ {file[t]} /\ UNCHANGED <<disk, suffix, atExit>>
  BY DEF Abort, Load, At, Goes, held
<1>2. file'[t] = 0 /\ \A u \in Thread : u # t => file'[u] = file[u]
  BY <1>1 DEF Typed, TypeOK
<1>3. OwnInv'
  BY <1>1, <1>2 DEF DirInv, OwnInv
<1>4. HookInv'
  <2> SUFFICES ASSUME NEW p \in Process, NEW g \in atExit[p]
               PROVE  /\ suffix[g] # ""
                      /\ \A u \in Thread : ProcessOf[u] # p => file'[u] # g
    BY <1>1 DEF HookInv
  <2>1. g # 0
    <3>1. g \in Files
      BY DEF Typed, TypeOK
    <3> QED BY <3>1 DEF Files
  <2>2. suffix[g] # "" /\ \A u \in Thread : ProcessOf[u] # p => file[u] # g
    BY DEF DirInv, HookInv
  <2> QED BY <1>2, <2>1, <2>2
<1>5. CopyInv'
  <2>1. \A u \in Thread : pc[u] \in {"copying", "extracted"} => file[u] \in Files /\ file[u] # 0
    BY OwnFile DEF Extracting
  <2>2. \A u \in Thread : u # t /\ pc[u] \in {"copying", "extracted"} => file[u] # file[t]
    BY <2>1 DEF DirInv, OwnInv
  <2> SUFFICES ASSUME NEW u \in Thread, pc'[u] \in {"copying", "extracted"}
               PROVE  /\ disk[file'[u]] = "absent" => file'[u] \in robbed'
                      /\ pc'[u] = "extracted" => disk[file'[u]] \in {"absent", "whole"}
    BY <1>1 DEF CopyInv
  <2>0. pc'[t] = "linking" /\ \A w \in Thread : w # t => pc'[w] = pc[w]
    BY <1>1, PcMoves
  <2>3. u # t /\ pc'[u] = pc[u]
    BY <2>0
  <2>4. file'[u] = file[u] /\ file[u] # file[t]
    BY <1>2, <2>2, <2>3
  <2> QED BY <1>1, <2>3, <2>4 DEF DirInv, CopyInv
<1> QED BY <1>3, <1>4, <1>5 DEF DirInv

LEMMA EndDir ==
  ASSUME LoadingAssumption, Typed, DirInv, NEW p \in Process, Kill(p) \/ Exit(p)
  PROVE  DirInv'
<1>1. Ends(p)
  BY DEF Kill, Exit
<1>2. \A f \in Files : disk'[f] = disk[f] \/ (f \in atExit[p] /\ disk'[f] = "absent")
  BY DEF Kill, Exit
<1>3. /\ atExit'[p] = {} /\ \A q \in Process : q # p => atExit'[q] = atExit[q]
      /\ suffix' = suffix /\ robbed' = robbed \ {file[t] : t \in Peers(p)}
  BY <1>1 DEF Ends, Typed, TypeOK
<1>4. \A t \in Thread : /\ file'[t] = IF ProcessOf[t] = p THEN 0 ELSE file[t]
                        /\ pc'[t] = IF ProcessOf[t] = p THEN "idle" ELSE pc[t]
  BY <1>1 DEF Ends, Peers
<1>5. OwnInv'
  BY <1>3, <1>4 DEF DirInv, OwnInv
<1>6. HookInv'
  <2> SUFFICES ASSUME NEW q \in Process, q # p, NEW g \in atExit[q]
               PROVE  /\ suffix[g] # ""
                      /\ \A u \in Thread : ProcessOf[u] # q => file'[u] # g
    BY <1>3 DEF HookInv
  <2>1. g # 0
    <3>1. g \in Files
      BY DEF Typed, TypeOK
    <3> QED BY <3>1 DEF Files
  <2>2. suffix[g] # "" /\ \A u \in Thread : ProcessOf[u] # q => file[u] # g
    BY DEF DirInv, HookInv
  <2> QED BY <1>4, <2>1, <2>2
<1>7. CopyInv'
  <2> SUFFICES ASSUME NEW t \in Thread, ProcessOf[t] # p, pc[t] \in {"copying", "extracted"}
               PROVE  /\ disk'[file[t]] = "absent" => file[t] \in robbed'
                      /\ pc[t] = "extracted" => disk'[file[t]] \in {"absent", "whole"}
    BY <1>4 DEF CopyInv
  <2>1. file[t] \in Files /\ file[t] # 0
    BY OwnFile DEF Extracting
  <2>2. file[t] \notin atExit[p]
    BY DEF DirInv, HookInv
  <2>3. disk'[file[t]] = disk[file[t]]
    BY <1>2, <2>1, <2>2
  <2>4. file[t] \notin {file[u] : u \in Peers(p)}
    BY <2>1 DEF DirInv, OwnInv, Peers
  <2> QED BY <1>3, <2>3, <2>4 DEF DirInv, CopyInv
<1> QED BY <1>5, <1>6, <1>7 DEF DirInv

LEMMA DirStep ==
  ASSUME LoadingAssumption, Typed, DirInv, [Next]_vars
  PROVE  DirInv'
<1> USE DEF life, statics, linked, held, history
<1>1. ASSUME NEW t \in Thread, Step(t) \/ Abort(t) PROVE DirInv'
  <2>1. CASE \/ Test(t) \/ Claim(t) \/ List(t) \/ LinkNatives(t) \/ LinkFails(t)
             \/ Name(t) \/ Publish(t)
    <3>1. /\ \E to \in (Waiting \cup Steps) \ {"copying", "extracted"} : pc' = [pc EXCEPT ![t] = to]
          /\ UNCHANGED <<file, suffix, atExit, disk, robbed>>
      BY <2>1 DEF Test, Claim, List, LinkNatives, LinkFails, Name, Publish, At, Goes, Waiting, Steps
    <3> QED BY <3>1, DirQuiet
  <2> QED BY <1>1, <2>1, SweepDir, CreateDir, CopyDir, LeaveDir DEF Step
<1>2. ASSUME NEW p \in Process, Start(p) PROVE DirInv'
  BY <1>2, DirSame DEF Start
<1>3. CASE UNCHANGED vars
  BY <1>3, DirSame DEF vars
<1> QED BY <1>1, <1>2, <1>3, EndDir DEF Next

\* A copy is whole when it is loaded unless another's sweep has taken it, for any
\* number of processes, threads, files and crashes: no two extractions share a
\* file, and no orderly exit deletes another process's copy.
THEOREM CopyWhole == ASSUME LoadingAssumption PROVE Spec => []WholeUnlessRobbed
<1>1. Init => DirInv
  BY DEF Init, DirInv, OwnInv, HookInv, CopyInv
<1>2. Typed /\ DirInv /\ [Next]_vars => DirInv'
  BY DirStep
<1>3. DirInv => WholeUnlessRobbed
  BY DEF DirInv, CopyInv, WholeUnlessRobbed
<1> QED BY <1>1, <1>2, <1>3, TypedHolds, PTL DEF Spec

-----------------------------------------------------------------------------
(* The leftovers of ended processes.  Nothing takes up again a file that a *)
(* sweep has found dead, so that it can still be deleted.                  *)

HeldInv ==
  /\ \A p \in Process : mapped[p] \subseteq atExit[p]
  /\ \A p \in Process : ~alive[p] => atExit[p] = {} /\ leaked[p] = {}
  /\ \A t \in Thread : pc[t] = "extracted" => file[t] \in atExit[ProcessOf[t]]

StrayInv ==
  \A t \in Thread : \A f \in doomed[t] :
    /\ suffix[f] # ""
    /\ \A u \in Thread : file[u] # f
    /\ \A p \in Process : f \notin atExit[p] /\ f \notin leaked[p]

SweptInv ==
  \A t \in Thread :
    /\ pc[t] \notin Extracting \cup {"sweeping"} => doomed[t] = {}
    /\ \A f \in doomed[t] : disk[f] = "absent" \/ (pc[t] = "sweeping" /\ f \in todo[t])

LEMMA HeldStep ==
  ASSUME LoadingAssumption, Typed, HeldInv, [Next]_vars
  PROVE  HeldInv'
<1> USE DEF life, statics, linked, held, history
<1>0. \A u \in Thread : ProcessOf[u] \in Process
  BY OwnFile
<1>1. ASSUME NEW t \in Thread, Step(t) \/ Abort(t) PROVE HeldInv'
  <2> DEFINE p == ProcessOf[t]
  <2>1. alive[p] /\ alive' = alive
    BY <1>1 DEF Step, Test, Claim, List, Sweep, Create, OpenFile, Copy, Finish, Load, LinkNatives,
       LinkFails, Name, Publish, Abort, At
  <2>a. ASSUME NEW to, pc' = [pc EXCEPT ![t] = to], to # "extracted",
               UNCHANGED <<mapped, atExit, leaked>>,
               \A u \in Thread : u # t => file'[u] = file[u]
        PROVE  HeldInv'
    <3>1. pc'[t] # "extracted" /\ \A u \in Thread : u # t => pc'[u] = pc[u]
      BY <2>a, PcMoves
    <3>2. \A u \in Thread : pc'[u] = "extracted" => file'[u] \in atExit[ProcessOf[u]]
      BY <2>a, <3>1 DEF HeldInv
    <3> QED BY <2>1, <2>a, <3>2 DEF HeldInv
  <2>2. CASE \/ Test(t) \/ Claim(t) \/ List(t) \/ Sweep(t) \/ LinkNatives(t) \/ LinkFails(t)
             \/ Name(t) \/ Publish(t) \/ OpenFile(t) \/ Copy(t)
    <3>1. /\ \E to \in (Waiting \cup Steps) \ {"extracted"} : pc' = [pc EXCEPT ![t] = to]
          /\ UNCHANGED <<mapped, atExit, leaked, file>>
      BY <2>2 DEF Test, Claim, List, Sweep, LinkNatives, LinkFails, Name, Publish, OpenFile, Copy,
         At, Goes, Waiting, Steps
    <3> QED BY <3>1, <2>a
  <2>3. CASE Create(t)
    <3>1. pc' = [pc EXCEPT ![t] = "created"] /\ UNCHANGED <<mapped, atExit, leaked>>
      BY <2>3 DEF Create, At, Goes
    <3>2. \A u \in Thread : u # t => file'[u] = file[u]
      BY <2>3 DEF Create, Typed, TypeOK
    <3> QED BY <3>1, <3>2, <2>a
  <2>4. CASE Finish(t)
    <3>1. /\ pc' = [pc EXCEPT ![t] = "extracted"] /\ UNCHANGED <<mapped, leaked, file>>
          /\ atExit' = [atExit EXCEPT ![p] = atExit[p] \cup {file[t]}]
      BY <2>4 DEF Finish, At, Goes
    <3>2. /\ atExit'[p] = atExit[p] \cup {file[t]}
          /\ \A q \in Process : q # p => atExit'[q] = atExit[q]
      BY <1>0, <3>1 DEF Typed, TypeOK
    <3>3. \A q \in Process : mapped[q] \subseteq atExit'[q]
      BY <3>2 DEF HeldInv
    <3>4. \A u \in Thread : pc'[u] = "extracted" => file[u] \in atExit'[ProcessOf[u]]
      BY <1>0, <3>1, <3>2, PcMoves DEF HeldInv
    <3>5. \A q \in Process : ~alive[q] => atExit'[q] = {} /\ leaked[q] = {}
      BY <2>1, <3>2 DEF HeldInv
    <3> QED BY <2>1, <3>1, <3>3, <3>4, <3>5 DEF HeldInv
  <2>5. CASE Load(t)
    <3>1. /\ pc[t] = "extracted" /\ pc' = [pc EXCEPT ![t] = "linking"]
          /\ file' = [file EXCEPT ![t] = 0] /\ UNCHANGED <<atExit, leaked>>
      BY <2>5 DEF Load, At, Goes
    <3>2. mapped' \in {mapped, [mapped EXCEPT ![p] = mapped[p] \cup {file[t]}]}
      BY <2>5 DEF Load
    <3>3. file[t] \in atExit[p]
      BY <3>1 DEF HeldInv
    <3>4. \A q \in Process : mapped'[q] \subseteq atExit[q]
      <4>1. /\ mapped'[p] \in {mapped[p], mapped[p] \cup {file[t]}}
            /\ \A q \in Process : q # p => mapped'[q] = mapped[q]
        BY <1>0, <3>2 DEF Typed, TypeOK
      <4> QED BY <3>3, <4>1 DEF HeldInv
    <3>5. \A u \in Thread : pc'[u] = "extracted" => file'[u] \in atExit[ProcessOf[u]]
      <4>1. \A u \in Thread : u # t => file'[u] = file[u]
        BY <3>1 DEF Typed, TypeOK
      <4>2. pc'[t] = "linking" /\ \A u \in Thread : u # t => pc'[u] = pc[u]
        BY <3>1, PcMoves
      <4> QED BY <4>1, <4>2 DEF HeldInv
    <3> QED BY <2>1, <3>1, <3>4, <3>5 DEF HeldInv
  <2>6. CASE Abort(t)
    <3>1. /\ pc' = [pc EXCEPT ![t] = "linking"] /\ file' = [file EXCEPT ![t] = 0]
          /\ UNCHANGED <<atExit, mapped>>
      BY <2>6 DEF Abort, Goes
    <3>2. \A q \in Process : q # p => leaked'[q] = leaked[q]
      BY <2>6 DEF Abort, Typed, TypeOK
    <3>3. \A u \in Thread : pc'[u] = "extracted" => file'[u] \in atExit[ProcessOf[u]]
      <4>1. \A u \in Thread : u # t => file'[u] = file[u]
        BY <3>1 DEF Typed, TypeOK
      <4>2. pc'[t] = "linking" /\ \A u \in Thread : u # t => pc'[u] = pc[u]
        BY <3>1, PcMoves
      <4> QED BY <4>1, <4>2 DEF HeldInv
    <3> QED BY <2>1, <3>1, <3>2, <3>3 DEF HeldInv
  <2> QED BY <1>1, <2>2, <2>3, <2>4, <2>5, <2>6 DEF Step
<1>2. ASSUME NEW p \in Process, Kill(p) \/ Exit(p) PROVE HeldInv'
  <2>1. Ends(p)
    BY <1>2 DEF Kill, Exit
  <2>2. /\ atExit'[p] = {} /\ leaked'[p] = {} /\ mapped'[p] = {}
        /\ \A q \in Process : q # p => /\ atExit'[q] = atExit[q] /\ leaked'[q] = leaked[q]
                                       /\ mapped'[q] = mapped[q] /\ alive'[q] = alive[q]
    BY <2>1 DEF Ends, Typed, TypeOK
  <2>3. \A u \in Thread : pc'[u] = "extracted" =>
          ProcessOf[u] # p /\ pc[u] = "extracted" /\ file'[u] = file[u]
    BY <2>1 DEF Ends, Peers
  <2>4. \A u \in Thread : pc'[u] = "extracted" => file'[u] \in atExit'[ProcessOf[u]]
    BY <1>0, <2>2, <2>3 DEF HeldInv
  <2> QED BY <2>2, <2>4 DEF HeldInv
<1>3. ASSUME NEW p \in Process, Start(p) PROVE HeldInv'
  <2>1. /\ alive' = [alive EXCEPT ![p] = TRUE]
        /\ UNCHANGED <<atExit, leaked, mapped, pc, file>>
    BY <1>3 DEF Start
  <2>2. \A q \in Process : ~alive'[q] => ~alive[q]
    BY <2>1 DEF Typed, TypeOK
  <2> QED BY <2>1, <2>2 DEF HeldInv
<1>4. CASE UNCHANGED vars
  BY <1>4 DEF vars, HeldInv
<1> QED BY <1>1, <1>2, <1>3, <1>4 DEF Next

LEMMA StrayStep ==
  ASSUME LoadingAssumption, Typed, HeldInv, StrayInv, [Next]_vars
  PROVE  StrayInv'
<1> USE DEF life, statics, linked, held, history
<1>0. \A u \in Thread : ProcessOf[u] \in Process
  BY OwnFile
<1>1. ASSUME NEW t \in Thread, Step(t) \/ Abort(t) PROVE StrayInv'
  <2> DEFINE p == ProcessOf[t]
  <2>a. ASSUME \A u \in Thread : doomed'[u] \subseteq doomed[u],
               \A f \in Files : suffix[f] # "" => suffix'[f] # "",
               \A u \in Thread, f \in Files :
                 file'[u] = f => file[u] = f \/ suffix[f] = "",
               \A q \in Process : \A f \in atExit'[q] \cup leaked'[q] :
                 f \in atExit[q] \cup leaked[q] \/ f = file[t]
        PROVE  StrayInv'
    <3> SUFFICES ASSUME NEW u \in Thread, NEW f \in doomed'[u]
                 PROVE  /\ suffix'[f] # ""
                        /\ \A w \in Thread : file'[w] # f
                        /\ \A q \in Process : f \notin atExit'[q] /\ f \notin leaked'[q]
      BY DEF StrayInv
    <3>1. f \in doomed[u] /\ f \in Files
      BY <2>a DEF Typed, TypeOK
    <3>2. /\ suffix[f] # "" /\ \A w \in Thread : file[w] # f
          /\ \A q \in Process : f \notin atExit[q] /\ f \notin leaked[q]
      BY <3>1 DEF StrayInv
    <3> QED BY <2>a, <3>1, <3>2
  <2>1. CASE \/ Test(t) \/ Claim(t) \/ Sweep(t) \/ LinkNatives(t) \/ LinkFails(t)
             \/ Name(t) \/ Publish(t) \/ OpenFile(t) \/ Copy(t)
    <3>1. UNCHANGED <<doomed, suffix, file, atExit, leaked>>
      BY <2>1 DEF Test, Claim, Sweep, LinkNatives, LinkFails, Name, Publish, OpenFile, Copy
    <3> QED BY <3>1, <2>a
  <2>2. CASE Create(t)
    <3>1. PICK f \in Files : /\ suffix[f] = "" /\ file' = [file EXCEPT ![t] = f]
                             /\ suffix' = [suffix EXCEPT ![f] = Chosen(machine)]
      BY <2>2 DEF Create, Fresh
    <3>2. \A u \in Thread : file'[u] = IF u = t THEN f ELSE file[u]
      BY <3>1 DEF Typed, TypeOK
    <3>3. \A g \in Files : suffix[g] # "" => suffix'[g] # ""
      BY <3>1 DEF Typed, TypeOK
    <3>4. UNCHANGED <<doomed, atExit, leaked>>
      BY <2>2 DEF Create
    <3> QED BY <3>1, <3>2, <3>3, <3>4, <2>a
  <2>3. CASE Finish(t)
    <3>1. UNCHANGED <<doomed, suffix, file, leaked>>
      BY <2>3 DEF Finish
    <3>2. \A q \in Process : atExit'[q] \subseteq atExit[q] \cup {file[t]}
      BY <2>3 DEF Finish, Typed, TypeOK
    <3> QED BY <3>1, <3>2, <2>a
  <2>4. CASE Load(t) \/ Abort(t)
    <3>1. \A u \in Thread : doomed'[u] \subseteq doomed[u] /\ file'[u] \in {file[u], 0}
      BY <2>4 DEF Load, Abort, Typed, TypeOK
    <3>2. UNCHANGED <<suffix, atExit>>
      BY <2>4 DEF Load, Abort
    <3>3. \A q \in Process : leaked'[q] \subseteq leaked[q] \cup {file[t]}
      <4>1. CASE Load(t)
        BY <4>1 DEF Load
      <4>2. CASE Abort(t)
        <5>1. leaked' \in {leaked, [leaked EXCEPT ![p] = @ \cup {file[t]}]}
          BY <4>2 DEF Abort
        <5> QED BY <5>1 DEF Typed, TypeOK
      <4> QED BY <2>4, <4>1, <4>2
    <3>4. 0 \notin Files
      BY DEF Files
    <3> QED BY <3>1, <3>2, <3>3, <3>4, <2>a
  <2>5. CASE List(t)
    <3>1. /\ doomed' = [doomed EXCEPT ![t] = Dead]
          /\ UNCHANGED <<suffix, file, atExit, leaked>>
      BY <2>5 DEF List
    <3>2. \A f \in Dead : /\ suffix[f] # ""
                          /\ \A u \in Thread : file[u] # f
                          /\ \A q \in Process : f \notin atExit[q] /\ f \notin leaked[q]
      <4> SUFFICES ASSUME NEW f \in Dead, NEW u \in Thread, NEW q \in Process
                   PROVE  suffix[f] # "" /\ file[u] # f /\ f \notin atExit[q] /\ f \notin leaked[q]
        OBVIOUS
      <4>1. suffix[f] # "" /\ file[u] # f
        BY ChosenSuffix DEF Dead, Typed, Suffixes
      <4>2. CASE alive[q]
        <5>1. q \in Running
          BY <4>2 DEF Running
        <5>2. f \notin Leaked /\ f \notin UNION {atExit[x] : x \in Running}
          BY DEF Dead
        <5> QED BY <4>1, <5>1, <5>2 DEF Leaked
      <4>3. CASE ~alive[q]
        <5>1. atExit[q] = {} /\ leaked[q] = {}
          BY <4>3 DEF HeldInv
        <5> QED BY <4>1, <5>1
      <4> QED BY <4>1, <4>2, <4>3
    <3>3. \A u \in Thread : \A f \in doomed'[u] : f \in Dead \/ f \in doomed[u]
      BY <3>1 DEF Typed, TypeOK
    <3>4. \A u \in Thread : \A f \in doomed'[u] :
            /\ suffix[f] # "" /\ \A w \in Thread : file[w] # f
            /\ \A q \in Process : f \notin atExit[q] /\ f \notin leaked[q]
      BY <3>2, <3>3 DEF StrayInv
    <3> QED BY <3>1, <3>4 DEF StrayInv
  <2> QED BY <1>1, <2>1, <2>2, <2>3, <2>4, <2>5 DEF Step
<1>2. ASSUME NEW p \in Process, Kill(p) \/ Exit(p) PROVE StrayInv'
  <2>1. Ends(p)
    BY <1>2 DEF Kill, Exit
  <2>2. \A q \in Process : atExit'[q] \subseteq atExit[q] /\ leaked'[q] \subseteq leaked[q]
    BY <2>1 DEF Ends, Typed, TypeOK
  <2>3. \A u \in Thread : file'[u] \in {0, file[u]} /\ doomed'[u] \subseteq doomed[u]
    BY <2>1 DEF Ends
  <2>4. \A u \in Thread : 0 \notin doomed[u]
    <3>1. \A u \in Thread : doomed[u] \subseteq Files
      BY DEF Typed, TypeOK
    <3> QED BY <3>1 DEF Files
  <2>5. suffix' = suffix
    BY <2>1 DEF Ends
  <2> SUFFICES ASSUME NEW u \in Thread, NEW f \in doomed'[u]
               PROVE  /\ suffix[f] # "" /\ \A w \in Thread : file'[w] # f
                      /\ \A q \in Process : f \notin atExit'[q] /\ f \notin leaked'[q]
    BY <2>5 DEF StrayInv
  <2>6. f \in doomed[u] /\ f # 0
    BY <2>3, <2>4
  <2> QED BY <2>2, <2>3, <2>6 DEF StrayInv
<1>3. ASSUME NEW p \in Process, Start(p) PROVE StrayInv'
  BY <1>3 DEF Start, StrayInv
<1>4. CASE UNCHANGED vars
  BY <1>4 DEF vars, StrayInv
<1> QED BY <1>1, <1>2, <1>3, <1>4 DEF Next

LEMMA SweptStep ==
  ASSUME LoadingAssumption, Typed, HeldInv, StrayInv, SweptInv, [Next]_vars
  PROVE  SweptInv'
<1> USE DEF life, statics, linked, held, history
<1>a. \A u \in Thread : \A f \in doomed[u] : f \in Files /\ \A w \in Thread : file[w] # f
  BY DEF StrayInv, Typed, TypeOK
<1>b. ASSUME NEW t \in Thread, NEW to, pc' = [pc EXCEPT ![t] = to],
             pc[t] = "sweeping" => (to = "sweeping" \/ todo[t] = {}),
             to \notin Extracting \cup {"sweeping"} => doomed[t] = {},
             UNCHANGED <<doomed, todo>>,
             \A f \in Files : (\A u \in Thread : file[u] # f) /\ suffix[f] # "" => disk'[f] = disk[f]
      PROVE  SweptInv'
  <2> SUFFICES ASSUME NEW u \in Thread
               PROVE  /\ pc'[u] \notin Extracting \cup {"sweeping"} => doomed[u] = {}
                      /\ \A f \in doomed[u] :
                           disk'[f] = "absent" \/ (pc'[u] = "sweeping" /\ f \in todo[u])
    BY <1>b DEF SweptInv
  <2>1. pc'[u] = IF u = t THEN to ELSE pc[u]
    BY <1>b, PcMoves
  <2>2. \A f \in doomed[u] : disk'[f] = disk[f]
    BY <1>a, <1>b DEF StrayInv
  <2>3. /\ pc[u] \notin Extracting \cup {"sweeping"} => doomed[u] = {}
        /\ \A f \in doomed[u] : disk[f] = "absent" \/ (pc[u] = "sweeping" /\ f \in todo[u])
    BY DEF SweptInv
  <2>4. CASE u = t
    BY <1>b, <2>1, <2>2, <2>3, <2>4
  <2>5. CASE u # t
    BY <2>1, <2>2, <2>3, <2>5
  <2> QED BY <2>4, <2>5
<1>1. ASSUME NEW t \in Thread, Step(t) \/ Abort(t) PROVE SweptInv'
  <2>1. CASE \/ Test(t) \/ Claim(t) \/ LinkNatives(t) \/ LinkFails(t) \/ Name(t) \/ Publish(t)
    <3>1. PICK to : pc' = [pc EXCEPT ![t] = to]
      BY <2>1 DEF Test, Claim, LinkNatives, LinkFails, Name, Publish, At, Goes
    <3>2. pc[t] \notin Extracting \cup {"sweeping"} /\ UNCHANGED <<doomed, todo, disk>>
      BY <2>1 DEF Test, Claim, LinkNatives, LinkFails, Name, Publish, At, Waiting, Extracting
    <3>3. doomed[t] = {}
      BY <3>2 DEF SweptInv
    <3> QED BY <3>1, <3>2, <3>3, <1>b
  <2>2. CASE OpenFile(t) \/ Copy(t) \/ Finish(t)
    <3>1. /\ pc[t] \in Extracting /\ pc[t] # "sweeping"
          /\ \E to \in Extracting : pc' = [pc EXCEPT ![t] = to]
          /\ UNCHANGED <<doomed, todo>>
      BY <2>2 DEF OpenFile, Copy, Finish, At, Goes, Extracting
    <3>2. \A f \in Files : f # file[t] => disk'[f] = disk[f]
      BY <2>2 DEF OpenFile, Copy, Finish, Write, Typed, TypeOK
    <3> QED BY <3>1, <3>2, <1>b
  <2>3. CASE Create(t)
    <3>1. /\ pc' = [pc EXCEPT ![t] = "created"] /\ todo[t] = {}
          /\ UNCHANGED <<doomed, todo>>
      BY <2>3 DEF Create, At, Goes
    <3>2. \A f \in Files : suffix[f] # "" => disk'[f] = disk[f]
      BY <2>3 DEF Create, Fresh, Typed, TypeOK
    <3>3. "created" \in Extracting
      BY DEF Extracting
    <3> QED BY <3>1, <3>2, <3>3, <1>b
  <2>4. CASE Load(t) \/ Abort(t)
    <3>1. /\ pc' = [pc EXCEPT ![t] = "linking"] /\ doomed' = [doomed EXCEPT ![t] = {}]
          /\ UNCHANGED <<todo, disk>>
      BY <2>4 DEF Load, Abort, At, Goes
    <3>2. doomed'[t] = {} /\ \A u \in Thread : u # t => doomed'[u] = doomed[u]
      BY <3>1 DEF Typed, TypeOK
    <3>3. \A u \in Thread : u # t => pc'[u] = pc[u]
      BY <3>1, PcMoves
    <3> QED BY <3>1, <3>2, <3>3 DEF SweptInv
  <2>5. CASE List(t)
    <3>1. /\ pc' = [pc EXCEPT ![t] = "sweeping"] /\ doomed' = [doomed EXCEPT ![t] = Dead]
          /\ todo' = [todo EXCEPT ![t] = Leftovers] /\ disk' = disk
      BY <2>5 DEF List, At, Goes
    <3>2. doomed'[t] = Dead /\ todo'[t] = Leftovers /\ pc'[t] = "sweeping"
      BY <3>1, PcMoves DEF Typed, TypeOK
    <3>3. \A u \in Thread : u # t => doomed'[u] = doomed[u] /\ todo'[u] = todo[u] /\ pc'[u] = pc[u]
      BY <3>1, PcMoves DEF Typed, TypeOK
    <3>4. Dead \subseteq Leftovers
      BY DEF Dead, Leftovers
    <3> QED BY <3>1, <3>2, <3>3, <3>4 DEF SweptInv
  <2>6. CASE Sweep(t)
    <3>1. PICK f \in todo[t], deleted \in BOOLEAN :
            /\ deleted \in Deletable(f)
            /\ todo' = [todo EXCEPT ![t] = @ \ {f}]
            /\ disk' = IF deleted THEN [disk EXCEPT ![f] = "absent"] ELSE disk
      <4>1. \A f \in Files : Deletable(f) \subseteq BOOLEAN
        BY DEF Deletable
      <4>2. todo[t] \subseteq Files
        BY DEF Typed, TypeOK
      <4>3. PICK f \in todo[t] : \E deleted \in Deletable(f) :
              /\ todo' = [todo EXCEPT ![t] = @ \ {f}]
              /\ disk' = IF deleted THEN [disk EXCEPT ![f] = "absent"] ELSE disk
        BY <2>6 DEF Sweep
      <4>4. PICK deleted \in Deletable(f) :
              /\ todo' = [todo EXCEPT ![t] = @ \ {f}]
              /\ disk' = IF deleted THEN [disk EXCEPT ![f] = "absent"] ELSE disk
        BY <4>3
      <4>5. deleted \in BOOLEAN
        BY <4>1, <4>2
      <4> QED BY <4>4, <4>5
    <3>2. /\ pc[t] = "sweeping" /\ pc' = [pc EXCEPT ![t] = "sweeping"] /\ UNCHANGED doomed
      BY <2>6 DEF Sweep, At, Goes
    <3>3. f \in Files
      BY DEF Typed, TypeOK
    <3>4. \A u \in Thread : f \in doomed[u] => deleted
      <4> SUFFICES ASSUME NEW u \in Thread, f \in doomed[u] PROVE Deletable(f) = {TRUE}
        BY <3>1
      <4>0. \A q \in Running : q \in Process
        BY DEF Running
      <4>1. f \notin Leaked
        <5>1. \A q \in Process : f \notin leaked[q]
          BY DEF StrayInv
        <5> QED BY <4>0, <5>1 DEF Leaked
      <4>2. f \notin Open
        BY <1>a DEF Open
      <4>3. f \notin UNION {mapped[p] : p \in Running}
        <5>1. \A q \in Process : f \notin mapped[q]
          BY DEF StrayInv, HeldInv
        <5> QED BY <4>0, <5>1
      <4> QED BY <4>1, <4>2, <4>3 DEF Deletable
    <3>5. \A g \in Files : /\ g # f => disk'[g] = disk[g]
                           /\ deleted => disk'[f] = "absent"
      BY <3>1, <3>3 DEF Typed, TypeOK
    <3>6. /\ \A u \in Thread : pc'[u] = pc[u]
          /\ \A u \in Thread : \A g \in todo[u] : g # f => g \in todo'[u]
      BY <3>1, <3>2, PcMoves DEF Typed, TypeOK
    <3>7. \A u \in Thread : \A g \in doomed[u] :
            disk'[g] = "absent" \/ (pc'[u] = "sweeping" /\ g \in todo'[u])
      <4> SUFFICES ASSUME NEW u \in Thread, NEW g \in doomed[u]
                   PROVE  disk'[g] = "absent" \/ (pc'[u] = "sweeping" /\ g \in todo'[u])
        OBVIOUS
      <4>1. CASE g = f
        BY <3>3, <3>4, <3>5, <4>1
      <4>2. CASE g # f
        BY <1>a, <3>5, <3>6, <4>2 DEF SweptInv
      <4> QED BY <4>1, <4>2
    <3> QED BY <3>2, <3>6, <3>7 DEF SweptInv
  <2> QED BY <1>1, <2>1, <2>2, <2>3, <2>4, <2>5, <2>6 DEF Step
<1>2. ASSUME NEW p \in Process, Kill(p) \/ Exit(p) PROVE SweptInv'
  <2>1. Ends(p)
    BY <1>2 DEF Kill, Exit
  <2>2. \A f \in Files : disk'[f] \in {disk[f], "absent"}
    BY <1>2 DEF Kill, Exit
  <2>3. \A u \in Thread :
          \/ doomed'[u] = {}
          \/ doomed'[u] = doomed[u] /\ todo'[u] = todo[u] /\ pc'[u] = pc[u]
    BY <2>1 DEF Ends
  <2> QED BY <1>a, <2>2, <2>3 DEF SweptInv
<1>3. ASSUME NEW p \in Process, Start(p) PROVE SweptInv'
  BY <1>3 DEF Start, SweptInv
<1>4. CASE UNCHANGED vars
  BY <1>4 DEF vars, SweptInv
<1> QED BY <1>1, <1>2, <1>3, <1>4 DEF Next

\* An extraction leaves none of the files it found dead, on every platform, however
\* many processes end and start meanwhile: a file without a process is in nobody's
\* way again.
THEOREM SweepsLeftovers == ASSUME LoadingAssumption PROVE Spec => []LeftoversSwept
<1>1. Init => HeldInv /\ StrayInv /\ SweptInv
  BY DEF Init, HeldInv, StrayInv, SweptInv
<1>2. Typed /\ HeldInv /\ StrayInv /\ SweptInv /\ [Next]_vars => (HeldInv /\ StrayInv /\ SweptInv)'
  BY HeldStep, StrayStep, SweptStep
<1>3. SweptInv => LeftoversSwept
  BY DEF SweptInv, LeftoversSwept
<1> QED BY <1>1, <1>2, <1>3, TypedHolds, PTL DEF Spec
=============================================================================
