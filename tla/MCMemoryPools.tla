--------------------------- MODULE MCMemoryPools ---------------------------
(* Instances of MemoryPools for TLC: two threads, so that one can be the    *)
(* main thread and the other a worker, or both workers.                     *)
EXTENDS MemoryPools, TLC

CONSTANTS t1, t2, j1, j2, b1, a1

MCThread  == {t1, t2}
OneJob    == {j1}
TwoJobs   == {j1, j2}
OneBlock  == {b1}
OneArray  == {a1}
None      == {}
Succeeds  == {TRUE}
Either    == BOOLEAN

Symmetric == Permutations(MCThread) \cup Permutations(TwoJobs)
=============================================================================
