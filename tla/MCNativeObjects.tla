-------------------------- MODULE MCNativeObjects --------------------------
(* Instances of NativeObjects for TLC: the loading thread and a worker, two *)
(* jobs, and besides the initial ForbidIncluder two callback includers, one *)
(* of them the kind that setIncluder(null) makes.                           *)
EXTENDS NativeObjects, TLC

CONSTANTS t1, t2, j1, j2, i1, i2

MCThread == {t1, t2}
MCJob    == {j1, j2}
OneIncl  == {i1}
NoIncl   == {}
TwoIncl  == {i1, i2}

Symmetric == Permutations(MCJob)
=============================================================================
