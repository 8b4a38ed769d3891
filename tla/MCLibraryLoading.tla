-------------------------- MODULE MCLibraryLoading --------------------------
(* Instances of LibraryLoading for TLC: a process with two threads, and one *)
(* with one thread that is started twice.                                   *)
EXTENDS LibraryLoading

CONSTANTS p1, p2, t1, t2, t3

MCProcess   == {p1, p2}
MCThread    == {t1, t2, t3}
MCProcessOf == (t1 :> p1) @@ (t2 :> p1) @@ (t3 :> p2)
MCMaxStarts == (p1 :> 1) @@ (p2 :> 2)
MCMachines  == {<<"windows", "amd64">>, <<"mac", "x86_64">>, <<"mac", "aarch64">>}
MCPackaged  == {<<"windows_64", ".dll">>, <<"osx_64", ".jnilib">>}

Symmetric == Permutations({t1, t2})
=============================================================================
