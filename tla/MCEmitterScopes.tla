-------------------------- MODULE MCEmitterScopes --------------------------
(* Instances of EmitterScopes for TLC: two names, so that a name can be      *)
(* shadowed, reused or left alone while the other is declared.               *)
EXTENDS EmitterScopes, TLC

CONSTANTS m, n

MCName   == {m, n}
All      == Feature
OnlyMulti == {"multi"}

Symmetric == Permutations(MCName)
=============================================================================
