---------------------------- MODULE MCGeneration ----------------------------
(* Small instances of Generation for TLC.                                   *)
EXTENDS Generation, TLC

CONSTANTS r1, r2

Two     == {r1, r2}
One     == {r1}
Nobody  == {}

Sym == Permutations(Requests)
=============================================================================
