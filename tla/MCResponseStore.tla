--------------------------- MODULE MCResponseStore ---------------------------
(* Small instances of ResponseStore for TLC.                                *)
EXTENDS ResponseStore, TLC

CONSTANTS r1, r2, r3, s1, s2, k1, b1, b2

Two   == {r1, r2}
Three == {r1, r2, r3}
OneServer  == {s1}
TwoServers == {s1, s2}

\* Everybody uses one key; the body of r3, or with it r2's, may differ.
OneKey     == [r \in Requests |-> k1]
\* r3 has no key.
MixedKeys  == [r \in Requests |-> IF r = r3 THEN None ELSE k1]
SameBody   == [r \in Requests |-> b1]
MixedBody  == [r \in Requests |-> IF r = r3 THEN b2 ELSE b1]

Symm == Permutations(Servers)
=============================================================================
