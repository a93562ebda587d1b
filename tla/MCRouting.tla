----------------------------- MODULE MCRouting -----------------------------
(* An instance of Routing for TLC. *)
EXTENDS Routing, TLC

CONSTANTS p1, p2, a, e1, e2

(* The key maps the plain alias to an explicit name.                       *)
MCMapping == [n \in Name |-> IF n = << p1, << p2, a >> >> THEN a ELSE IF n = a THEN << p2, a >> ELSE Nothing]

Interchangeable == Permutations(Editor)
=============================================================================
