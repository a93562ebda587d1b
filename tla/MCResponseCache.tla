-------------------------- MODULE MCResponseCache --------------------------
(* An instance of ResponseCache for TLC. *)
EXTENDS ResponseCache

CONSTANTS s1, s2, s3, s4, t1, t2

(* Slots are interchangeable, and so are texts.                            *)
Interchangeable == Permutations({s1, s2, s3, s4}) \cup Permutations({t1, t2})
=============================================================================
