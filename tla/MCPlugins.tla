----------------------------- MODULE MCPlugins -----------------------------
(* An instance of Plugins for TLC.                                         *)
EXTENDS Plugins, TLC

CONSTANTS u1, u2, i1, v1, v2, b1

Interchangeable == Permutations(Upload) \cup Permutations(Good)
=============================================================================
