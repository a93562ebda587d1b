--------------------------- MODULE MCAccounting ---------------------------
(* An instance of Accounting for TLC.                                      *)
EXTENDS Accounting, TLC

CONSTANTS e1, e2, r1, r2

MCEdits == { "free" :> TRUE, "free" :> FALSE @@ "token" :> 1, "request" :> 2, "token" :> Null }
MCListings == { "token" :> 3, "token" :> 0 @@ "free" :> TRUE }

Interchangeable == Permutations(Editor) \cup Permutations(Request)
=============================================================================
