------------------------------ MODULE Failover ------------------------------
(***************************************************************************)
(* services/failover.py: classification of a failed upstream call.         *)
(*                                                                         *)
(* An answer is its HTTP status and the set of hint groups its body text   *)
(* mentions.  The matching of a hint inside the text is abstracted to      *)
(* membership of the group in the answer's hints; a text may mention words *)
(* of several groups, so the order in which classify tests them matters.   *)
(***************************************************************************)
EXTENDS Naturals, FiniteSetsExt

(* The word lists of the module, and the two literals of the auth test. *)
Hints == {"auth", "billing", "context", "model"}

Answer == [status : Nat, hints : SUBSET Hints]

(* The categories in the order in which classify tests for them. *)
Categories == << "auth", "billing", "rate_limit", "timeout",
                 "context_overflow", "model_error", "unknown" >>

(* The test of each category, taken alone. *)
Matches(category, a) ==
  CASE category = "auth"             -> a.status \in {401, 403} \/ "auth" \in a.hints
    [] category = "billing"          -> a.status = 402 \/ "billing" \in a.hints
    [] category = "rate_limit"       -> a.status = 429
    [] category = "timeout"          -> a.status \in {408, 504, 524}
    [] category = "context_overflow" -> a.status = 413 \/ "context" \in a.hints
    [] category = "model_error"      -> a.status \in {404, 422} \/ "model" \in a.hints
    [] category = "unknown"          -> TRUE

(* The first category whose test succeeds. *)
Classify(a) ==
  Categories[Min({i \in DOMAIN Categories : Matches(Categories[i], a)})]

(* FailoverDecision.rotate_key of each category. *)
RotateKey(category) == category \in {"auth", "billing", "rate_limit"}

(* FailoverDecision.retry_same_key of each category. *)
RetrySameKey(category) ==
  category \in {"rate_limit", "timeout", "context_overflow", "unknown"}
=============================================================================
