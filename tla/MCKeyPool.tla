----------------------------- MODULE MCKeyPool -----------------------------
(* Instances of KeyPool for TLC. *)
EXTENDS KeyPool, TLC

CONSTANTS r1, r2, k1, k2, k3

(* No key, a single key, three keys, and a list in which the primary key   *)
(* is entered into the pool a second time (nothing forbids it).            *)
MCPools == {<< >>, << k3 >>, << k1, k2, k3 >>, << k1, k2, k1 >>}

(* One answer for each way _do_request treats an answer: success, a plain  *)
(* rate limit, a rate limit whose text speaks of quota (category billing), *)
(* a rejected key, and an error that is not retried.                       *)
MCAnswers ==
  { [status |-> 200, hints |-> {}],
    [status |-> 429, hints |-> {}],
    [status |-> 429, hints |-> {"billing"}],
    [status |-> 401, hints |-> {}],
    [status |-> 500, hints |-> {"context"}] }

Interchangeable == Permutations(Request)
=============================================================================
