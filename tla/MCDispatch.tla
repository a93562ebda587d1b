----------------------------- MODULE MCDispatch -----------------------------
(* An instance of Dispatch for TLC. *)
EXTENDS Dispatch

CONSTANTS r1, r2, p1, p2

MCSlot == [kind : {"json", "stream"}, prompt : Prompt \cup {NoPrompt}]
MCText == [route : Routes, prompt : Prompt, whole : BOOLEAN]

(* Every route; a repeated and a different prompt; one that is not cached. *)
MCAsks ==
  {[route |-> d, prompt |-> p1, cacheable |-> TRUE] : d \in Routes}
    \cup {[route |-> d, prompt |-> p2, cacheable |-> TRUE] : d \in {"chat", "gemini"}}
    \cup {[route |-> "stream", prompt |-> p1, cacheable |-> FALSE]}
=============================================================================
