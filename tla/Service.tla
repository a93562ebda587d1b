------------------------------- MODULE Service -------------------------------
(***************************************************************************)
(* What the panel promises about the requests of its routes, whatever its  *)
(* cache, its connections and its database do (services/dispatch.py):      *)
(* a request is answered with what a provider wrote for it or has written  *)
(* for a request like it, is charged once and only for what was written,   *)
(* and ends once.                                                          *)
(***************************************************************************)
EXTENDS Naturals

CONSTANTS Request, Ask, Text, Nothing

VARIABLES
  stage,     \* of each request: "new", "open", "answered", "refused", "cut", "lost"
  question,  \* what it asks
  said,      \* the text it is answered with
  written,   \* what a provider has written for it: "nothing", "part" or "all"
  charges,   \* usage rows of the request
  waived     \* the requests whose row was given up

(* The texts that providers have written so far.                           *)
Known ==
  {t \in Text : \E q \in Request :
     /\ written[q] # "nothing"
     /\ t.route = question[q].route /\ t.prompt = question[q].prompt
     /\ t.whole => written[q] = "all"}

(* A text may answer a question of its kind.  A Gemini question's prompt   *)
(* is not looked at.                                                       *)
Suits(t, a) ==
  /\ t.route = "stream" <=> a.route = "stream"
  /\ t.prompt = a.prompt \/ a.route = "gemini"
  /\ t.whole \/ a.route = "stream"

Init ==
  /\ stage = [r \in Request |-> "new"]
  /\ question = [r \in Request |-> Nothing]
  /\ said = [r \in Request |-> Nothing]
  /\ written = [r \in Request |-> "nothing"]
  /\ charges = [r \in Request |-> 0]
  /\ waived = {}

(* A request is let in, possibly with an answer that is known already, or  *)
(* refused, or a stream is answered on the spot, free of charge.           *)
Submit(r, a) ==
  /\ stage[r] = "new"
  /\ question' = [question EXCEPT ![r] = a]
  /\ UNCHANGED << written, charges, waived >>
  /\ \/ stage' = [stage EXCEPT ![r] = "open"] /\ said' = said
     \/ /\ a.route # "stream"
        /\ stage' = [stage EXCEPT ![r] = "refused"] /\ said' = said
     \/ \E t \in Known :
          /\ Suits(t, a)
          /\ said' = [said EXCEPT ![r] = t]
          /\ stage' = [stage EXCEPT ![r] = IF a.route = "stream" THEN "answered" ELSE "open"]

(* An open stream is answered with what is known.                          *)
Recall(r) ==
  /\ stage[r] = "open" /\ question[r].route = "stream"
  /\ said[r] = Nothing /\ written[r] = "nothing"
  /\ \E t \in Known : Suits(t, question[r]) /\ said' = [said EXCEPT ![r] = t]
  /\ UNCHANGED << stage, question, written, charges, waived >>

(* The provider begins to write for r, or completes it: that is its answer.*)
Write(r) ==
  /\ stage[r] = "open" /\ said[r] = Nothing
  /\ \/ /\ written[r] = "nothing" /\ question[r].route = "stream"
        /\ written' = [written EXCEPT ![r] = "part"]
        /\ said' = said
     \/ /\ written[r] = (IF question[r].route = "stream" THEN "part" ELSE "nothing")
        /\ written' = [written EXCEPT ![r] = "all"]
        /\ said' = [said EXCEPT ![r] =
             [route |-> question[r].route, prompt |-> question[r].prompt, whole |-> TRUE]]
  /\ UNCHANGED << stage, question, charges, waived >>

Uncharged(r) == charges[r] = 0 /\ r \notin waived

(* A request that has got something is charged, once, or let off; that     *)
(* ends it, unless it has an image to be saved.  A stream may end without  *)
(* the rest of its text, or with its row when its client leaves.           *)
Settle(r) ==
  /\ stage[r] = "open" /\ Uncharged(r)
  /\ said[r] # Nothing \/ written[r] # "nothing"
  /\ \/ charges' = [charges EXCEPT ![r] = 1] /\ waived' = waived
     \/ charges' = charges /\ waived' = waived \cup {r}
  /\ \/ /\ said[r] # Nothing
        /\ stage' = [stage EXCEPT ![r] = IF question[r].route = "images" THEN "open" ELSE "answered"]
     \/ /\ question[r].route = "stream"
        /\ stage' = [stage EXCEPT ![r] = "cut"]
  /\ UNCHANGED << question, said, written >>

(* An image that is settled is delivered, or cannot be saved.              *)
Deliver(r) ==
  /\ stage[r] = "open" /\ question[r].route = "images" /\ ~ Uncharged(r)
  /\ \E end \in {"answered", "refused"} : stage' = [stage EXCEPT ![r] = end]
  /\ UNCHANGED << question, said, written, charges, waived >>

(* A call for which nothing was written is refused, a stream is cut off.   *)
Fail(r) ==
  /\ stage[r] = "open" /\ Uncharged(r)
  /\ \/ /\ question[r].route # "stream" /\ said[r] = Nothing /\ written[r] = "nothing"
        /\ stage' = [stage EXCEPT ![r] = "refused"]
     \/ /\ question[r].route = "stream"
        /\ stage' = [stage EXCEPT ![r] = "cut"]
  /\ UNCHANGED << question, said, written, charges, waived >>

(* What is open is lost; nothing else changes.                             *)
Lose ==
  /\ stage' = [r \in Request |-> IF stage[r] = "open" THEN "lost" ELSE stage[r]]
  /\ UNCHANGED << question, said, written, charges, waived >>

Next ==
  \/ \E r \in Request :
       (\E a \in Ask : Submit(r, a)) \/ Recall(r) \/ Write(r) \/ Settle(r) \/ Deliver(r) \/ Fail(r)
  \/ Lose

Spec == Init /\ [][Next]_<< stage, question, said, written, charges, waived >>
=============================================================================
