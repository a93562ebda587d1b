----------------------------- MODULE LossyCache -----------------------------
(***************************************************************************)
(* What CacheService promises (services/cache.py): a slot holds the text   *)
(* last put there for at most a lifetime, a get returns that text or       *)
(* nothing, and anything may be forgotten at any moment.                   *)
(***************************************************************************)
EXTENDS Naturals

CONSTANTS Slot, Text, Lifetime, Nothing

VARIABLES
  memory,  \* what each slot holds
  answer   \* what the last get returned

Entry == [text : Text, left : 0 .. Lifetime]

Init ==
  /\ memory = [s \in Slot |-> Nothing]
  /\ answer = Nothing

(* Every slot of S keeps what it holds or forgets it.                      *)
KeepOrForget(S) ==
  /\ memory' \in [Slot -> Entry \cup {Nothing}]
  /\ \A s \in S : memory'[s] \in {memory[s], Nothing}

Put(s, t) ==
  /\ KeepOrForget(Slot \ {s})
  /\ memory'[s] = [text |-> t, left |-> Lifetime]
  /\ answer' = answer

Take(s) ==
  /\ KeepOrForget(Slot)
  /\ \/ answer' = Nothing
     \/ /\ memory[s] # Nothing
        /\ memory[s].left > 0
        /\ answer' = memory[s].text

Forget ==
  /\ KeepOrForget(Slot)
  /\ answer' = answer

(* A second passes.                                                        *)
Age ==
  /\ memory' \in [Slot -> Entry \cup {Nothing}]
  /\ \A s \in Slot :
       IF memory[s] = Nothing
         THEN memory'[s] = Nothing
         ELSE /\ memory'[s] # Nothing
              /\ memory'[s].text = memory[s].text
              /\ memory'[s].left = IF memory[s].left = 0 THEN 0 ELSE memory[s].left - 1
  /\ answer' = answer

Next ==
  \/ \E s \in Slot : Take(s) \/ \E t \in Text : Put(s, t)
  \/ Forget
  \/ Age

Spec == Init /\ [][Next]_<< memory, answer >>
=============================================================================
