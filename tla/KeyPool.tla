------------------------------- MODULE KeyPool -------------------------------
(***************************************************************************)
(* The key pool of one provider and the calls that draw on it:             *)
(* ProviderManager.active_keys, pick_key and mark_key_rate_limited         *)
(* (services/provider_manager.py) with the failover loop of _do_request    *)
(* and the single attempt of chat_completion_stream (services/dispatch.py).*)
(*                                                                         *)
(* All requests share one event loop.  A step runs from one await to the   *)
(* next: a call is put on the wire by pick_key and the synchronous part of *)
(* pool.request, and the answer is classified, the key marked and the next *)
(* key picked without giving up the loop.  Between a call and its answer   *)
(* every other request, the clock and the administrator may move.          *)
(***************************************************************************)
EXTENDS Naturals, Sequences, FiniteSets, Functions, Failover

CONSTANTS
  Request,   \* the requests of a behaviour; each is served once
  Key,       \* upstream API keys
  NoKey,     \* the None that pick_key returns for a provider without a key
  Pools,     \* the key lists (primary first) an administrator may configure
  MaxPool,   \* bound on the length of a key list
  Cooldown,  \* ticks for which a rate-limited key is set aside (5 s)
  Answers    \* the answers an upstream may give

ASSUME KeyAssumption == NoKey \notin Key
ASSUME PoolAssumption ==
  /\ MaxPool \in Nat
  /\ Pools \subseteq {ks \in Seq(Key) : Len(ks) <= MaxPool}
ASSUME CooldownAssumption == Cooldown \in Nat \ {0}
ASSUME AnswerAssumption == Answers \subseteq Answer

VARIABLES
  keys,      \* active_keys(provider): the primary key, then the active pool keys
  rr,        \* _rr_counter[provider]
  cooling,   \* ticks left until _key_cooldown[key] has passed
  pc,        \* where a request stands
  kind,      \* "chat" (through _do_request) or "stream"
  attempt,   \* _do_request's parameter
  sent,      \* the key of the call on the wire
  \* history, read by properties only
  tried,     \* the keys a request has called with, in order
  peak,      \* the longest key list seen while a request was under way
  calm,      \* nothing but this request's own 429s has touched its choice of key
  steady     \* no retry and no reconfiguration has happened yet

code    == << keys, rr, cooling, pc, kind, attempt, sent >>
history == << tried, peak, calm, steady >>
vars    == << code, history >>

Kinds    == {"chat", "stream"}
Terminal == {"ok", "failed", "limited"}

MaxOf(m, n) == IF m >= n THEN m ELSE n

TypeOK ==
  /\ keys \in {ks \in Seq(Key) : Len(ks) <= MaxPool}
  /\ rr \in Nat
  /\ cooling \in [Key -> 0 .. Cooldown]
  /\ pc \in [Request -> {"idle", "sent"} \cup Terminal]
  /\ kind \in [Request -> Kinds]
  /\ attempt \in [Request -> Nat]
  /\ sent \in [Request -> Key \cup {NoKey}]
  /\ tried \in [Request -> Seq(Key \cup {NoKey})]
  /\ peak \in [Request -> Nat]
  /\ calm \in [Request -> BOOLEAN]
  /\ steady \in BOOLEAN

-----------------------------------------------------------------------------
(* Selection *)

(* The position of the scan's k-th key, counted from the round-robin       *)
(* counter plus the caller's offset.                                       *)
Scan(ks, next, offset, k) == ((((next + offset) % Len(ks)) + k) % Len(ks)) + 1

(* The scan steps that land on a key whose cooldown has passed.            *)
Ready(ks, next, offset, cool) ==
  {k \in 0 .. Len(ks) - 1 : cool[ks[Scan(ks, next, offset, k)]] = 0}

(* Variant: pick_key without the cooldown.                                 *)
PickedBlind(ks, next, offset, cool) == Scan(ks, next, offset, 0)

(* pick_key: the first ready key of the scan, or its first key when every  *)
(* key is cooling down.                                                    *)
Picked(ks, next, offset, cool) ==
  LET ready == Ready(ks, next, offset, cool)
  IN  Scan(ks, next, offset, IF ready = {} THEN 0 ELSE Min(ready))

(* Variant: pick_key that does not move the counter.                       *)
CallFromStart(r, offset, cool) ==
  /\ pc' = [pc EXCEPT ![r] = "sent"]
  /\ IF keys = << >>
       THEN sent' = [sent EXCEPT ![r] = NoKey]
       ELSE sent' = [sent EXCEPT ![r] = keys[Picked(keys, rr, offset, cool)]]
  /\ rr' = rr
  /\ tried' = [tried EXCEPT ![r] = Append(@, sent'[r])]
  /\ peak' = [peak EXCEPT ![r] = MaxOf(@, Len(keys))]

(* The call put on the wire for r: pick_key, then pool.request.  `cool` is *)
(* the cooldown table the pick reads.                                      *)
Call(r, offset, cool) ==
  /\ pc' = [pc EXCEPT ![r] = "sent"]
  /\ IF keys = << >>
       THEN /\ sent' = [sent EXCEPT ![r] = NoKey]
            /\ rr' = rr
       ELSE LET p == Picked(keys, rr, offset, cool)
            IN  /\ sent' = [sent EXCEPT ![r] = keys[p]]
                /\ rr' = p % Len(keys)
  /\ tried' = [tried EXCEPT ![r] = Append(@, sent'[r])]
  /\ peak' = [peak EXCEPT ![r] = MaxOf(@, Len(keys))]

AllCooling(cool) == \A k \in Range(keys) : cool[k] > 0

(* r arrives, is resolved and makes its first call.                        *)
Start(r) ==
  /\ pc[r] = "idle"
  /\ \E kd \in Kinds : kind' = [kind EXCEPT ![r] = kd]
  /\ Call(r, 0, cooling)
  /\ calm' = [calm EXCEPT ![r] = ~ AllCooling(cooling)]
  /\ UNCHANGED << keys, cooling, attempt, steady >>

-----------------------------------------------------------------------------
(* Answers *)

Failure(a) == a.status >= 400

(* Variant: one retry too many.                                            *)
RetriesOnceMore(r, a) ==
  /\ kind[r] = "chat"
  /\ RotateKey(Classify(a)) \/ a.status = 429
  /\ Len(keys) > 1
  /\ attempt[r] < Len(keys)

(* Variant: one retry too few.                                             *)
RetriesTooFew(r, a) ==
  /\ kind[r] = "chat"
  /\ RotateKey(Classify(a)) \/ a.status = 429
  /\ Len(keys) > 1
  /\ attempt[r] + 1 < Len(keys) - 1

(* The test of _do_request under which a failed answer is retried.  A      *)
(* stream is never retried.                                                *)
Retries(r, a) ==
  /\ kind[r] = "chat"
  /\ RotateKey(Classify(a)) \/ a.status = 429
  /\ Len(keys) > 1
  /\ attempt[r] < Len(keys) - 1

(* Variant: marks by category, so a 429 about quota is not marked.         *)
MarkedByCategory(r, a) ==
  IF Classify(a) = "rate_limit" /\ sent[r] # NoKey
    THEN [cooling EXCEPT ![sent[r]] = Cooldown]
    ELSE cooling

(* Variant: cooldowns that add up.                                         *)
MarkedLonger(r, a) ==
  IF a.status = 429 /\ sent[r] # NoKey
    THEN [cooling EXCEPT ![sent[r]] = @ + Cooldown]
    ELSE cooling

(* mark_key_rate_limited, only for a 429 and only for a real key.          *)
Marked(r, a) ==
  IF a.status = 429 /\ sent[r] # NoKey
    THEN [cooling EXCEPT ![sent[r]] = Cooldown]
    ELSE cooling

(* A failed answer that is retried: mark the key, pick again with the      *)
(* attempt number as offset, call again.                                   *)
Retry(r, a) ==
  /\ pc[r] = "sent"
  /\ Failure(a)
  /\ Retries(r, a)
  /\ cooling' = Marked(r, a)
  /\ attempt' = [attempt EXCEPT ![r] = @ + 1]
  /\ Call(r, attempt[r] + 1, cooling')
  /\ calm' = [calm EXCEPT ![r] = @ /\ a.status = 429 /\ ~ AllCooling(cooling')]
  /\ steady' = FALSE
  /\ UNCHANGED << keys, kind >>

(* A failed answer that is not retried becomes an UpstreamError.           *)
GiveUp(r, a) ==
  /\ pc[r] = "sent"
  /\ Failure(a)
  /\ ~ Retries(r, a)
  /\ pc' = [pc EXCEPT ![r] = IF a.status = 429 THEN "limited" ELSE "failed"]
  /\ UNCHANGED << keys, rr, cooling, kind, attempt, sent, history >>

Succeed(r, a) ==
  /\ pc[r] = "sent"
  /\ ~ Failure(a)
  /\ pc' = [pc EXCEPT ![r] = "ok"]
  /\ UNCHANGED << keys, rr, cooling, kind, attempt, sent, history >>

(* pool.request raises (timeout, connection error) or the body of a        *)
(* successful answer is not JSON: the exception leaves the request.        *)
Fault(r) ==
  /\ pc[r] = "sent"
  /\ pc' = [pc EXCEPT ![r] = "failed"]
  /\ UNCHANGED << keys, rr, cooling, kind, attempt, sent, history >>

-----------------------------------------------------------------------------
(* Environment *)

(* A second passes on the monotonic clock.                                 *)
Tick ==
  /\ \E k \in Key : cooling[k] > 0
  /\ cooling' = [k \in Key |-> IF cooling[k] = 0 THEN 0 ELSE cooling[k] - 1]
  /\ calm' = [r \in Request |-> FALSE]
  /\ UNCHANGED << keys, rr, pc, kind, attempt, sent, tried, peak, steady >>

(* A refresh installs another key list.  The round-robin counter and the   *)
(* cooldown table are left as they are.                                    *)
Reconfigure(ks) ==
  /\ ks # keys
  /\ keys' = ks
  /\ peak' = [r \in Request |-> IF pc[r] = "sent" THEN MaxOf(peak[r], Len(ks)) ELSE peak[r]]
  /\ calm' = [r \in Request |-> FALSE]
  /\ steady' = FALSE
  /\ UNCHANGED << rr, cooling, pc, kind, attempt, sent, tried >>

Init ==
  /\ keys \in Pools
  /\ rr = 0
  /\ cooling = [k \in Key |-> 0]
  /\ pc = [r \in Request |-> "idle"]
  /\ kind = [r \in Request |-> "chat"]
  /\ attempt = [r \in Request |-> 0]
  /\ sent = [r \in Request |-> NoKey]
  /\ tried = [r \in Request |-> << >>]
  /\ peak = [r \in Request |-> 0]
  /\ calm = [r \in Request |-> FALSE]
  /\ steady = TRUE

Respond(r) ==
  \/ \E a \in Answers : Retry(r, a) \/ GiveUp(r, a) \/ Succeed(r, a)
  \/ Fault(r)

Next ==
  \/ \E r \in Request : Start(r) \/ Respond(r)
  \/ Tick
  \/ \E ks \in Pools : Reconfigure(ks)

Spec == Init /\ [][Next]_vars

-----------------------------------------------------------------------------
(* Properties *)

(* A request makes one call, plus at most one for each further key of the  *)
(* longest key list it saw: the recursion of _do_request ends even while   *)
(* the administrator edits the pool.                                       *)
AttemptsBounded ==
  \A r \in Request :
    /\ Len(tried[r]) <= MaxOf(1, peak[r])
    /\ pc[r] # "idle" => Len(tried[r]) = attempt[r] + 1

(* While nothing but its own rate limits interferes, a request never goes  *)
(* back to a key that has already answered it 429: the marks made between  *)
(* its calls keep those keys out of every later pick, also when other      *)
(* requests move the round-robin counter in between.                       *)
NoRepeatWhenLimited ==
  \A r \in Request : calm[r] => IsInjective(tried[r])

(* ... so one that finally gives up on a 429 has asked every key there is. *)
LimitedMeansAllTried ==
  [][\A r \in Request :
       pc[r] = "sent" /\ pc'[r] = "limited" /\ kind[r] = "chat" /\ calm[r]
         => Range(keys) \subseteq Range(tried[r])]_vars

(* No call leaves with a key the administrator has withdrawn, none without *)
(* a key while there is one, and a key that is cooling down is used only   *)
(* when every active key is.                                               *)
CallsUseReadyKeys ==
  [][\A r \in Request :
       tried'[r] # tried[r] =>
         \/ keys = << >> /\ sent'[r] = NoKey
         \/ /\ sent'[r] \in Range(keys)
            /\ cooling'[sent'[r]] > 0 => AllCooling(cooling')]_vars

(* How often a key carried some request's first call.                      *)
Uses(k) == Cardinality({r \in Request : tried[r] # << >> /\ Head(tried[r]) = k})

(* Round robin: as long as no call has been retried and the pool has not   *)
(* been edited, no key is more than one call ahead of another.             *)
Balanced ==
  steady /\ IsInjective(keys) => \A k, l \in Range(keys) : Uses(k) <= Uses(l) + 1
=============================================================================
