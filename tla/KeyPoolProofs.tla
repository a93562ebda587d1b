---------------------------- MODULE KeyPoolProofs ----------------------------
(***************************************************************************)
(* Proofs about KeyPool, for every set of requests and keys, every family  *)
(* of key lists, every length of the cooldown and every set of answers.    *)
(***************************************************************************)
EXTENDS KeyPool, WellFoundedInduction, FiniteSetTheorems, TLAPS

-----------------------------------------------------------------------------
(* Lemmas about the operators of the selection *)

Smaller == {p \in Nat \X Nat : p[1] < p[2]}

(* The order of the numbers is well founded. *)
LEMMA SmallerWF == IsWellFoundedOn(Smaller, Nat)
<1>1. Smaller = OpToRel(<, Nat)
  BY Zenon DEF OpToRel, Smaller
<1>. QED BY <1>1, NatLessThanWellFounded, Zenon

(* Min of a non-empty set of numbers is a least element of it. *)
LEMMA MinNat ==
  ASSUME NEW S, S \subseteq Nat, S # {}
  PROVE  Min(S) \in S /\ \A y \in S : Min(S) <= y
<1>1. PICK x \in S : \A y \in S : ~ (<< y, x >> \in Smaller)
  BY SmallerWF, WFMin, Zenon
<1>2. \A y \in S : x <= y
  <2>. SUFFICES ASSUME NEW y \in S PROVE x <= y
    OBVIOUS
  <2>1. x \in Nat /\ y \in Nat
    OBVIOUS
  <2>2. ~ (<< y, x >> \in Smaller)
    BY <1>1
  <2>3. ~ (y < x)
    BY <2>1, <2>2 DEF Smaller
  <2>. QED BY <2>1, <2>3
<1>. QED BY <1>2 DEF Min

(* A remainder lies below the divisor. *)
LEMMA ModRange ==
  ASSUME NEW n \in Nat \ {0}, NEW x \in Nat
  PROVE  x % n \in 0 .. n - 1
OBVIOUS

(* Small numbers are their own remainder, also after one turn. *)
LEMMA ModSmall ==
  ASSUME NEW n \in Nat \ {0}, NEW x \in 0 .. n - 1
  PROVE  x % n = x /\ (x + n) % n = x
OBVIOUS

(* Every step of the scan is a position of the list ... *)
LEMMA ScanInRange ==
  ASSUME NEW ks \in Seq(Key), ks # << >>, NEW next \in Nat, NEW offset \in Nat, NEW k \in Nat
  PROVE  Scan(ks, next, offset, k) \in 1 .. Len(ks)
<1>. DEFINE n == Len(ks)
            start == (next + offset) % n
<1>1. n \in Nat \ {0}
  OBVIOUS
<1>2. start \in 0 .. n - 1
  <2>1. next + offset \in Nat
    OBVIOUS
  <2>. QED BY <1>1, <2>1, ModRange
<1>3. (start + k) % n \in 0 .. n - 1
  <2>. HIDE DEF n, start
  <2>1. start + k \in Nat
    BY <1>1, <1>2
  <2>. QED BY <1>1, <2>1, ModRange
<1>4. ((start + k) % n) + 1 \in 1 .. n
  <2>. HIDE DEF n, start
  <2>. QED BY <1>1, <1>3
<1>. QED BY <1>4 DEF Scan

(* ... and every position of the list is a step of the scan. *)
LEMMA ScanReachesAll ==
  ASSUME NEW ks \in Seq(Key), NEW i \in 1 .. Len(ks), NEW next \in Nat, NEW offset \in Nat
  PROVE  \E k \in 0 .. Len(ks) - 1 : Scan(ks, next, offset, k) = i
<1>. DEFINE n == Len(ks)
            start == (next + offset) % n
<1>0. Len(ks) \in Nat /\ i \in Nat /\ 1 <= i /\ i <= Len(ks)
  OBVIOUS
<1>1. n \in Nat \ {0} /\ i - 1 \in 0 .. n - 1
  BY <1>0
<1>2. start \in 0 .. n - 1
  <2>1. next + offset \in Nat
    OBVIOUS
  <2>. QED BY <1>1, <2>1, ModRange
<1>. HIDE DEF n, start
<1>3. CASE start <= i - 1
  <2>. DEFINE k == i - 1 - start
  <2>1. k \in 0 .. n - 1 /\ start + k = i - 1
    BY <1>1, <1>2, <1>3
  <2>2. (start + k) % n = i - 1
    BY <1>1, <2>1, ModSmall
  <2>3. ((start + k) % n) + 1 = i
    BY <2>2
  <2>. QED BY <2>1, <2>3 DEF Scan, n, start
<1>4. CASE start > i - 1
  <2>. DEFINE k == i - 1 - start + n
  <2>1. k \in 0 .. n - 1 /\ start + k = (i - 1) + n
    BY <1>1, <1>2, <1>4
  <2>2. (start + k) % n = i - 1
    BY <1>1, <2>1, ModSmall
  <2>3. ((start + k) % n) + 1 = i
    BY <2>2
  <2>. QED BY <2>1, <2>3 DEF Scan, n, start
<1>. QED BY <1>1, <1>2, <1>3, <1>4

(* pick_key returns a key of the list, and one whose cooldown has passed   *)
(* if there is any.                                                        *)
LEMMA PickedIsReady ==
  ASSUME NEW ks \in Seq(Key), ks # << >>, NEW next \in Nat, NEW offset \in Nat, NEW cool
  PROVE  /\ Picked(ks, next, offset, cool) \in 1 .. Len(ks)
         /\ (\E i \in 1 .. Len(ks) : cool[ks[i]] = 0)
              => cool[ks[Picked(ks, next, offset, cool)]] = 0
<1>. DEFINE ready == Ready(ks, next, offset, cool)
<1>1. ready \subseteq Nat
  BY DEF Ready
<1>2. CASE ready = {}
  <2>1. \A k \in 0 .. Len(ks) - 1 : cool[ks[Scan(ks, next, offset, k)]] # 0
    BY <1>2 DEF Ready
  <2>2. \A i \in 1 .. Len(ks) : cool[ks[i]] # 0
    <3>. SUFFICES ASSUME NEW i \in 1 .. Len(ks) PROVE cool[ks[i]] # 0
      OBVIOUS
    <3>1. PICK k \in 0 .. Len(ks) - 1 : Scan(ks, next, offset, k) = i
      BY ScanReachesAll
    <3>. QED BY <2>1, <3>1
  <2>3. Picked(ks, next, offset, cool) = Scan(ks, next, offset, 0)
    BY <1>2 DEF Picked
  <2>. QED BY <2>2, <2>3, ScanInRange
<1>3. CASE ready # {}
  <2>1. Min(ready) \in ready
    BY <1>1, <1>3, MinNat
  <2>2. Picked(ks, next, offset, cool) = Scan(ks, next, offset, Min(ready))
    BY <1>3 DEF Picked
  <2>3. cool[ks[Scan(ks, next, offset, Min(ready))]] = 0
    BY <2>1 DEF Ready
  <2>4. Min(ready) \in Nat
    BY <1>1, <2>1
  <2>. HIDE DEF ready
  <2>. QED BY <2>2, <2>3, <2>4, ScanInRange
<1>. QED BY <1>2, <1>3

(* The range of a sequence: its elements, before and after an Append.      *)
LEMMA RangeOfSeq ==
  ASSUME NEW S, NEW s \in Seq(S)
  PROVE  /\ Range(s) \subseteq S
         /\ \A i \in 1 .. Len(s) : s[i] \in Range(s)
         /\ \A e \in S : Range(Append(s, e)) = Range(s) \cup {e}
<1>1. DOMAIN s = 1 .. Len(s) /\ Len(s) \in Nat
  OBVIOUS
<1>2. ASSUME NEW e \in S PROVE Range(Append(s, e)) = Range(s) \cup {e}
  <2>. DEFINE t == Append(s, e)
  <2>1. /\ DOMAIN t = 1 .. Len(s) + 1
        /\ t[Len(s) + 1] = e
        /\ \A i \in 1 .. Len(s) : t[i] = s[i]
    OBVIOUS
  <2>. HIDE DEF t
  <2>2. Range(t) \subseteq Range(s) \cup {e}
    BY <1>1, <2>1 DEF Range
  <2>3. Range(s) \cup {e} \subseteq Range(t)
    BY <1>1, <2>1 DEF Range
  <2>. QED BY <2>2, <2>3 DEF t
<1>3. Range(s) \subseteq S
  BY DEF Range
<1>4. \A i \in 1 .. Len(s) : s[i] \in Range(s)
  BY <1>1 DEF Range
<1>. QED BY <1>2, <1>3, <1>4

-----------------------------------------------------------------------------
(* The inductive invariant *)

(* The recursion of _do_request: the attempt number counts the calls, and  *)
(* stays below the length of the longest key list the request has seen.    *)
AttemptInv ==
  \A r \in Request :
    /\ pc[r] = "idle" => tried[r] = << >> /\ attempt[r] = 0
    /\ pc[r] # "idle" => Len(tried[r]) = attempt[r] + 1
    /\ pc[r] = "sent" => Len(keys) <= peak[r]
    /\ attempt[r] + 1 <= MaxOf(1, peak[r])

(* The keys a calm request has called with are different keys of the list; *)
(* the last is the one on the wire, and all others are still cooling down. *)
RotationOf(r) ==
  calm[r] =>
    /\ pc[r] # "idle"
    /\ IsInjective(tried[r])
    /\ pc[r] = "sent" =>
         /\ keys # << >>
         /\ Range(tried[r]) \subseteq Range(keys)
         /\ tried[r][attempt[r] + 1] = sent[r]
         /\ \A i \in 1 .. attempt[r] : cooling[tried[r][i]] > 0

RotationInv == \A r \in Request : RotationOf(r)

Inv == TypeOK /\ AttemptInv /\ RotationInv

(* What a call does, given the type invariant: the key put on the wire is  *)
(* one of the list, and one that is not cooling down if there is any.      *)
LEMMA CallSends ==
  ASSUME TypeOK, NEW r \in Request, NEW offset \in Nat,
         NEW cool \in [Key -> 0 .. Cooldown], Call(r, offset, cool)
  PROVE  /\ rr' \in Nat
         /\ sent' \in [Request -> Key \cup {NoKey}]
         /\ sent' = [sent EXCEPT ![r] = sent'[r]]
         /\ keys = << >> => sent'[r] = NoKey
         /\ keys # << >> => sent'[r] \in Range(keys) /\ sent'[r] \in Key
         /\ ~ AllCooling(cool) => cool[sent'[r]] = 0
<1>. keys \in Seq(Key) /\ rr \in Nat /\ sent \in [Request -> Key \cup {NoKey}]
  BY DEF TypeOK
<1>1. CASE keys = << >>
  <2>1. AllCooling(cool)
    BY <1>1 DEF AllCooling, Range
  <2>. QED BY <1>1, <2>1 DEF Call
<1>2. CASE keys # << >>
  <2>. DEFINE p == Picked(keys, rr, offset, cool)
  <2>1. /\ p \in 1 .. Len(keys)
        /\ (\E i \in 1 .. Len(keys) : cool[keys[i]] = 0) => cool[keys[p]] = 0
    BY <1>2, PickedIsReady
  <2>2. sent' = [sent EXCEPT ![r] = keys[p]] /\ rr' = p % Len(keys)
    BY <1>2 DEF Call
  <2>. HIDE DEF p
  <2>3. rr' \in Nat
    <3>1. Len(keys) \in Nat \ {0} /\ p \in Nat
      BY <1>2, <2>1
    <3>2. p % Len(keys) \in 0 .. Len(keys) - 1
      BY <3>1, ModRange
    <3>. QED BY <2>2, <3>1, <3>2
  <2>4. keys[p] \in Key /\ keys[p] \in Range(keys) /\ sent'[r] = keys[p]
    BY <2>1, <2>2 DEF Range
  <2>5. ~ AllCooling(cool) => cool[keys[p]] = 0
    <3>. SUFFICES ASSUME ~ AllCooling(cool) PROVE cool[keys[p]] = 0
      OBVIOUS
    <3>1. PICK k \in Range(keys) : ~ (cool[k] > 0)
      BY DEF AllCooling
    <3>2. PICK i \in 1 .. Len(keys) : keys[i] = k
      BY <3>1 DEF Range
    <3>3. cool[keys[i]] = 0
      BY <3>1, <3>2
    <3>. QED BY <2>1, <3>3
  <2>. QED BY <1>2, <2>2, <2>3, <2>4, <2>5
<1>. QED BY <1>1, <1>2

(* A mark keeps the cooldown table well formed, and cools nothing off.     *)
LEMMA MarkedCools ==
  ASSUME TypeOK, NEW r \in Request, NEW a \in Answers
  PROVE  /\ Marked(r, a) \in [Key -> 0 .. Cooldown]
         /\ \A k \in Key : cooling[k] > 0 => Marked(r, a)[k] > 0
         /\ a.status = 429 /\ sent[r] # NoKey => Marked(r, a)[sent[r]] > 0
BY CooldownAssumption DEF TypeOK, Marked

-----------------------------------------------------------------------------
(* The inductive invariant is one *)

LEMMA InitInv == Init => Inv
<1>. SUFFICES ASSUME Init PROVE Inv
  OBVIOUS
<1>1. TypeOK
  BY PoolAssumption, CooldownAssumption DEF Init, TypeOK, Kinds
<1>2. AttemptInv
  BY DEF Init, AttemptInv, MaxOf
<1>3. RotationInv
  BY DEF Init, RotationInv, RotationOf
<1>. QED BY <1>1, <1>2, <1>3 DEF Inv

LEMMA TypeStep == TypeOK /\ [Next]_vars => TypeOK'
<1>. SUFFICES ASSUME TypeOK, [Next]_vars PROVE TypeOK'
  OBVIOUS
<1>. USE DEF TypeOK
<1>1. ASSUME NEW r \in Request, Start(r) PROVE TypeOK'
  <2>1. Call(r, 0, cooling) /\ cooling \in [Key -> 0 .. Cooldown]
    BY <1>1 DEF Start
  <2>2. rr' \in Nat /\ sent' \in [Request -> Key \cup {NoKey}]
    BY <2>1, CallSends
  <2>3. tried' \in [Request -> Seq(Key \cup {NoKey})]
    <3>1. sent'[r] \in Key \cup {NoKey}
      BY <2>2
    <3>. QED BY <2>1, <3>1 DEF Call
  <2>4. pc' \in [Request -> {"idle", "sent"} \cup Terminal]
    BY <2>1 DEF Call
  <2>5. peak' \in [Request -> Nat]
    BY <2>1 DEF Call, MaxOf
  <2>. QED BY <1>1, <2>2, <2>3, <2>4, <2>5 DEF Start, Kinds
<1>2. ASSUME NEW r \in Request, NEW a \in Answers, Retry(r, a) PROVE TypeOK'
  <2>1. cooling' \in [Key -> 0 .. Cooldown]
    BY <1>2, MarkedCools DEF Retry
  <2>2. Call(r, attempt[r] + 1, cooling') /\ attempt[r] + 1 \in Nat
    BY <1>2 DEF Retry
  <2>3. rr' \in Nat /\ sent' \in [Request -> Key \cup {NoKey}]
    BY <2>1, <2>2, CallSends
  <2>4. tried' \in [Request -> Seq(Key \cup {NoKey})]
    <3>1. sent'[r] \in Key \cup {NoKey}
      BY <2>3
    <3>. QED BY <2>2, <3>1 DEF Call
  <2>5. pc' \in [Request -> {"idle", "sent"} \cup Terminal]
    BY <2>2 DEF Call
  <2>6. peak' \in [Request -> Nat]
    BY <2>2 DEF Call, MaxOf
  <2>. QED BY <1>2, <2>1, <2>2, <2>3, <2>4, <2>5, <2>6 DEF Retry
<1>3. ASSUME NEW r \in Request, NEW a \in Answers, GiveUp(r, a) PROVE TypeOK'
  BY <1>3 DEF GiveUp, history, Terminal
<1>4. ASSUME NEW r \in Request, NEW a \in Answers, Succeed(r, a) PROVE TypeOK'
  BY <1>4 DEF Succeed, history, Terminal
<1>5. ASSUME NEW r \in Request, Fault(r) PROVE TypeOK'
  BY <1>5 DEF Fault, history, Terminal
<1>6. CASE Tick
  BY <1>6, CooldownAssumption DEF Tick
<1>7. ASSUME NEW ks \in Pools, Reconfigure(ks) PROVE TypeOK'
  <2>1. Len(ks) \in Nat /\ keys' \in {l \in Seq(Key) : Len(l) <= MaxPool}
    BY <1>7, PoolAssumption DEF Reconfigure
  <2>2. peak' \in [Request -> Nat]
    BY <1>7, <2>1 DEF Reconfigure, MaxOf
  <2>. QED BY <1>7, <2>1, <2>2 DEF Reconfigure
<1>8. CASE UNCHANGED vars
  BY <1>8 DEF vars, code, history
<1>. QED BY <1>1, <1>2, <1>3, <1>4, <1>5, <1>6, <1>7, <1>8 DEF Next, Respond

LEMMA AttemptStep == TypeOK /\ AttemptInv /\ [Next]_vars => AttemptInv'
<1>. SUFFICES ASSUME TypeOK, AttemptInv, [Next]_vars PROVE AttemptInv'
  OBVIOUS
<1>. USE DEF TypeOK, AttemptInv, MaxOf
<1>1. ASSUME NEW r \in Request, Start(r) PROVE AttemptInv'
  BY <1>1 DEF Start, Call
<1>2. ASSUME NEW r \in Request, NEW a \in Answers, Retry(r, a) PROVE AttemptInv'
  <2>1. pc[r] = "sent" /\ attempt[r] < Len(keys) - 1 /\ Len(tried[r]) = attempt[r] + 1
    BY <1>2 DEF Retry, Retries
  <2>2. /\ attempt' = [attempt EXCEPT ![r] = @ + 1]
        /\ pc' = [pc EXCEPT ![r] = "sent"]
        /\ peak' = [peak EXCEPT ![r] = MaxOf(@, Len(keys))]
        /\ tried' = [tried EXCEPT ![r] = Append(@, sent'[r])]
        /\ keys' = keys
    BY <1>2 DEF Retry, Call
  <2>3. Len(tried'[r]) = attempt'[r] + 1
    BY <2>1, <2>2
  <2>. QED BY <2>1, <2>2, <2>3
<1>3. ASSUME NEW r \in Request, NEW a \in Answers, GiveUp(r, a) PROVE AttemptInv'
  BY <1>3 DEF GiveUp, history
<1>4. ASSUME NEW r \in Request, NEW a \in Answers, Succeed(r, a) PROVE AttemptInv'
  BY <1>4 DEF Succeed, history
<1>5. ASSUME NEW r \in Request, Fault(r) PROVE AttemptInv'
  BY <1>5 DEF Fault, history
<1>6. CASE Tick
  BY <1>6 DEF Tick
<1>7. ASSUME NEW ks \in Pools, Reconfigure(ks) PROVE AttemptInv'
  BY <1>7, PoolAssumption DEF Reconfigure
<1>8. CASE UNCHANGED vars
  BY <1>8 DEF vars, code, history
<1>. QED BY <1>1, <1>2, <1>3, <1>4, <1>5, <1>6, <1>7, <1>8 DEF Next, Respond

(* A request keeps what the invariant says of it while another one moves.  *)
LEMMA RotationElsewhere ==
  ASSUME Inv, NEW q \in Request,
         keys' = keys, calm'[q] = calm[q], tried'[q] = tried[q], pc'[q] = pc[q],
         sent'[q] = sent[q], attempt'[q] = attempt[q],
         \A k \in Key : cooling[k] > 0 => cooling'[k] > 0
  PROVE  RotationOf(q)'
<1>. SUFFICES ASSUME calm[q] PROVE RotationOf(q)'
  BY DEF RotationOf
<1>1. RotationOf(q) /\ keys \in Seq(Key) /\ attempt[q] \in Nat
  BY DEF Inv, RotationInv, TypeOK
<1>2. CASE pc[q] # "sent"
  BY <1>1, <1>2 DEF RotationOf
<1>3. CASE pc[q] = "sent"
  <2>1. Len(tried[q]) = attempt[q] + 1 /\ tried[q] \in Seq(Key \cup {NoKey})
    BY <1>3 DEF Inv, AttemptInv, TypeOK
  <2>2. Range(tried[q]) \subseteq Key
    BY <1>1, <1>3, RangeOfSeq DEF RotationOf
  <2>3. \A i \in 1 .. attempt[q] : tried[q][i] \in Key
    BY <1>1, <2>1, <2>2, RangeOfSeq
  <2>. QED BY <1>1, <1>3, <2>3 DEF RotationOf
<1>. QED BY <1>2, <1>3

LEMMA StartRotates ==
  ASSUME Inv, NEW r \in Request, Start(r)
  PROVE  RotationInv'
<1>. SUFFICES ASSUME NEW q \in Request PROVE RotationOf(q)'
  BY DEF RotationInv
<1>. TypeOK /\ AttemptInv
  BY DEF Inv
<1>1. CASE q # r
  <2>1. calm'[q] = calm[q]
    BY <1>1, Zenon DEF Start, TypeOK
  <2>2. Call(r, 0, cooling) /\ cooling' = cooling /\ keys' = keys /\ attempt' = attempt
    BY DEF Start
  <2>3. tried'[q] = tried[q] /\ pc'[q] = pc[q]
    BY <1>1, <2>2 DEF Call, TypeOK
  <2>4. sent'[q] = sent[q]
    BY <1>1, <2>2, CallSends DEF TypeOK
  <2>. QED BY <2>1, <2>2, <2>3, <2>4, RotationElsewhere
<1>2. CASE q = r
  <2>. SUFFICES ASSUME calm'[r] PROVE RotationOf(r)'
    BY <1>2 DEF RotationOf
  <2>1. Call(r, 0, cooling) /\ keys' = keys
    BY DEF Start
  <2>2. ~ AllCooling(cooling)
    BY Zenon DEF Start, TypeOK
  <2>3. keys # << >>
    BY <2>2 DEF AllCooling, Range
  <2>4. sent'[r] \in Range(keys)
    BY <2>1, <2>3, CallSends DEF TypeOK
  <2>5. tried'[r] = << sent'[r] >> /\ attempt'[r] = 0 /\ pc'[r] = "sent"
    <3>1. tried[r] = << >> /\ attempt[r] = 0
      BY DEF Start, AttemptInv
    <3>2. tried' = [tried EXCEPT ![r] = Append(@, sent'[r])] /\ pc' = [pc EXCEPT ![r] = "sent"]
      BY <2>1 DEF Call
    <3>. QED BY <3>1, <3>2 DEF Start, TypeOK
  <2>6. Range(tried'[r]) = {sent'[r]} /\ IsInjective(tried'[r])
    BY <2>5 DEF Range, IsInjective
  <2>. QED BY <2>1, <2>3, <2>4, <2>5, <2>6 DEF RotationOf
<1>. QED BY <1>1, <1>2

LEMMA RetryRotates ==
  ASSUME Inv, NEW r \in Request, NEW a \in Answers, Retry(r, a)
  PROVE  RotationInv'
<1>. SUFFICES ASSUME NEW q \in Request PROVE RotationOf(q)'
  BY DEF RotationInv
<1>. TypeOK /\ AttemptInv
  BY DEF Inv
<1>0. /\ cooling' = Marked(r, a)
      /\ cooling' \in [Key -> 0 .. Cooldown]
      /\ \A k \in Key : cooling[k] > 0 => cooling'[k] > 0
      /\ Call(r, attempt[r] + 1, cooling')
      /\ attempt[r] + 1 \in Nat
      /\ keys' = keys
  BY MarkedCools DEF Retry, TypeOK
<1>1. CASE q # r
  <2>1. calm'[q] = calm[q]
    BY <1>1, Zenon DEF Retry, TypeOK
  <2>2. tried'[q] = tried[q] /\ pc'[q] = pc[q]
    BY <1>0, <1>1 DEF Call, TypeOK
  <2>3. sent'[q] = sent[q]
    BY <1>0, <1>1, CallSends DEF TypeOK
  <2>4. attempt'[q] = attempt[q]
    BY <1>1 DEF Retry, TypeOK
  <2>. QED BY <1>0, <2>1, <2>2, <2>3, <2>4, RotationElsewhere
<1>2. CASE q = r
  <2>. DEFINE n == attempt[r] + 1
  <2>. SUFFICES ASSUME calm'[r] PROVE RotationOf(r)'
    BY <1>2 DEF RotationOf
  <2>1. calm'[r] = (calm[r] /\ a.status = 429 /\ ~ AllCooling(cooling'))
    BY Zenon DEF Retry, TypeOK
  <2>2. calm[r] /\ a.status = 429 /\ ~ AllCooling(cooling')
    BY <2>1, Zenon
  <2>3. /\ pc[r] = "sent" /\ RotationOf(r) /\ attempt'[r] = n /\ n \in Nat
        /\ tried[r] \in Seq(Key \cup {NoKey}) /\ Len(tried[r]) = n
        /\ keys \in Seq(Key)
    BY DEF Retry, TypeOK, AttemptInv, Inv, RotationInv
  <2>4. /\ keys # << >> /\ IsInjective(tried[r]) /\ tried[r][n] = sent[r]
        /\ Range(tried[r]) \subseteq Range(keys)
        /\ \A i \in 1 .. attempt[r] : cooling[tried[r][i]] > 0
    BY <2>2, <2>3 DEF RotationOf
  <2>. HIDE DEF n
  <2>5. \A i \in 1 .. n : tried[r][i] \in Key
    <3>1. Range(tried[r]) \subseteq Key
      BY <2>3, <2>4, RangeOfSeq
    <3>. QED BY <2>3, <3>1, RangeOfSeq
  <2>6. \A i \in 1 .. n : cooling'[tried[r][i]] > 0
    <3>1. n \in 1 .. n /\ \A i \in 1 .. n : i \in 1 .. attempt[r] \/ i = n
      BY <2>3 DEF n, TypeOK
    <3>2. sent[r] \in Key
      BY <2>4, <2>5, <3>1
    <3>3. cooling'[sent[r]] > 0
      BY <1>0, <2>2, <3>2, MarkedCools, KeyAssumption
    <3>. QED BY <1>0, <2>4, <2>5, <3>1, <3>3
  <2>7. sent'[r] \in Range(keys) /\ sent'[r] \in Key /\ cooling'[sent'[r]] = 0
    BY <1>0, <2>2, <2>4, CallSends
  <2>8. tried'[r] = Append(tried[r], sent'[r]) /\ pc'[r] = "sent"
    BY <1>0 DEF Call, TypeOK
  <2>9. /\ DOMAIN tried'[r] = 1 .. n + 1
        /\ tried'[r][n + 1] = sent'[r]
        /\ \A i \in 1 .. n : tried'[r][i] = tried[r][i]
    BY <2>3, <2>7, <2>8
  <2>10. IsInjective(tried'[r])
    <3>1. \A i \in 1 .. n : tried'[r][i] # sent'[r]
      BY <2>6, <2>7, <2>9
    <3>2. \A i, j \in 1 .. n : tried'[r][i] = tried'[r][j] => i = j
      BY <2>3, <2>4, <2>9 DEF IsInjective
    <3>. QED BY <2>3, <2>9, <3>1, <3>2 DEF IsInjective
  <2>11. Range(tried'[r]) \subseteq Range(keys)
    <3>1. sent'[r] \in Key \cup {NoKey}
      BY <2>7
    <3>. QED BY <2>3, <2>4, <2>7, <2>8, <3>1, RangeOfSeq
  <2>. QED BY <1>0, <2>3, <2>4, <2>6, <2>8, <2>9, <2>10, <2>11 DEF RotationOf
<1>. QED BY <1>1, <1>2

LEMMA RotationStep == Inv /\ [Next]_vars => RotationInv'
<1>. SUFFICES ASSUME Inv, [Next]_vars PROVE RotationInv'
  OBVIOUS
<1>. USE DEF Inv, TypeOK, RotationInv, RotationOf
<1>1. ASSUME NEW r \in Request, NEW a \in Answers, GiveUp(r, a) PROVE RotationInv'
  BY <1>1 DEF GiveUp, history
<1>2. ASSUME NEW r \in Request, NEW a \in Answers, Succeed(r, a) PROVE RotationInv'
  BY <1>2 DEF Succeed, history
<1>3. ASSUME NEW r \in Request, Fault(r) PROVE RotationInv'
  BY <1>3 DEF Fault, history
<1>4. CASE Tick
  BY <1>4 DEF Tick
<1>5. ASSUME NEW ks \in Pools, Reconfigure(ks) PROVE RotationInv'
  BY <1>5 DEF Reconfigure
<1>6. CASE UNCHANGED vars
  BY <1>6 DEF vars, code, history
<1>. QED
  BY <1>1, <1>2, <1>3, <1>4, <1>5, <1>6, StartRotates, RetryRotates DEF Next, Respond

-----------------------------------------------------------------------------
(* The theorems *)

LEMMA Invariance == Spec => []Inv
<1>1. Inv /\ [Next]_vars => Inv'
  BY TypeStep, AttemptStep, RotationStep DEF Inv
<1>. QED BY InitInv, <1>1, PTL DEF Spec

(* The variables of the key pool keep their types. *)
THEOREM TypeCorrect == Spec => []TypeOK
<1>1. Inv => TypeOK
  BY DEF Inv
<1>. QED BY Invariance, <1>1, PTL

(* The failover of _do_request ends, also while the pool is being edited:  *)
(* no request makes more calls than the longest key list it saw has keys.  *)
THEOREM FailoverEnds == Spec => []AttemptsBounded
<1>1. Inv => AttemptsBounded
  <2>. SUFFICES ASSUME Inv, NEW r \in Request
                PROVE  /\ Len(tried[r]) <= MaxOf(1, peak[r])
                       /\ pc[r] # "idle" => Len(tried[r]) = attempt[r] + 1
    BY DEF AttemptsBounded
  <2>. QED BY DEF Inv, AttemptInv, TypeOK, MaxOf
<1>. QED BY Invariance, <1>1, PTL

(* A request whose choice of keys only its own rate limits have touched    *)
(* never calls with a key a second time.                                   *)
THEOREM NeverTwice == Spec => []NoRepeatWhenLimited
<1>1. Inv => NoRepeatWhenLimited
  BY DEF Inv, RotationInv, RotationOf, NoRepeatWhenLimited
<1>. QED BY Invariance, <1>1, PTL

(* Every call leaves with a key of the list in force, and with one that is *)
(* not cooling down unless all are.                                        *)
LEMMA ReadyStep ==
  ASSUME Inv, NEW r \in Request, [Next]_vars, tried'[r] # tried[r]
  PROVE  \/ keys = << >> /\ sent'[r] = NoKey
         \/ /\ sent'[r] \in Range(keys)
            /\ cooling'[sent'[r]] > 0 => AllCooling(cooling')
<1>. TypeOK
  BY DEF Inv
<1>1. ASSUME NEW offset \in Nat, Call(r, offset, cooling'), cooling' \in [Key -> 0 .. Cooldown]
      PROVE  \/ keys = << >> /\ sent'[r] = NoKey
             \/ /\ sent'[r] \in Range(keys)
                /\ cooling'[sent'[r]] > 0 => AllCooling(cooling')
  BY <1>1, CallSends
<1>2. ASSUME NEW q \in Request, Start(q) PROVE Call(r, 0, cooling') /\ cooling' = cooling
  <2>1. tried' = [tried EXCEPT ![q] = Append(@, sent'[q])]
    BY <1>2 DEF Start, Call
  <2>2. q = r
    BY <2>1 DEF TypeOK
  <2>. QED BY <1>2, <2>2 DEF Start
<1>3. ASSUME NEW q \in Request, NEW a \in Answers, Retry(q, a)
      PROVE  Call(r, attempt[r] + 1, cooling') /\ cooling' \in [Key -> 0 .. Cooldown]
  <2>1. tried' = [tried EXCEPT ![q] = Append(@, sent'[q])]
    BY <1>3 DEF Retry, Call
  <2>2. q = r
    BY <2>1 DEF TypeOK
  <2>. QED BY <1>3, <2>2, MarkedCools DEF Retry
<1>4. attempt[r] + 1 \in Nat /\ 0 \in Nat /\ cooling \in [Key -> 0 .. Cooldown]
  BY DEF TypeOK
<1>5. \E q \in Request : Start(q) \/ \E a \in Answers : Retry(q, a)
  BY DEF Next, Respond, GiveUp, Succeed, Fault, Tick, Reconfigure, vars, code, history
<1>. QED BY <1>1, <1>2, <1>3, <1>4, <1>5

(* No call with a withdrawn key, and none with a key that is cooling down  *)
(* while another is ready.                                                 *)
THEOREM CallsAreReady == Spec => CallsUseReadyKeys
<1>1. Inv /\ [Next]_vars =>
        [\A r \in Request :
           tried'[r] # tried[r] =>
             \/ keys = << >> /\ sent'[r] = NoKey
             \/ /\ sent'[r] \in Range(keys)
                /\ cooling'[sent'[r]] > 0 => AllCooling(cooling')]_vars
  BY ReadyStep
<1>. QED BY Invariance, <1>1, PTL DEF Spec, CallsUseReadyKeys

(* A duplicate-free walk through the list that is as long as the list has  *)
(* met all its members.                                                    *)
LEMMA WalkMeetsAll ==
  ASSUME NEW S, NEW l \in Seq(S), NEW w \in Seq(S),
         IsInjective(w), Range(w) \subseteq Range(l), Len(l) <= Len(w)
  PROVE  Range(w) = Range(l)
<1>. DEFINE T == Range(l)
            n == Len(l)
            m == Len(w)
<1>1. n \in Nat /\ m \in Nat /\ n <= m
  OBVIOUS
<1>2. l \in Surjection(1 .. n, T) /\ w \in Injection(1 .. m, T)
  <2>1. l \in [1 .. n -> T] /\ w \in [1 .. m -> T]
    BY DEF Range
  <2>2. \A t \in T : \E i \in 1 .. n : l[i] = t
    BY DEF Range
  <2>. QED BY <2>1, <2>2 DEF Surjection, Injection, IsInjective
<1>. HIDE DEF n, m
<1>3. /\ IsFiniteSet(1 .. n) /\ Cardinality(1 .. n) = n
      /\ IsFiniteSet(1 .. m) /\ Cardinality(1 .. m) = m
  BY <1>1, FS_Interval
<1>4. IsFiniteSet(T) /\ Cardinality(T) <= n
  BY <1>2, <1>3, FS_Surjection
<1>5. m <= Cardinality(T) /\ Cardinality(T) \in Nat
  BY <1>2, <1>3, <1>4, FS_Injection, FS_CardinalityType
<1>6. Cardinality(1 .. m) = Cardinality(T)
  BY <1>1, <1>3, <1>4, <1>5
<1>7. w \in Surjection(1 .. m, T)
  BY <1>2, <1>4, <1>6, FS_Injection
<1>. QED BY <1>7 DEF Surjection, Range

LEMMA LimitedStep ==
  ASSUME Inv, NEW r \in Request, [Next]_vars,
         pc[r] = "sent", pc'[r] = "limited", kind[r] = "chat", calm[r]
  PROVE  Range(keys) \subseteq Range(tried[r])
<1>. TypeOK /\ AttemptInv /\ RotationOf(r)
  BY DEF Inv, RotationInv
<1>1. PICK a \in Answers : GiveUp(r, a) /\ a.status = 429
  BY DEF Next, Respond, Start, Retry, Call, GiveUp, Succeed, Fault, Tick, Reconfigure,
         vars, code, TypeOK
<1>2. Len(keys) <= attempt[r] + 1
  BY <1>1 DEF GiveUp, Retries, TypeOK
<1>3. Len(tried[r]) = attempt[r] + 1 /\ IsInjective(tried[r]) /\ Range(tried[r]) \subseteq Range(keys)
  BY DEF AttemptInv, RotationOf
<1>4. keys \in Seq(Key \cup {NoKey}) /\ tried[r] \in Seq(Key \cup {NoKey})
  BY DEF TypeOK
<1>. QED BY <1>2, <1>3, <1>4, WalkMeetsAll

(* A request that gives up on a rate limit has asked every key there is.   *)
THEOREM AllKeysTried == Spec => LimitedMeansAllTried
<1>1. Inv /\ [Next]_vars =>
        [\A r \in Request :
           pc[r] = "sent" /\ pc'[r] = "limited" /\ kind[r] = "chat" /\ calm[r]
             => Range(keys) \subseteq Range(tried[r])]_vars
  BY LimitedStep
<1>. QED BY Invariance, <1>1, PTL DEF Spec, LimitedMeansAllTried

-----------------------------------------------------------------------------
(* Round robin *)

Users(k) == {r \in Request : tried[r] # << >> /\ Head(tried[r]) = k}

(* Until the first retry or edit no key cools down, so each first call     *)
(* takes the key after the one before, and the counter tells which keys    *)
(* are one call ahead.                                                     *)
Level(q) == \A i \in 1 .. Len(keys) : Uses(keys[i]) = IF i <= rr THEN q + 1 ELSE q

TurnInv ==
  steady =>
    /\ \A k \in Key : cooling[k] = 0 /\ IsFiniteSet(Users(k))
    /\ IsInjective(keys) /\ keys # << >> => rr < Len(keys) /\ \E q \in Nat : Level(q)

LEMMA InitTurn == Init => TurnInv
<1>. SUFFICES ASSUME Init PROVE TurnInv
  OBVIOUS
<1>1. \A k : Users(k) = {}
  BY DEF Init, Users
<1>2. \A k : IsFiniteSet(Users(k)) /\ Uses(k) = 0
  BY <1>1, FS_EmptySet, Zenon DEF Uses, Users
<1>3. keys \in Seq(Key)
  BY PoolAssumption DEF Init
<1>4. Level(0)
  BY <1>2, <1>3 DEF Init, Level
<1>. QED BY <1>2, <1>3, <1>4 DEF Init, TurnInv

(* With no key cooling down, pick_key takes the key the counter points at. *)
LEMMA PickedInTurn ==
  ASSUME NEW ks \in Seq(Key), NEW next \in 0 .. Len(ks) - 1, NEW cool,
         \A k \in Key : cool[k] = 0
  PROVE  Picked(ks, next, 0, cool) = next + 1
<1>. DEFINE n == Len(ks)
            ready == Ready(ks, next, 0, cool)
<1>1. n \in Nat \ {0} /\ ks # << >>
  OBVIOUS
<1>2. ready = 0 .. n - 1
  <2>1. ASSUME NEW k \in 0 .. n - 1 PROVE ks[Scan(ks, next, 0, k)] \in Key
    <3>1. k \in Nat /\ next \in Nat /\ 0 \in Nat
      OBVIOUS
    <3>2. Scan(ks, next, 0, k) \in 1 .. Len(ks)
      BY <1>1, <3>1, ScanInRange
    <3>. QED BY <3>2
  <2>. QED BY <2>1 DEF Ready
<1>3. ready # {} /\ ready \subseteq Nat /\ 0 \in ready
  BY <1>1, <1>2
<1>4. Min(ready) = 0
  <2>1. Min(ready) \in ready /\ Min(ready) <= 0
    BY <1>3, MinNat
  <2>2. Min(ready) \in Nat
    BY <1>3, <2>1
  <2>. HIDE DEF ready
  <2>. QED BY <2>1, <2>2
<1>5. Picked(ks, next, 0, cool) = Scan(ks, next, 0, 0)
  BY <1>3, <1>4, Zenon DEF Picked
<1>6. Scan(ks, next, 0, 0) = next + 1
  <2>. HIDE DEF n
  <2>1. Scan(ks, next, 0, 0) = ((((next + 0) % n) + 0) % n) + 1
    BY DEF Scan, n
  <2>2. next \in 0 .. n - 1 /\ next + 0 = next /\ next % n = next
    BY <1>1, ModSmall DEF n
  <2>. QED BY <2>1, <2>2
<1>. QED BY <1>5, <1>6

(* The first call of a request is one more use of its key.                 *)
LEMMA OneMoreUse ==
  ASSUME TypeOK, NEW r \in Request, tried[r] = << >>,
         sent'[r] \in Key \cup {NoKey},
         tried' = [tried EXCEPT ![r] = Append(@, sent'[r])],
         NEW k, IsFiniteSet(Users(k))
  PROVE  /\ IsFiniteSet(Users(k)')
         /\ Uses(k)' = IF k = sent'[r] THEN Uses(k) + 1 ELSE Uses(k)
         /\ Uses(k) \in Nat
<1>. DEFINE s == sent'[r]
<1>1. /\ tried'[r] # << >> /\ Head(tried'[r]) = s
      /\ \A q \in Request : q # r => tried'[q] = tried[q]
  BY DEF TypeOK
<1>2. r \notin Users(k)
  BY DEF Users
<1>3. Users(k)' = IF k = s THEN Users(k) \cup {r} ELSE Users(k)
  <2>1. ASSUME NEW q \in Request
        PROVE  q \in Users(k)' <=> q \in Users(k) \/ (q = r /\ k = s)
    BY <1>1, <1>2 DEF Users
  <2>2. Users(k)' \subseteq Request /\ Users(k) \subseteq Request
    BY DEF Users
  <2>. HIDE DEF s
  <2>. QED BY <2>1, <2>2
<1>4. Uses(k) = Cardinality(Users(k)) /\ Uses(k)' = Cardinality(Users(k)')
  BY DEF Uses, Users
<1>5. /\ IsFiniteSet(Users(k) \cup {r})
      /\ Cardinality(Users(k) \cup {r}) = Cardinality(Users(k)) + 1
      /\ Cardinality(Users(k)) \in Nat
  BY <1>2, FS_AddElement, FS_CardinalityType
<1>. QED BY <1>3, <1>4, <1>5

LEMMA StartTurn ==
  ASSUME Inv, TurnInv, NEW r \in Request, Start(r)
  PROVE  TurnInv'
<1>. SUFFICES ASSUME steady' PROVE TurnInv'
  BY DEF TurnInv
<1>0. TypeOK /\ steady /\ keys' = keys /\ cooling' = cooling /\ keys \in Seq(Key)
  BY DEF Inv, TypeOK, Start
<1>1. tried[r] = << >> /\ tried' = [tried EXCEPT ![r] = Append(@, sent'[r])]
  BY DEF Inv, AttemptInv, Start, Call
<1>2. sent'[r] \in Key \cup {NoKey}
  BY <1>0, CallSends DEF Start, TypeOK
<1>3. \A k \in Key : cooling[k] = 0 /\ IsFiniteSet(Users(k))
  BY <1>0 DEF TurnInv
<1>4. \A k \in Key : /\ IsFiniteSet(Users(k)')
                     /\ Uses(k)' = IF k = sent'[r] THEN Uses(k) + 1 ELSE Uses(k)
  BY <1>0, <1>1, <1>2, <1>3, OneMoreUse
<1>5. ASSUME IsInjective(keys), keys # << >>
      PROVE  rr' < Len(keys) /\ \E q \in Nat : Level(q)'
  <2>. DEFINE n == Len(keys)
  <2>1. n \in Nat \ {0}
    BY <1>0, <1>5
  <2>2. rr \in 0 .. n - 1
    BY <1>0, <1>5, <2>1 DEF TurnInv, TypeOK
  <2>3. PICK q \in Nat : Level(q)
    BY <1>0, <1>5 DEF TurnInv
  <2>4. Picked(keys, rr, 0, cooling) = rr + 1
    BY <1>0, <1>3, <2>2, PickedInTurn
  <2>5. sent'[r] = keys[rr + 1] /\ rr' = (rr + 1) % n
    BY <1>0, <1>5, <2>4 DEF Start, Call, TypeOK
  <2>. HIDE DEF n
  <2>6. ASSUME NEW i \in 1 .. n
        PROVE  Uses(keys[i])' = IF i <= rr + 1 THEN q + 1 ELSE q
    <3>1. keys[i] \in Key /\ rr + 1 \in 1 .. n
      BY <1>0, <2>1, <2>2 DEF n
    <3>2. keys[i] = keys[rr + 1] <=> i = rr + 1
      BY <1>0, <1>5, <3>1 DEF IsInjective, n
    <3>3. Uses(keys[i]) = IF i <= rr THEN q + 1 ELSE q
      BY <2>3 DEF Level, n
    <3>4. \A k \in Key : Uses(k)' = IF k = sent'[r] THEN Uses(k) + 1 ELSE Uses(k)
      BY <1>4
    <3>5. Uses(keys[i])' = IF keys[i] = sent'[r] THEN Uses(keys[i]) + 1 ELSE Uses(keys[i])
      <4>1. PICK k \in Key : k = keys[i]
        BY <3>1
      <4>2. keys[i]' = k
        BY <1>0, <4>1
      <4>. QED BY <3>4, <4>1, <4>2 DEF Uses
    <3>. QED BY <2>2, <2>5, <3>2, <3>3, <3>5
  <2>7. CASE rr + 1 < n
    <3>1. rr' = rr + 1
      BY <2>1, <2>2, <2>5, <2>7, ModSmall
    <3>2. Level(q)'
      BY <1>0, <2>6, <3>1 DEF Level, n
    <3>. QED BY <2>7, <3>1, <3>2 DEF n
  <2>8. CASE rr + 1 = n
    <3>1. rr' = 0
      BY <2>1, <2>5, <2>8
    <3>2. Level(q + 1)'
      BY <1>0, <2>1, <2>6, <2>8, <3>1 DEF Level, n
    <3>. QED BY <2>1, <3>1, <3>2 DEF n
  <2>. QED BY <2>1, <2>2, <2>7, <2>8
<1>. QED BY <1>0, <1>3, <1>4, <1>5 DEF TurnInv

LEMMA StepTurn == Inv /\ TurnInv /\ [Next]_vars => TurnInv'
<1>. SUFFICES ASSUME Inv, TurnInv, [Next]_vars, steady' PROVE TurnInv'
  BY DEF TurnInv
<1>1. ASSUME NEW r \in Request, Start(r) PROVE TurnInv'
  BY <1>1, StartTurn
<1>2. ASSUME UNCHANGED << keys, rr, tried, steady, cooling >> PROVE TurnInv'
  BY <1>2 DEF TurnInv, Level, Uses, Users
<1>3. ASSUME NEW r \in Request, NEW a \in Answers, GiveUp(r, a) \/ Succeed(r, a) PROVE TurnInv'
  BY <1>2, <1>3 DEF GiveUp, Succeed, history
<1>4. ASSUME NEW r \in Request, Fault(r) PROVE TurnInv'
  BY <1>2, <1>4 DEF Fault, history
<1>5. CASE Tick
  <2>1. steady /\ \E k \in Key : cooling[k] > 0
    BY <1>5 DEF Tick
  <2>. QED BY <2>1 DEF TurnInv
<1>6. ASSUME NEW r \in Request, NEW a \in Answers, Retry(r, a) PROVE FALSE
  BY <1>6 DEF Retry
<1>7. ASSUME NEW ks \in Pools, Reconfigure(ks) PROVE FALSE
  BY <1>7 DEF Reconfigure
<1>8. CASE UNCHANGED vars
  BY <1>2, <1>8 DEF vars, code, history
<1>. QED BY <1>1, <1>3, <1>4, <1>5, <1>6, <1>7, <1>8 DEF Next, Respond

(* Round robin is fair: whatever the requests and their answers, as long   *)
(* as no call has been retried and the pool has not been edited, no key    *)
(* has carried more than one first call more than another.                 *)
THEOREM RoundRobinIsFair == Spec => []Balanced
<1>1. Inv /\ [Next]_vars => Inv'
  BY TypeStep, AttemptStep, RotationStep DEF Inv
<1>2. Inv /\ TurnInv => Balanced
  <2>. SUFFICES ASSUME Inv, TurnInv, steady, IsInjective(keys),
                       NEW k \in Range(keys), NEW l \in Range(keys)
                PROVE  Uses(k) <= Uses(l) + 1
    BY DEF Balanced
  <2>1. keys \in Seq(Key)
    BY DEF Inv, TypeOK
  <2>2. PICK i \in 1 .. Len(keys), j \in 1 .. Len(keys) : keys[i] = k /\ keys[j] = l
    BY <2>1 DEF Range
  <2>3. keys # << >>
    BY <2>1, <2>2
  <2>4. PICK q \in Nat : Level(q)
    BY <2>3 DEF TurnInv
  <2>5. Uses(k) \in {q, q + 1} /\ Uses(l) \in {q, q + 1}
    BY <2>2, <2>4 DEF Level
  <2>. QED BY <2>5
<1>3. Spec => [](Inv /\ TurnInv)
  BY InitInv, InitTurn, <1>1, StepTurn, PTL DEF Spec
<1>. QED BY <1>2, <1>3, PTL
=============================================================================
