--------------------------- MODULE DispatchProofs ---------------------------
(***************************************************************************)
(* Proofs about ResponseCache and about Dispatch, which extends it.        *)
(*                                                                         *)
(* Of the cache (Spec): the type invariant, the agreement of the two       *)
(* halves of the OrderedDict, eviction of the least recently used key, and *)
(* the implementation of LossyCache.                                       *)
(*                                                                         *)
(* Of the routes (DispatchSpec): the type invariant, the accounting of     *)
(* answers, the return of connections, the separation of answers, the      *)
(* promise of the shared cache and the contract with the clients           *)
(* (Service), for any number of requests, prompts, connections, chunks and *)
(* crashes, and for any size and lifetime of the cache.  The invariant has *)
(* three parts: what is proved of the cache (Inv), what a slot of it may   *)
(* hold (Kept), and what is true of each request at the place where it     *)
(* stands (Sound).                                                         *)
(***************************************************************************)
EXTENDS Dispatch, SequenceTheorems, FiniteSetTheorems, TLAPS

-----------------------------------------------------------------------------
(* The cache *)

(* Whoever stands further back in the order has been used more recently.   *)
Ordered(o, R) == \A i, j \in 1 .. Len(o) : i < j => << o[i], o[j] >> \in R

Inv == TypeOK /\ Consistent /\ Ordered(order, older)

-----------------------------------------------------------------------------
(* Sequences without repetitions *)

(* Removing a position closes the gap and keeps everything else in place.  *)
LEMMA CutElements ==
  ASSUME NEW S, NEW o \in Seq(S), NEW i \in 1 .. Len(o)
  PROVE  /\ RemoveAt(o, i) \in Seq(S)
         /\ Len(RemoveAt(o, i)) = Len(o) - 1
         /\ \A k \in 1 .. Len(o) - 1 :
              RemoveAt(o, i)[k] = o[IF k < i THEN k ELSE k + 1]
<1> DEFINE front == SubSeq(o, 1, i - 1)
           back  == SubSeq(o, i + 1, Len(o))
<1>1. Len(o) \in Nat /\ i \in Nat /\ i >= 1 /\ i <= Len(o)
  BY LenProperties
<1>2. front \in Seq(S) /\ Len(front) = i - 1 /\ \A k \in 1 .. i - 1 : front[k] = o[k]
  <2>1. CASE i = 1
    BY <1>1, <2>1, SubSeqProperties, SMT
  <2>2. CASE i > 1
    BY <1>1, <2>2, SubSeqProperties, SMT
  <2> QED BY <1>1, <2>1, <2>2
<1>3. /\ back \in Seq(S)
      /\ Len(back) = Len(o) - i
      /\ \A k \in 1 .. Len(o) - i : back[k] = o[k + i]
  <2>1. CASE i = Len(o)
    BY <1>1, <2>1, SubSeqProperties, SMT
  <2>2. CASE i < Len(o)
    BY <1>1, <2>2, SubSeqProperties, SMT
  <2> QED BY <1>1, <2>1, <2>2
<1>4. RemoveAt(o, i) = front \o back
  BY DEF RemoveAt
<1> HIDE DEF front, back
<1>5. /\ front \o back \in Seq(S)
      /\ Len(front \o back) = Len(o) - 1
      /\ \A k \in 1 .. Len(o) - 1 :
           (front \o back)[k] = IF k <= i - 1 THEN front[k] ELSE back[k - (i - 1)]
  <2>1. /\ front \o back \in Seq(S)
        /\ Len(front \o back) = Len(front) + Len(back)
        /\ \A k \in 1 .. Len(front) + Len(back) :
             (front \o back)[k] = IF k <= Len(front) THEN front[k] ELSE back[k - Len(front)]
    BY <1>2, <1>3, ConcatProperties
  <2>2. Len(front) + Len(back) = Len(o) - 1
    BY <1>1, <1>2, <1>3
  <2>3. Len(front) = i - 1
    BY <1>2
  <2> QED BY <2>1, <2>2, <2>3
<1>6. \A k \in 1 .. Len(o) - 1 :
        (front \o back)[k] = o[IF k < i THEN k ELSE k + 1]
  <2> TAKE k \in 1 .. Len(o) - 1
  <2>1. CASE k < i
    BY <1>1, <1>2, <1>5, <2>1, SMT
  <2>2. CASE k >= i
    <3>1. k - (i - 1) \in 1 .. Len(o) - i
      BY <1>1, <2>2, SMT
    <3>2. back[k - (i - 1)] = o[(k - (i - 1)) + i]
      BY <1>3, <3>1
    <3>3. (k - (i - 1)) + i = k + 1
      BY <1>1, SMT
    <3>4. (front \o back)[k] = back[k - (i - 1)]
      BY <1>1, <1>5, <2>2, SMT
    <3> QED BY <2>2, <3>2, <3>3, <3>4, <1>1, SMT
  <2>3. k < i \/ k >= i
    BY <1>1
  <2> QED BY <2>1, <2>2, <2>3
<1> QED BY <1>4, <1>5, <1>6

LEMMA Cut ==
  ASSUME NEW S, NEW o \in Seq(S), IsInjective(o), NEW i \in 1 .. Len(o),
         NEW R, Ordered(o, R)
  PROVE  /\ RemoveAt(o, i) \in Seq(S)
         /\ Len(RemoveAt(o, i)) = Len(o) - 1
         /\ IsInjective(RemoveAt(o, i))
         /\ Range(RemoveAt(o, i)) = Range(o) \ {o[i]}
         /\ Ordered(RemoveAt(o, i), R)
<1> DEFINE w == RemoveAt(o, i)
           old(k) == IF k < i THEN k ELSE k + 1
<1>1. /\ w \in Seq(S)
      /\ Len(w) = Len(o) - 1
      /\ \A k \in 1 .. Len(o) - 1 : w[k] = o[old(k)]
  BY CutElements
<1>2. DOMAIN w = 1 .. Len(o) - 1 /\ DOMAIN o = 1 .. Len(o) /\ Len(o) \in Nat
  BY <1>1, LenProperties
<1>3. /\ \A k \in 1 .. Len(o) - 1 : old(k) \in 1 .. Len(o) /\ old(k) # i
      /\ \A j, k \in 1 .. Len(o) - 1 : j < k <=> old(j) < old(k)
      /\ \A k \in 1 .. Len(o) : k # i => \E j \in 1 .. Len(o) - 1 : old(j) = k
  <2>1. \A k \in 1 .. Len(o) : k # i => \E j \in 1 .. Len(o) - 1 : old(j) = k
    <3> SUFFICES ASSUME NEW k \in 1 .. Len(o), k # i
                 PROVE  \E j \in 1 .. Len(o) - 1 : old(j) = k
      OBVIOUS
    <3>1. CASE k < i
      <4> WITNESS k \in 1 .. Len(o) - 1
      <4> QED BY <3>1
    <3>2. CASE k > i
      <4>1. k - 1 \in 1 .. Len(o) - 1
        BY <1>2, <3>2
      <4> WITNESS k - 1 \in 1 .. Len(o) - 1
      <4> QED BY <1>2, <3>2
    <3> QED BY <1>2, <3>1, <3>2
  <2> QED BY <1>2, <2>1
<1> HIDE DEF w, old
<1>4. IsInjective(w)
  <2> SUFFICES ASSUME NEW j \in 1 .. Len(o) - 1, NEW k \in 1 .. Len(o) - 1, w[j] = w[k]
               PROVE  j = k
    BY <1>2 DEF IsInjective
  <2>1. old(j) = old(k)
    BY <1>1, <1>2, <1>3 DEF IsInjective
  <2> QED BY <1>2, <1>3, <2>1
<1>5. Range(w) = Range(o) \ {o[i]}
  <2>1. ASSUME NEW x \in Range(w) PROVE x \in Range(o) \ {o[i]}
    <3>1. PICK k \in 1 .. Len(o) - 1 : x = w[k]
      BY <1>2, <2>1 DEF Range
    <3>2. x = o[old(k)] /\ old(k) \in DOMAIN o /\ old(k) # i
      BY <1>1, <1>2, <1>3, <3>1
    <3> QED BY <1>2, <3>2 DEF Range, IsInjective
  <2>2. ASSUME NEW x \in Range(o), x # o[i] PROVE x \in Range(w)
    <3>1. PICK k \in 1 .. Len(o) : x = o[k]
      BY <1>2 DEF Range
    <3>2. k # i
      BY <2>2, <3>1
    <3>3. PICK j \in 1 .. Len(o) - 1 : old(j) = k
      BY <1>3, <3>2
    <3> QED BY <1>1, <1>2, <3>1, <3>3 DEF Range
  <2> QED BY <2>1, <2>2
<1>6. Ordered(w, R)
  <2> SUFFICES ASSUME NEW j \in 1 .. Len(o) - 1, NEW k \in 1 .. Len(o) - 1, j < k
               PROVE  << w[j], w[k] >> \in R
    BY <1>1 DEF Ordered
  <2> QED BY <1>1, <1>3 DEF Ordered
<1> QED BY <1>1, <1>4, <1>5, <1>6 DEF w

(* Tail is the removal of the first position.                              *)
LEMMA CutFirst ==
  ASSUME NEW S, NEW o \in Seq(S), o # << >>
  PROVE  Tail(o) = RemoveAt(o, 1) /\ Head(o) = o[1] /\ 1 \in 1 .. Len(o)
<1>1. Len(o) \in Nat /\ Len(o) >= 1
  BY EmptySeq, LenProperties
<1>2. /\ Tail(o) \in Seq(S)
      /\ Len(Tail(o)) = Len(o) - 1
      /\ \A k \in 1 .. Len(o) - 1 : Tail(o)[k] = o[k + 1]
  BY <1>1, HeadTailProperties
<1>3. /\ RemoveAt(o, 1) \in Seq(S)
      /\ Len(RemoveAt(o, 1)) = Len(o) - 1
      /\ \A k \in 1 .. Len(o) - 1 : RemoveAt(o, 1)[k] = o[k + 1]
  BY <1>1, CutElements
<1>4. Tail(o) = RemoveAt(o, 1)
  BY <1>1, <1>2, <1>3, SeqEqual
<1> QED BY <1>1, <1>4

(* What has just been used is put at the end.                              *)
LEMMA Push ==
  ASSUME NEW S, NEW o \in Seq(S), IsInjective(o), NEW s \in S, s \notin Range(o),
         NEW R, Ordered(o, R)
  PROVE  /\ Append(o, s) \in Seq(S)
         /\ Len(Append(o, s)) = Len(o) + 1
         /\ IsInjective(Append(o, s))
         /\ Range(Append(o, s)) = Range(o) \cup {s}
         /\ Ordered(Append(o, s), {p \in R : p[1] # s} \cup ((S \ {s}) \X {s}))
<1> DEFINE w == Append(o, s)
           Q == {p \in R : p[1] # s} \cup ((S \ {s}) \X {s})
<1>1. /\ w \in Seq(S)
      /\ Len(w) = Len(o) + 1
      /\ \A k \in 1 .. Len(o) : w[k] = o[k]
      /\ w[Len(o) + 1] = s
  BY AppendProperties
<1>2. /\ DOMAIN w = 1 .. Len(o) + 1
      /\ DOMAIN o = 1 .. Len(o)
      /\ Len(o) \in Nat
      /\ \A k \in 1 .. Len(o) : o[k] \in S /\ o[k] # s
  BY <1>1, LenProperties, ElementOfSeq DEF Range
<1> HIDE DEF w
<1>3. IsInjective(w)
  BY <1>1, <1>2 DEF IsInjective
<1>4. Range(w) = Range(o) \cup {s}
  <2>1. ASSUME NEW x \in Range(w) PROVE x \in Range(o) \cup {s}
    BY <1>1, <1>2 DEF Range
  <2>2. ASSUME NEW x \in Range(o) \cup {s} PROVE x \in Range(w)
    BY <1>1, <1>2 DEF Range
  <2> QED BY <2>1, <2>2
<1>5. Ordered(w, Q)
  <2> SUFFICES ASSUME NEW i \in 1 .. Len(o) + 1, NEW j \in 1 .. Len(o) + 1, i < j
               PROVE  << w[i], w[j] >> \in Q
    BY <1>1 DEF Ordered
  <2>1. i \in 1 .. Len(o) /\ w[i] = o[i] /\ o[i] \in S /\ o[i] # s
    BY <1>1, <1>2
  <2>2. CASE j = Len(o) + 1
    BY <1>1, <2>1, <2>2
  <2>3. CASE j # Len(o) + 1
    <3>1. j \in 1 .. Len(o) /\ w[j] = o[j]
      BY <1>1, <1>2, <2>3
    <3>2. << o[i], o[j] >> \in R
      BY <2>1, <3>1 DEF Ordered
    <3> QED BY <2>1, <3>1, <3>2
  <2> QED BY <2>2, <2>3
<1> QED BY <1>1, <1>3, <1>4, <1>5 DEF w

-----------------------------------------------------------------------------
(* The steps *)

(* Where a stored key stands.                                              *)
LEMMA Standing ==
  ASSUME TypeOK, Consistent, NEW s \in Slot, entry[s] # Nothing
  PROVE  Position(s) \in 1 .. Len(order) /\ order[Position(s)] = s
<1>1. DOMAIN order = 1 .. Len(order)
  BY LenProperties DEF TypeOK
<1>2. s \in Range(order)
  BY DEF Consistent, Stored
<1>3. \E i \in 1 .. Len(order) : order[i] = s
  BY <1>1, <1>2 DEF Range
<1> QED BY <1>3 DEF Position

(* The order without a stored key.                                         *)
LEMMA Left ==
  ASSUME Inv, NEW s \in Slot, entry[s] # Nothing
  PROVE  /\ Without(Position(s)) \in Seq(Slot)
         /\ Len(Without(Position(s))) = Len(order) - 1
         /\ IsInjective(Without(Position(s)))
         /\ Range(Without(Position(s))) = Stored \ {s}
         /\ Ordered(Without(Position(s)), older)
<1>1. Position(s) \in 1 .. Len(order) /\ order[Position(s)] = s
  BY Standing DEF Inv
<1>2. /\ order \in Seq(Slot)
      /\ IsInjective(order)
      /\ Ordered(order, older)
      /\ Range(order) = Stored
  BY DEF Inv, TypeOK, Consistent
<1> QED BY <1>1, <1>2, Cut DEF Without

(* The order with a stored key at its end.                                 *)
LEMMA Moved ==
  ASSUME Inv, NEW s \in Slot, entry[s] # Nothing, Touch(s)
  PROVE  /\ MoveToEnd(s) \in Seq(Slot)
         /\ Len(MoveToEnd(s)) = Len(order)
         /\ IsInjective(MoveToEnd(s))
         /\ Range(MoveToEnd(s)) = Stored
         /\ Ordered(MoveToEnd(s), older')
         /\ older' \subseteq Slot \X Slot
<1> DEFINE w == Without(Position(s))
<1>1. /\ w \in Seq(Slot)
      /\ Len(w) = Len(order) - 1
      /\ IsInjective(w)
      /\ Range(w) = Stored \ {s}
      /\ Ordered(w, older)
  BY Left
<1>2. s \in Stored /\ s \notin Range(w)
  BY <1>1 DEF Stored
<1> HIDE DEF w
<1>3. /\ Append(w, s) \in Seq(Slot)
      /\ Len(Append(w, s)) = Len(w) + 1
      /\ IsInjective(Append(w, s))
      /\ Range(Append(w, s)) = Range(w) \cup {s}
      /\ Ordered(Append(w, s), {p \in older : p[1] # s} \cup ((Slot \ {s}) \X {s}))
  BY <1>1, <1>2, Push
<1>4. older' = {p \in older : p[1] # s} \cup ((Slot \ {s}) \X {s})
  BY DEF Touch
<1>5. Len(order) \in Nat
  BY LenProperties DEF Inv, TypeOK
<1>6. Len(Append(w, s)) = Len(order)
  BY <1>1, <1>3, <1>5
<1>7. Range(Append(w, s)) = Stored
  BY <1>1, <1>2, <1>3
<1>8. older' \subseteq Slot \X Slot
  BY <1>4 DEF Inv, TypeOK
<1>9. MoveToEnd(s) = Append(w, s)
  BY DEF MoveToEnd, w
<1> QED BY <1>3, <1>4, <1>6, <1>7, <1>8, <1>9

LEMMA InitInv == Init => Inv
<1> SUFFICES ASSUME Init PROVE Inv
  OBVIOUS
<1>1. Len(order) = 0 /\ order \in Seq(Slot) /\ DOMAIN order = {}
  BY EmptySeq, LenProperties DEF Init
<1>2. TypeOK
  BY <1>1, CacheAssumption DEF Init, TypeOK
<1>3. Consistent
  BY <1>1 DEF Init, Consistent, IsInjective, Range, Stored
<1>4. Ordered(order, older)
  BY <1>1 DEF Ordered
<1> QED BY <1>2, <1>3, <1>4 DEF Inv

LEMMA FreshType == ASSUME NEW t \in Text PROVE Fresh(t) \in Entry /\ Fresh(t) # Nothing
BY CacheAssumption DEF Fresh, Entry

LEMMA ExpiredStep == ASSUME Inv, NEW s \in Slot, GetExpired(s) PROVE Inv'
<1>1. entry[s] # Nothing
  BY DEF GetExpired
<1> DEFINE w == Without(Position(s))
<1>2. /\ w \in Seq(Slot)
      /\ Len(w) = Len(order) - 1
      /\ IsInjective(w)
      /\ Range(w) = Stored \ {s}
      /\ Ordered(w, older)
  BY <1>1, Left
<1>3. order' = w /\ older' = older /\ entry' = [entry EXCEPT ![s] = Nothing] /\ answer' = Nothing
  BY DEF GetExpired
<1> HIDE DEF w
<1>4. Len(order) \in Nat
  BY LenProperties DEF Inv, TypeOK
<1>5. Stored' = Stored \ {s}
  BY <1>3 DEF Inv, TypeOK, Stored
<1>6. Len(order') <= MaxEntries
  BY <1>2, <1>3, <1>4, CacheAssumption DEF Inv, TypeOK
<1>7. TypeOK'
  BY <1>2, <1>3, <1>6 DEF Inv, TypeOK
<1>8. Consistent'
  BY <1>2, <1>3, <1>5 DEF Consistent
<1>9. Ordered(order', older')
  BY <1>2, <1>3
<1> QED BY <1>7, <1>8, <1>9 DEF Inv

(* A hit and a replacement move the key to the end and keep every key.     *)
LEMMA MoveStep ==
  ASSUME Inv, NEW s \in Slot, entry[s] # Nothing, Touch(s), order' = MoveToEnd(s),
         entry' \in [Slot -> Entry \cup {Nothing}], Stored' = Stored,
         answer' \in Text \cup {Nothing}
  PROVE  Inv'
<1>1. /\ order' \in Seq(Slot)
      /\ Len(order') = Len(order)
      /\ IsInjective(order')
      /\ Range(order') = Stored
      /\ Ordered(order', older')
      /\ older' \subseteq Slot \X Slot
  BY Moved
<1>2. TypeOK'
  BY <1>1 DEF Inv, TypeOK
<1>3. Consistent'
  BY <1>1 DEF Consistent
<1> QED BY <1>1, <1>2, <1>3 DEF Inv

LEMMA LiveStep == ASSUME Inv, NEW s \in Slot, GetLive(s) PROVE Inv'
<1>1. /\ entry[s] # Nothing
      /\ Touch(s)
      /\ order' = MoveToEnd(s)
      /\ entry' = entry
      /\ answer' = entry[s].text
  BY DEF GetLive
<1>2. entry' \in [Slot -> Entry \cup {Nothing}] /\ Stored' = Stored
  BY <1>1 DEF Inv, TypeOK, Stored
<1>3. entry[s] \in Entry
  BY <1>1 DEF Inv, TypeOK
<1>4. answer' \in Text
  BY <1>1, <1>3 DEF Entry
<1> QED BY <1>1, <1>2, <1>4, MoveStep

LEMMA ReplaceStep == ASSUME Inv, NEW s \in Slot, NEW t \in Text, Replace(s, t) PROVE Inv'
<1>1. /\ entry[s] # Nothing
      /\ Touch(s)
      /\ order' = MoveToEnd(s)
      /\ entry' = [entry EXCEPT ![s] = Fresh(t)]
      /\ answer' = answer
  BY DEF Replace
<1>2. entry' \in [Slot -> Entry \cup {Nothing}]
  BY <1>1, FreshType DEF Inv, TypeOK
<1>3. Stored' = Stored
  BY <1>1, FreshType DEF Inv, TypeOK, Stored
<1>4. answer' \in Text \cup {Nothing}
  BY <1>1 DEF Inv, TypeOK
<1> QED BY <1>1, <1>2, <1>3, <1>4, MoveStep

(* What Insert appends to: the order, or its tail when the cache is full.  *)
LEMMA Room ==
  ASSUME Inv, NEW s \in Slot, entry[s] = Nothing,
         NEW w, w = IF Full THEN Tail(order) ELSE order
  PROVE  /\ w \in Seq(Slot)
         /\ Len(w) < MaxEntries
         /\ IsInjective(w)
         /\ Range(w) = IF Full THEN Stored \ {Head(order)} ELSE Stored
         /\ Ordered(w, older)
         /\ Full => Head(order) \in Stored /\ Len(order) = MaxEntries
<1>1. /\ order \in Seq(Slot)
      /\ IsInjective(order)
      /\ Ordered(order, older)
      /\ Range(order) = Stored
      /\ Len(order) \in Nat
      /\ Len(order) <= MaxEntries
      /\ MaxEntries \in Nat \ {0}
  BY CacheAssumption, LenProperties DEF Inv, TypeOK, Consistent
<1>2. CASE ~Full
  <2>1. w = order
    BY <1>2
  <2>2. Len(order) < MaxEntries
    BY <1>1, <1>2 DEF Full
  <2> QED BY <1>1, <1>2, <2>1, <2>2
<1>3. CASE Full
  <2>1. Len(order) = MaxEntries
    BY <1>1, <1>3 DEF Full
  <2>2. order # << >>
    BY <1>1, <2>1, EmptySeq
  <2>3. Tail(order) = RemoveAt(order, 1) /\ Head(order) = order[1] /\ 1 \in 1 .. Len(order)
    BY <1>1, <2>2, CutFirst
  <2>4. w = RemoveAt(order, 1)
    BY <1>3, <2>3
  <2>5. /\ w \in Seq(Slot)
        /\ Len(w) = Len(order) - 1
        /\ IsInjective(w)
        /\ Range(w) = Stored \ {order[1]}
        /\ Ordered(w, older)
    <3>1. /\ RemoveAt(order, 1) \in Seq(Slot)
          /\ Len(RemoveAt(order, 1)) = Len(order) - 1
          /\ IsInjective(RemoveAt(order, 1))
          /\ Range(RemoveAt(order, 1)) = Range(order) \ {order[1]}
          /\ Ordered(RemoveAt(order, 1), older)
      BY <1>1, <2>3, Cut
    <3> QED BY <1>1, <2>4, <3>1
  <2>6. Len(w) < MaxEntries
    BY <1>1, <2>1, <2>5
  <2>7. order[1] \in Stored
    BY <1>1, <2>3, LenProperties DEF Range
  <2> QED BY <1>3, <2>1, <2>3, <2>5, <2>6, <2>7
<1> QED BY <1>2, <1>3

LEMMA InsertStep == ASSUME Inv, NEW s \in Slot, NEW t \in Text, Insert(s, t) PROVE Inv'
<1> DEFINE w == IF Full THEN Tail(order) ELSE order
           Q == {p \in older : p[1] # s} \cup ((Slot \ {s}) \X {s})
<1>1. /\ entry[s] = Nothing
      /\ order' = Append(w, s)
      /\ older' = Q
      /\ answer' = answer
      /\ entry' = [u \in Slot |-> IF u = s THEN Fresh(t)
                                  ELSE IF Full /\ u = Head(order) THEN Nothing
                                  ELSE entry[u]]
  BY DEF Insert, Touch
<1>2. /\ w \in Seq(Slot)
      /\ Len(w) < MaxEntries
      /\ IsInjective(w)
      /\ Range(w) = IF Full THEN Stored \ {Head(order)} ELSE Stored
      /\ Ordered(w, older)
  BY <1>1, Room
<1>3. older' \subseteq Slot \X Slot
  BY <1>1 DEF Inv, TypeOK
<1> HIDE DEF w
<1>4. s \notin Range(w)
  BY <1>1, <1>2 DEF Stored
<1>5. /\ Append(w, s) \in Seq(Slot)
      /\ Len(Append(w, s)) = Len(w) + 1
      /\ IsInjective(Append(w, s))
      /\ Range(Append(w, s)) = Range(w) \cup {s}
      /\ Ordered(Append(w, s), Q)
  BY <1>2, <1>4, Push
<1> HIDE DEF Q
<1>6. Len(order') <= MaxEntries
  <2>1. Len(w) \in Nat
    BY <1>2, LenProperties
  <2> QED BY <1>1, <1>2, <1>5, <2>1, CacheAssumption
<1>7. entry' \in [Slot -> Entry \cup {Nothing}]
  BY <1>1, FreshType DEF Inv, TypeOK
<1>8. TypeOK'
  BY <1>1, <1>3, <1>5, <1>6, <1>7 DEF Inv, TypeOK
<1>9. Stored' = Range(order')
  <2>1. Stored' = {u \in Slot : u = s \/ (entry[u] # Nothing /\ ~(Full /\ u = Head(order)))}
    BY <1>1, FreshType DEF Stored
  <2>2. CASE Full
    BY <1>1, <1>2, <1>5, <2>1, <2>2 DEF Stored
  <2>3. CASE ~Full
    BY <1>1, <1>2, <1>5, <2>1, <2>3 DEF Stored
  <2> QED BY <2>2, <2>3
<1>10. Consistent'
  BY <1>1, <1>5, <1>9 DEF Consistent
<1>11. Ordered(order', older')
  BY <1>1, <1>5
<1> QED BY <1>8, <1>10, <1>11 DEF Inv


LEMMA InvalidateStep == ASSUME Inv, NEW D \in SUBSET Stored, Invalidate(D) PROVE Inv'
<1>1. /\ order' \in Survivors(D)
      /\ entry' = [s \in Slot |-> IF s \in D THEN Nothing ELSE entry[s]]
      /\ answer' = answer
      /\ older' = older
  BY DEF Invalidate
<1>2. PICK n \in 0 .. Len(order) : order' \in [1 .. n -> Stored \ D]
  BY <1>1 DEF Survivors
<1>3. /\ IsInjective(order')
      /\ Range(order') = Stored \ D
      /\ \A i, j \in DOMAIN order' : i < j => Position(order'[i]) < Position(order'[j])
  BY <1>1 DEF Survivors
<1>4. Len(order) \in Nat /\ Len(order) <= MaxEntries
  BY LenProperties DEF Inv, TypeOK
<1>5. n \in Nat /\ n <= MaxEntries /\ DOMAIN order' = 1 .. n
  BY <1>2, <1>4, CacheAssumption
<1>6. order' \in Seq(Slot)
  <2>1. order' \in [1 .. n -> Slot]
    BY <1>2 DEF Stored
  <2> QED BY <1>5, <2>1, IsASeq
<1>7. Len(order') = n
  BY <1>5, <1>6, LenProperties
<1>8. Stored' = Stored \ D
  BY <1>1 DEF Stored
<1>9. TypeOK'
  BY <1>1, <1>5, <1>6, <1>7 DEF Inv, TypeOK
<1>10. Consistent'
  BY <1>3, <1>8 DEF Consistent
<1>11. Ordered(order', older')
  <2> SUFFICES ASSUME NEW i \in 1 .. n, NEW j \in 1 .. n, i < j
               PROVE  << order'[i], order'[j] >> \in older
    BY <1>1, <1>7 DEF Ordered
  <2>1. order'[i] \in Stored /\ order'[j] \in Stored
    BY <1>2
  <2>2. /\ Position(order'[i]) \in 1 .. Len(order) /\ order[Position(order'[i])] = order'[i]
        /\ Position(order'[j]) \in 1 .. Len(order) /\ order[Position(order'[j])] = order'[j]
    BY <2>1, Standing DEF Inv, Stored
  <2>3. Position(order'[i]) < Position(order'[j])
    BY <1>3, <1>5
  <2>4. << order[Position(order'[i])], order[Position(order'[j])] >> \in older
    BY <2>2, <2>3 DEF Inv, Ordered
  <2> QED BY <2>2, <2>4
<1> QED BY <1>9, <1>10, <1>11 DEF Inv

(* The entries after a second.                                             *)
LEMMA AgedEntry ==
  ASSUME Inv, Age, NEW s \in Slot
  PROVE  /\ entry'[s] \in Entry \cup {Nothing}
         /\ entry'[s] = Nothing <=> entry[s] = Nothing
         /\ entry[s] # Nothing =>
              /\ entry'[s].text = entry[s].text
              /\ entry'[s].left = IF entry[s].left = 0 THEN 0 ELSE entry[s].left - 1
<1>1. entry'[s] = IF entry[s] = Nothing \/ entry[s].left = 0
                    THEN entry[s]
                    ELSE [entry[s] EXCEPT !.left = @ - 1]
  BY DEF Age
<1>2. entry[s] \in Entry \cup {Nothing}
  BY DEF Inv, TypeOK
<1>3. CASE entry[s] = Nothing \/ entry[s].left = 0
  BY <1>1, <1>2, <1>3
<1>4. CASE entry[s] # Nothing /\ entry[s].left # 0
  <2>1. entry[s] \in Entry /\ entry'[s] = [entry[s] EXCEPT !.left = @ - 1]
    BY <1>1, <1>2, <1>4
  <2>2. entry[s].left \in 1 .. Lifetime
    BY <1>4, <2>1, CacheAssumption DEF Entry
  <2>3. entry[s].left - 1 \in 0 .. Lifetime
    BY <2>2, CacheAssumption
  <2>4. /\ entry'[s] \in Entry
        /\ entry'[s].text = entry[s].text
        /\ entry'[s].left = entry[s].left - 1
    BY <2>1, <2>3 DEF Entry
  <2>5. entry'[s] # Nothing
    BY <2>4, CacheAssumption DEF Entry
  <2> QED BY <1>4, <2>4, <2>5
<1> QED BY <1>3, <1>4

LEMMA AgeStep == ASSUME Inv, Age PROVE Inv'
<1>1. order' = order /\ answer' = answer /\ older' = older
  BY DEF Age
<1>2. DOMAIN entry' = Slot /\ entry' = [s \in Slot |-> entry'[s]]
  BY DEF Age
<1>3. \A s \in Slot : /\ entry'[s] \in Entry \cup {Nothing}
                      /\ entry'[s] = Nothing <=> entry[s] = Nothing
  BY AgedEntry
<1>4. entry' \in [Slot -> Entry \cup {Nothing}]
  BY <1>2, <1>3
<1>5. Stored' = Stored
  BY <1>3 DEF Stored
<1>6. TypeOK'
  BY <1>1, <1>4 DEF Inv, TypeOK
<1>7. Consistent'
  BY <1>1, <1>5 DEF Inv, Consistent
<1>8. Ordered(order', older')
  BY <1>1 DEF Inv
<1> QED BY <1>6, <1>7, <1>8 DEF Inv

(* Every step keeps the invariant.                                         *)
LEMMA StepInv == Inv /\ [Next]_cacheVars => Inv'
<1> SUFFICES ASSUME Inv, [Next]_cacheVars PROVE Inv'
  OBVIOUS
<1>1. ASSUME NEW s \in Slot, GetAbsent(s) PROVE Inv'
  <2>1. order' = order /\ entry' = entry /\ older' = older /\ answer' = Nothing
    BY <1>1 DEF GetAbsent
  <2>2. TypeOK'
    BY <2>1 DEF Inv, TypeOK
  <2>3. Consistent'
    BY <2>1 DEF Inv, Consistent, Stored
  <2>4. Ordered(order', older')
    BY <2>1 DEF Inv
  <2> QED BY <2>2, <2>3, <2>4 DEF Inv
<1>2. ASSUME NEW s \in Slot, Get(s) PROVE Inv'
  BY <1>1, <1>2, ExpiredStep, LiveStep DEF Get
<1>3. ASSUME NEW s \in Slot, NEW t \in Text, Set(s, t) PROVE Inv'
  BY <1>3, ReplaceStep, InsertStep DEF Set
<1>4. CASE UNCHANGED cacheVars
  <2>1. order' = order /\ entry' = entry /\ older' = older /\ answer' = answer
    BY <1>4 DEF cacheVars
  <2>2. TypeOK'
    BY <2>1 DEF Inv, TypeOK
  <2>3. Consistent'
    BY <2>1 DEF Inv, Consistent, Stored
  <2>4. Ordered(order', older')
    BY <2>1 DEF Inv
  <2> QED BY <2>2, <2>3, <2>4 DEF Inv
<1> QED BY <1>2, <1>3, <1>4, InvalidateStep, AgeStep DEF Next

THEOREM Invariance == Spec => []Inv
<1>1. Init => Inv
  BY InitInv
<1>2. Inv /\ [Next]_cacheVars => Inv'
  BY StepInv
<1> QED BY <1>1, <1>2, PTL DEF Spec

(* Every entry that can be reached is well formed and the cache never      *)
(* holds more than its limit.                                              *)
THEOREM TypeCorrect == Spec => []TypeOK
<1>1. Inv => TypeOK
  BY DEF Inv
<1> QED BY <1>1, Invariance, PTL

(* The order and the entries of the OrderedDict always hold the same keys, *)
(* each once: no entry is out of the reach of eviction.                    *)
THEOREM HalvesAgree == Spec => []Consistent
<1>1. Inv => Consistent
  BY DEF Inv
<1> QED BY <1>1, Invariance, PTL

-----------------------------------------------------------------------------
(* Eviction *)

(* Only an insertion into a full cache loses a key while another changes,  *)
(* and what it loses is the head of the order.                             *)
LEMMA Evicted ==
  ASSUME Inv, NEW u \in Slot, NEW t \in Text, Insert(u, t),
         NEW s \in Slot, entry[s] # Nothing, entry'[s] = Nothing
  PROVE  /\ entry[u] = Nothing
         /\ Len(order) = MaxEntries
         /\ \A v \in Stored \ {s} : << s, v >> \in older
<1>1. entry'[s] = IF s = u THEN Fresh(t)
                  ELSE IF Full /\ s = Head(order) THEN Nothing
                  ELSE entry[s]
  BY DEF Insert
<1>2. entry[u] = Nothing /\ s # u
  BY DEF Insert
<1>3. Full /\ s = Head(order)
  BY <1>1, <1>2
<1>4. Len(order) = MaxEntries
  <2> DEFINE w == IF Full THEN Tail(order) ELSE order
  <2>1. w = IF Full THEN Tail(order) ELSE order
    OBVIOUS
  <2> HIDE DEF w
  <2> QED BY <1>2, <1>3, <2>1, Room
<1>5. order \in Seq(Slot) /\ Range(order) = Stored /\ Ordered(order, older) /\ Len(order) >= 1
  BY <1>4, CacheAssumption DEF Inv, TypeOK, Consistent
<1>6. s = order[1] /\ 1 \in 1 .. Len(order)
  BY <1>3, <1>5, EmptySeq, CutFirst
<1>7. ASSUME NEW v \in Stored \ {s} PROVE << s, v >> \in older
  <2>1. DOMAIN order = 1 .. Len(order) /\ Len(order) \in Nat
    BY <1>5, LenProperties
  <2>2. PICK i \in 1 .. Len(order) : order[i] = v
    BY <1>5, <2>1 DEF Range
  <2>3. 1 < i
    BY <1>6, <2>1, <2>2
  <2> QED BY <1>5, <1>6, <2>2, <2>3 DEF Ordered
<1> QED BY <1>2, <1>4, <1>7

(* Whatever is done to the cache, a key makes room for another only when   *)
(* there is no other room and it is the one used least recently.           *)
THEOREM LeastRecentGoes == Spec => EvictsLeastRecent
<1> DEFINE Loss(s, u) ==
             /\ entry[s] # Nothing /\ entry'[s] = Nothing
             /\ entry'[u] \notin {entry[u], Nothing}
           Fair(s, u) ==
             /\ entry[u] = Nothing
             /\ Len(order) = MaxEntries
             /\ \A v \in Stored \ {s} : << s, v >> \in older
<1>1. ASSUME Inv, Next, NEW s \in Slot, NEW u \in Slot, Loss(s, u)
      PROVE  Fair(s, u)
  <2>1. ASSUME NEW x \in Slot, Get(x) PROVE Fair(s, u)
    <3>1. GetAbsent(x) \/ GetLive(x) => entry' = entry
      BY DEF GetAbsent, GetLive
    <3>2. GetExpired(x) => entry' = [entry EXCEPT ![x] = Nothing]
      BY DEF GetExpired
    <3> QED BY <1>1, <2>1, <3>1, <3>2 DEF Get, Inv, TypeOK
  <2>2. ASSUME NEW x \in Slot, NEW t \in Text, Replace(x, t) PROVE Fair(s, u)
    <3>1. entry' = [entry EXCEPT ![x] = Fresh(t)]
      BY <2>2 DEF Replace
    <3> QED BY <1>1, <3>1, FreshType DEF Inv, TypeOK
  <2>3. ASSUME NEW x \in Slot, NEW t \in Text, Insert(x, t) PROVE Fair(s, u)
    <3>1. /\ entry[x] = Nothing
          /\ Len(order) = MaxEntries
          /\ \A v \in Stored \ {s} : << s, v >> \in older
      BY <1>1, <2>3, Evicted
    <3>2. entry' = [z \in Slot |-> IF z = x THEN Fresh(t)
                                   ELSE IF Full /\ z = Head(order) THEN Nothing
                                   ELSE entry[z]]
      BY <2>3 DEF Insert
    <3>3. u = x
      BY <1>1, <3>2
    <3> QED BY <3>1, <3>3
  <2>4. ASSUME NEW D \in SUBSET Stored, Invalidate(D) PROVE Fair(s, u)
    <3>1. entry'[u] \in {entry[u], Nothing}
      BY <2>4 DEF Invalidate
    <3> QED BY <1>1, <3>1
  <2>5. CASE Age
    <3>1. entry'[s] # Nothing
      BY <1>1, <2>5, AgedEntry
    <3> QED BY <1>1, <3>1
  <2> HIDE DEF Fair
  <2> QED BY <1>1, <2>1, <2>2, <2>3, <2>4, <2>5 DEF Next, Set
<1>2. Inv /\ [Next]_cacheVars =>
        [\A s, u \in Slot : Loss(s, u) => Fair(s, u)]_cacheVars
  BY <1>1
<1>3. Inv /\ [Next]_cacheVars =>
        [\A s, u \in Slot :
           /\ entry[s] # Nothing /\ entry'[s] = Nothing
           /\ entry'[u] \notin {entry[u], Nothing}
           => /\ entry[u] = Nothing
              /\ Len(order) = MaxEntries
              /\ \A v \in Stored \ {s} : << s, v >> \in older]_cacheVars
  BY <1>2
<1> QED BY <1>3, Invariance, PTL DEF Spec, EvictsLeastRecent

-----------------------------------------------------------------------------
(* Refinement *)

(* The cache starts as an empty LossyCache.                                *)
LEMMA InitPromise == Init => Promise!Init
BY DEF Init, Promise!Init

(* A step of the cache is a step of LossyCache or none.                    *)
LEMMA StepPromise == Inv /\ Inv' /\ [Next]_cacheVars => [Promise!Next]_<< entry, answer >>
<1> USE DEF Promise!KeepOrForget, Promise!Entry
<1>1. ASSUME Inv, Inv', Next PROVE Promise!Next
  <2> USE DEF Promise!Next
  <2>0. entry \in [Slot -> Entry \cup {Nothing}] /\ entry' \in [Slot -> Entry \cup {Nothing}]
    BY <1>1 DEF Inv, TypeOK
  <2>1. ASSUME NEW s \in Slot, Get(s) PROVE Promise!Take(s)
    <3>1. GetAbsent(s) => Promise!Take(s)
      BY <2>0 DEF GetAbsent, Promise!Take, Entry
    <3>2. GetExpired(s) => Promise!Take(s)
      BY <2>0 DEF GetExpired, Promise!Take, Entry
    <3>3. GetLive(s) => Promise!Take(s)
      BY <2>0 DEF GetLive, Promise!Take, Entry
    <3> QED BY <2>1, <3>1, <3>2, <3>3 DEF Get
  <2>2. ASSUME NEW s \in Slot, NEW t \in Text, Set(s, t) PROVE Promise!Put(s, t)
    <3>1. Replace(s, t) => Promise!Put(s, t)
      BY <2>0 DEF Replace, Promise!Put, Entry, Fresh
    <3>2. Insert(s, t) => Promise!Put(s, t)
      BY <2>0 DEF Insert, Promise!Put, Entry, Fresh
    <3> QED BY <2>2, <3>1, <3>2 DEF Set
  <2>3. ASSUME NEW D \in SUBSET Stored, Invalidate(D) PROVE Promise!Forget
    BY <2>0, <2>3 DEF Invalidate, Promise!Forget, Entry
  <2>4. ASSUME Age PROVE Promise!Age
    <3>1. \A s \in Slot :
            /\ entry'[s] = Nothing <=> entry[s] = Nothing
            /\ entry[s] # Nothing =>
                 /\ entry'[s].text = entry[s].text
                 /\ entry'[s].left = IF entry[s].left = 0 THEN 0 ELSE entry[s].left - 1
      BY <1>1, <2>4, AgedEntry
    <3>2. answer' = answer
      BY <2>4 DEF Age
    <3> QED BY <2>0, <3>1, <3>2 DEF Promise!Age, Entry
  <2> QED BY <1>1, <2>1, <2>2, <2>3, <2>4 DEF Next
<1>2. UNCHANGED cacheVars => UNCHANGED << entry, answer >>
  BY DEF cacheVars
<1> QED BY <1>1, <1>2

(* What a slot holds is the text last set for its key, for a lifetime at   *)
(* most: the cache implements LossyCache with its entries as the memory.   *)
THEOREM CacheImplementsLossyCache == Spec => ImplementsLossyCache
BY InitPromise, StepPromise, Invariance, PTL DEF Spec, ImplementsLossyCache, Promise!Spec

-----------------------------------------------------------------------------
(* The routes *)

(* What a slot may hold: a stream's text under a stream's key and nothing  *)
(* else there, under any other key a whole text, and under a key with a    *)
(* prompt a text made for that prompt.                                     *)
Belongs(s, t) ==
  /\ s.kind = "stream" <=> t.route = "stream"
  /\ s.kind = "json" => t.whole
  /\ s.prompt # NoPrompt => t.prompt = s.prompt

Kept == \A s \in Slot : entry[s] # Nothing => Belongs(s, entry[s].text)

(* The variables of the requests have their types.                         *)
RequestsTyped ==
  /\ pc \in [Request -> {"idle"} \cup Active \cup Terminal]
  /\ ask \in [Request -> Ask \cup {Nothing}]
  /\ reply \in [Request -> Text \cup {Nothing}]
  /\ conn \subseteq Request
  /\ got \in [Request -> 0 .. MaxChunks]
  /\ locked \in [Request -> 0 .. 4]
  /\ rows \in [Request -> Nat]
  /\ image \in [Request -> {"none", "file", "row"}]
  /\ via \in [Request -> {"none", "upstream", "cache", "replay"}]
  /\ dropped \subseteq Request
  /\ crashes \in 0 .. MaxCrashes

(* The places that only some requests reach.                               *)
Kind(r) ==
  /\ pc[r] # "idle" => ask[r] \in Ask
  /\ pc[r] \in {"opening", "streaming", "closing", "leaving", "recordingCut"} =>
       IsStream(ask[r])
  /\ pc[r] \in {"saving", "filing"} => ask[r].route = "images"

(* The row: none before a request records, none for one that was refused,  *)
(* and then one at most, or given up.                                      *)
Books(r) ==
  /\ rows[r] <= 1
  /\ r \in dropped => rows[r] = 0
  /\ pc[r] \in {"idle", "opening", "waiting", "calling", "streaming", "closing",
                "leaving", "recording", "recordingCut"} =>
       rows[r] = 0 /\ r \notin dropped /\ locked[r] <= 3
  /\ pc[r] \in {"saving", "filing"} => rows[r] = 1 \/ r \in dropped
  /\ pc[r] = "ok" => (via[r] = "replay" /\ rows[r] = 0) \/ rows[r] = 1 \/ r \in dropped
  /\ pc[r] \in {"notfound", "unread"} => rows[r] = 0
  /\ pc[r] = "failed" => rows[r] = 0 \/ ask[r].route = "images"

Holds(r) ==
  r \in conn => pc[r] \in {"calling", "streaming", "closing", "leaving", "unread"}

(* A text that r may be answered with.                                     *)
Fits(r) ==
  /\ ask[r].route # "gemini" => reply[r].prompt = ask[r].prompt
  /\ IsStream(ask[r]) <=> reply[r].route = "stream"
  /\ reply[r].whole \/ (IsStream(ask[r]) /\ via[r] \in {"cache", "replay"})

(* There is no text before the upstream or the cache has given one, there  *)
(* is one from the row on, and it is a fitting one.                        *)
Replies(r) ==
  /\ pc[r] \in {"idle", "opening", "waiting", "calling", "streaming"} => reply[r] = Nothing
  /\ pc[r] \in {"recording", "saving", "filing", "ok"} => reply[r] # Nothing
  /\ reply[r] # Nothing => Fits(r)

Sound(r) == Kind(r) /\ Books(r) /\ Holds(r) /\ Replies(r)

DInv ==
  /\ Inv
  /\ Kept
  /\ RequestsTyped
  /\ IsFiniteSet(conn)
  /\ Cardinality(conn) <= Connections
  /\ \A r \in Request : Sound(r)

-----------------------------------------------------------------------------
(* The cache *)

(* The keys of the cache and the texts kept in it are those of Dispatch.   *)
LEMMA SlotOfAsk ==
  ASSUME NEW a \in Ask
  PROVE  /\ SlotOf(a) \in Slot
         /\ SlotOf(a).kind = IF IsStream(a) THEN "stream" ELSE "json"
         /\ SlotOf(a).prompt = IF a.route = "gemini" THEN NoPrompt ELSE a.prompt
         /\ a.prompt \in Prompt /\ a.prompt # NoPrompt /\ a.route \in Routes
BY DispatchAssumption DEF Ask, SlotOf, PromptInKey

LEMMA SameCache == ASSUME Inv, Kept, UNCHANGED cacheVars PROVE Inv' /\ Kept'
<1>1. Inv'
  BY StepInv
<1>2. Kept'
  BY DEF Kept, cacheVars
<1> QED BY <1>1, <1>2

(* Looking something up changes no text.                                   *)
LEMMA GetKeeps == ASSUME Inv, Kept, NEW s \in Slot, Get(s) PROVE Inv' /\ Kept'
<1>1. Inv'
  BY StepInv DEF Next
<1>2. ASSUME NEW u \in Slot PROVE entry'[u] = entry[u] \/ entry'[u] = Nothing
  <2>1. entry \in [Slot -> Entry \cup {Nothing}]
    BY DEF Inv, TypeOK
  <2>2. GetAbsent(s) \/ GetLive(s) => entry' = entry
    BY DEF GetAbsent, GetLive
  <2>3. GetExpired(s) => entry' = [entry EXCEPT ![s] = Nothing]
    BY DEF GetExpired
  <2> QED BY <2>1, <2>2, <2>3 DEF Get
<1>3. Kept'
  BY <1>2 DEF Kept
<1> QED BY <1>1, <1>3

(* A hit is a text that belongs to its key.                                *)
LEMMA GetFinds ==
  ASSUME Inv, Kept, NEW s \in Slot, Get(s), answer' # Nothing
  PROVE  answer' \in Text /\ Belongs(s, answer')
<1>1. GetLive(s)
  BY DEF Get, GetAbsent, GetExpired
<1>2. entry[s] \in Entry /\ entry[s] # Nothing /\ answer' = entry[s].text
  BY <1>1 DEF GetLive, Inv, TypeOK
<1> QED BY <1>2 DEF Kept, Entry

(* What belongs to a key may be kept under it.                             *)
LEMMA SetKeeps ==
  ASSUME Inv, Kept, NEW s \in Slot, NEW t \in Text, Set(s, t), Belongs(s, t)
  PROVE  Inv' /\ Kept'
<1>1. Inv'
  BY StepInv DEF Next
<1>2. Fresh(t).text = t
  BY DEF Fresh
<1>3. ASSUME NEW u \in Slot
      PROVE  \/ u = s /\ entry'[u] = Fresh(t)
             \/ entry'[u] = entry[u]
             \/ entry'[u] = Nothing
  <2>1. entry \in [Slot -> Entry \cup {Nothing}]
    BY DEF Inv, TypeOK
  <2>2. Replace(s, t) => entry' = [entry EXCEPT ![s] = Fresh(t)]
    BY DEF Replace
  <2>3. Insert(s, t) =>
          entry' = [x \in Slot |-> IF x = s THEN Fresh(t)
                                   ELSE IF Full /\ x = Head(order) THEN Nothing
                                   ELSE entry[x]]
    BY DEF Insert
  <2> QED BY <2>1, <2>2, <2>3 DEF Set
<1>4. Kept'
  BY <1>2, <1>3 DEF Kept
<1> QED BY <1>1, <1>4

LEMMA AgeKeeps == ASSUME Inv, Kept, Age PROVE Inv' /\ Kept'
<1>1. Inv'
  BY AgeStep
<1>2. Kept'
  BY AgedEntry DEF Kept
<1> QED BY <1>1, <1>2

(* The two ways in which a request uses the cache.                         *)
LEMMA LookupKeeps ==
  ASSUME Inv, Kept, NEW a \in Ask, Lookup(a)
  PROVE  /\ Inv' /\ Kept'
         /\ IsHit(a) => answer' \in Text /\ Belongs(SlotOf(a), answer')
<1>1. CASE Cacheable(a)
  BY <1>1, GetKeeps, GetFinds, SlotOfAsk DEF Lookup, IsHit
<1>2. CASE ~ Cacheable(a)
  BY <1>2, SameCache DEF Lookup, IsHit
<1> QED BY <1>1, <1>2

LEMMA StoreKeeps ==
  ASSUME Inv, Kept, NEW r \in Request, ask[r] \in Ask, NEW whole \in BOOLEAN,
         Store(r, whole), whole \/ IsStream(ask[r])
  PROVE  Inv' /\ Kept'
<1>1. TextFor(r, whole) \in Text
  BY DispatchAssumption, SlotOfAsk DEF TextFor
<1>2. Belongs(SlotOf(ask[r]), TextFor(r, whole))
  BY SlotOfAsk DEF Belongs, TextFor, IsStream
<1>3. CASE Cacheable(ask[r])
  BY <1>1, <1>2, <1>3, SetKeeps, SlotOfAsk DEF Store
<1>4. CASE ~ Cacheable(ask[r])
  BY <1>4, SameCache DEF Store
<1> QED BY <1>3, <1>4

-----------------------------------------------------------------------------
(* The requests *)

(* A step of r leaves the other requests alone.                            *)
Others(r) ==
  \A q \in Request \ {r} :
    /\ pc'[q] = pc[q] /\ ask'[q] = ask[q] /\ reply'[q] = reply[q] /\ via'[q] = via[q]
    /\ locked'[q] = locked[q] /\ rows'[q] = rows[q]
    /\ q \in dropped' <=> q \in dropped
    /\ q \in conn' => q \in conn

LEMMA OthersSound ==
  ASSUME DInv, NEW r \in Request, Others(r), NEW q \in Request, q # r
  PROVE  Sound(q)'
<1>1. Sound(q)
  BY DEF DInv
<1>2. Kind(q)'
  BY <1>1 DEF Sound, Kind, Others
<1>3. Books(q)'
  BY <1>1 DEF Sound, Books, Others
<1>4. Holds(q)'
  BY <1>1 DEF Sound, Holds, Others
<1>5. Replies(q)'
  BY <1>1 DEF Sound, Replies, Fits, Others
<1> QED BY <1>2, <1>3, <1>4, <1>5 DEF Sound

(* What a step of one request has to show.                                 *)
LEMMA Assemble ==
  ASSUME DInv, NEW r \in Request, Inv', Kept', RequestsTyped',
         IsFiniteSet(conn'), Cardinality(conn') <= Connections,
         Others(r), Sound(r)'
  PROVE  DInv'
BY OthersSound DEF DInv

(* A connection given back leaves no more of them in use.                  *)
LEMMA FewerConnections ==
  ASSUME DInv, conn' \subseteq conn
  PROVE  IsFiniteSet(conn') /\ Cardinality(conn') <= Connections
<1>1. /\ IsFiniteSet(conn') /\ Cardinality(conn') <= Cardinality(conn)
      /\ Cardinality(conn) \in Nat /\ Cardinality(conn') \in Nat
  BY FS_Subset, FS_CardinalityType DEF DInv
<1> QED BY <1>1, DispatchAssumption DEF DInv

(* What DInv says of one request.                                          *)
LEMMA Here ==
  ASSUME DInv, NEW r \in Request
  PROVE  /\ Inv /\ Kept /\ RequestsTyped
         /\ Kind(r) /\ Books(r) /\ Holds(r) /\ Replies(r)
         /\ pc[r] # "idle" => ask[r] \in Ask
BY DEF DInv, Sound, Kind

LEMMA TextForType ==
  ASSUME NEW r \in Request, ask[r] \in Ask, NEW whole \in BOOLEAN
  PROVE  TextFor(r, whole) \in Text /\ TextFor(r, whole) # Nothing
BY DispatchAssumption, CacheAssumption, SlotOfAsk DEF TextFor

(* A hit fits the request that asked for it.                               *)
LEMMA FitsHit ==
  ASSUME NEW r \in Request, NEW a \in Ask, ask'[r] = a, reply'[r] = answer',
         via'[r] \in {"cache", "replay"}, Belongs(SlotOf(a), answer')
  PROVE  Fits(r)'
<1>1. a.route # "gemini" => answer'.prompt = a.prompt
  BY SlotOfAsk DEF Belongs
<1>2. IsStream(a) <=> answer'.route = "stream"
  BY SlotOfAsk DEF Belongs
<1>3. answer'.whole \/ IsStream(a)
  BY SlotOfAsk DEF Belongs
<1> QED BY <1>1, <1>2, <1>3 DEF Fits, IsStream

-----------------------------------------------------------------------------
(* One lemma for each action of a request.                                 *)

LEMMA UnknownStep == ASSUME DInv, NEW r \in Request, NEW a \in Ask, Unknown(r, a) PROVE DInv'
<1>1. Inv' /\ Kept'
  BY Here, SameCache DEF Unknown
<1>2. RequestsTyped'
  BY Here DEF Unknown, Goto, IsStream, RequestsTyped, Active, Terminal
<1>3. IsFiniteSet(conn') /\ Cardinality(conn') <= Connections
  BY FewerConnections DEF Unknown
<1>4. Others(r)
  BY Here DEF Unknown, Goto, IsStream, Others, RequestsTyped
<1>5. Sound(r)'
  <2>1. Kind(r)'
    BY Here DEF Unknown, Goto, IsStream, RequestsTyped, Kind
  <2>2. Books(r)'
    BY Here DEF Unknown, Goto, IsStream, RequestsTyped, Books
  <2>3. Holds(r)'
    BY Here DEF Unknown, Goto, IsStream, RequestsTyped, Holds
  <2>4. Replies(r)'
    BY Here DEF Unknown, Goto, IsStream, RequestsTyped, Replies, Fits
  <2> QED BY <2>1, <2>2, <2>3, <2>4 DEF Sound
<1> QED BY <1>1, <1>2, <1>3, <1>4, <1>5, Assemble

LEMMA ArriveStep == ASSUME DInv, NEW r \in Request, NEW a \in Ask, Arrive(r, a) PROVE DInv'
<1>1. /\ Inv' /\ Kept'
      /\ IsHit(a) => answer' \in Text /\ Belongs(SlotOf(a), answer')
  BY Here, LookupKeeps DEF Arrive
<1>2. RequestsTyped'
  BY Here, SlotOfAsk, <1>1 DEF Arrive, Goto, IsStream, Belongs, RequestsTyped, Active, Terminal
<1>3. IsFiniteSet(conn') /\ Cardinality(conn') <= Connections
  BY FewerConnections DEF Arrive
<1>4. Others(r)
  BY Here, SlotOfAsk, <1>1 DEF Arrive, Goto, IsStream, Belongs, Others, RequestsTyped
<1>5. Sound(r)'
  <2>1. Kind(r)'
    BY Here, SlotOfAsk, <1>1 DEF Arrive, Goto, IsStream, Belongs, RequestsTyped, Kind
  <2>2. Books(r)'
    BY Here, SlotOfAsk, <1>1 DEF Arrive, Goto, IsStream, Belongs, RequestsTyped, Books
  <2>3. Holds(r)'
    BY Here, SlotOfAsk, <1>1 DEF Arrive, Goto, IsStream, Belongs, RequestsTyped, Holds
  <2>4. Replies(r)'
    <3>1. CASE IsHit(a)
      <4>1. pc'[r] \in {"recording", "ok"} /\ reply'[r] = answer' /\ via'[r] \in {"cache", "replay"} /\ ask'[r] = a /\ a \in Ask
        BY <3>1, Here DEF Arrive, Goto, RequestsTyped
      <4>2. Fits(r)'
        BY <1>1, <3>1, <4>1, FitsHit
      <4> QED BY <1>1, <3>1, <4>1, <4>2, CacheAssumption DEF Replies
    <3>2. CASE ~ IsHit(a)
      <4>1. reply'[r] = Nothing /\ pc'[r] \in {"waiting", "opening"}
        BY <3>2, Here DEF Arrive, Goto, RequestsTyped, Replies
      <4> QED BY <4>1 DEF Replies
    <3> QED BY <3>1, <3>2
  <2> QED BY <2>1, <2>2, <2>3, <2>4 DEF Sound
<1> QED BY <1>1, <1>2, <1>3, <1>4, <1>5, Assemble

LEMMA ArriveStreamStep == ASSUME DInv, NEW r \in Request, NEW a \in Ask, ArriveStream(r, a) PROVE DInv'
<1>1. /\ Inv' /\ Kept'
      /\ IsHit(a) => answer' \in Text /\ Belongs(SlotOf(a), answer')
  BY Here, LookupKeeps DEF ArriveStream
<1>2. RequestsTyped'
  BY Here, SlotOfAsk, <1>1 DEF ArriveStream, Goto, IsStream, Belongs, RequestsTyped, Active, Terminal
<1>3. IsFiniteSet(conn') /\ Cardinality(conn') <= Connections
  BY FewerConnections DEF ArriveStream
<1>4. Others(r)
  BY Here, SlotOfAsk, <1>1 DEF ArriveStream, Goto, IsStream, Belongs, Others, RequestsTyped
<1>5. Sound(r)'
  <2>1. Kind(r)'
    BY Here, SlotOfAsk, <1>1 DEF ArriveStream, Goto, IsStream, Belongs, RequestsTyped, Kind
  <2>2. Books(r)'
    BY Here, SlotOfAsk, <1>1 DEF ArriveStream, Goto, IsStream, Belongs, RequestsTyped, Books
  <2>3. Holds(r)'
    BY Here, SlotOfAsk, <1>1 DEF ArriveStream, Goto, IsStream, Belongs, RequestsTyped, Holds
  <2>4. Replies(r)'
    <3>1. CASE IsHit(a)
      <4>1. pc'[r] \in {"recording", "ok"} /\ reply'[r] = answer' /\ via'[r] \in {"cache", "replay"} /\ ask'[r] = a /\ a \in Ask
        BY <3>1, Here DEF ArriveStream, Goto, RequestsTyped
      <4>2. Fits(r)'
        BY <1>1, <3>1, <4>1, FitsHit
      <4> QED BY <1>1, <3>1, <4>1, <4>2, CacheAssumption DEF Replies
    <3>2. CASE ~ IsHit(a)
      <4>1. reply'[r] = Nothing /\ pc'[r] \in {"waiting", "opening"}
        BY <3>2, Here DEF ArriveStream, Goto, RequestsTyped, Replies
      <4> QED BY <4>1 DEF Replies
    <3> QED BY <3>1, <3>2
  <2> QED BY <2>1, <2>2, <2>3, <2>4 DEF Sound
<1> QED BY <1>1, <1>2, <1>3, <1>4, <1>5, Assemble

LEMMA OpenStep == ASSUME DInv, NEW r \in Request, Open(r) PROVE DInv'
<1>1. /\ Inv' /\ Kept'
      /\ IsHit(ask[r]) => answer' \in Text /\ Belongs(SlotOf(ask[r]), answer')
  BY Here, LookupKeeps DEF Open
<1>2. RequestsTyped'
  BY Here, SlotOfAsk, <1>1 DEF Open, Goto, IsStream, Belongs, RequestsTyped, Active, Terminal
<1>3. IsFiniteSet(conn') /\ Cardinality(conn') <= Connections
  BY FewerConnections DEF Open
<1>4. Others(r)
  BY Here, SlotOfAsk, <1>1 DEF Open, Goto, IsStream, Belongs, Others, RequestsTyped
<1>5. Sound(r)'
  <2>1. Kind(r)'
    BY Here, SlotOfAsk, <1>1 DEF Open, Goto, IsStream, Belongs, RequestsTyped, Kind
  <2>2. Books(r)'
    BY Here, SlotOfAsk, <1>1 DEF Open, Goto, IsStream, Belongs, RequestsTyped, Books
  <2>3. Holds(r)'
    BY Here, SlotOfAsk, <1>1 DEF Open, Goto, IsStream, Belongs, RequestsTyped, Holds
  <2>4. Replies(r)'
    <3>1. CASE IsHit(ask[r])
      <4>1. pc'[r] \in {"recording", "ok"} /\ reply'[r] = answer' /\ via'[r] \in {"cache", "replay"} /\ ask'[r] = ask[r] /\ ask[r] \in Ask
        BY <3>1, Here DEF Open, Goto, RequestsTyped
      <4>2. Fits(r)'
        BY <1>1, <3>1, <4>1, FitsHit
      <4> QED BY <1>1, <3>1, <4>1, <4>2, CacheAssumption DEF Replies
    <3>2. CASE ~ IsHit(ask[r])
      <4>1. reply'[r] = Nothing /\ pc'[r] \in {"waiting", "opening"}
        BY <3>2, Here DEF Open, Goto, RequestsTyped, Replies
      <4> QED BY <4>1 DEF Replies
    <3> QED BY <3>1, <3>2
  <2> QED BY <2>1, <2>2, <2>3, <2>4 DEF Sound
<1> QED BY <1>1, <1>2, <1>3, <1>4, <1>5, Assemble

LEMMA OpenUnknownStep == ASSUME DInv, NEW r \in Request, OpenUnknown(r) PROVE DInv'
<1>1. Inv' /\ Kept'
  BY Here, SameCache DEF OpenUnknown
<1>2. RequestsTyped'
  BY Here DEF OpenUnknown, Goto, RequestsTyped, Active, Terminal
<1>3. IsFiniteSet(conn') /\ Cardinality(conn') <= Connections
  BY FewerConnections DEF OpenUnknown
<1>4. Others(r)
  BY Here DEF OpenUnknown, Goto, Others, RequestsTyped
<1>5. Sound(r)'
  <2>1. Kind(r)'
    BY Here DEF OpenUnknown, Goto, RequestsTyped, Kind, IsStream
  <2>2. Books(r)'
    BY Here DEF OpenUnknown, Goto, RequestsTyped, Books
  <2>3. Holds(r)'
    BY Here DEF OpenUnknown, Goto, RequestsTyped, Holds
  <2>4. Replies(r)'
    BY Here DEF OpenUnknown, Goto, RequestsTyped, Replies, Fits, IsStream
  <2> QED BY <2>1, <2>2, <2>3, <2>4 DEF Sound
<1> QED BY <1>1, <1>2, <1>3, <1>4, <1>5, Assemble

LEMMA ConnectStep == ASSUME DInv, NEW r \in Request, Connect(r) PROVE DInv'
<1>1. Inv' /\ Kept'
  BY Here, SameCache DEF Connect
<1>2. RequestsTyped'
  BY Here DEF Connect, Goto, RequestsTyped, Active, Terminal
<1>3. IsFiniteSet(conn') /\ Cardinality(conn') <= Connections
  <2>1. IsFiniteSet(conn) /\ Cardinality(conn) \in Nat /\ Connections \in Nat
    BY FS_CardinalityType, DispatchAssumption DEF DInv
  <2>2. /\ IsFiniteSet(conn \cup {r})
        /\ Cardinality(conn \cup {r}) = IF r \in conn THEN Cardinality(conn)
                                                     ELSE Cardinality(conn) + 1
    BY <2>1, FS_AddElement
  <2>3. conn' = conn \cup {r} /\ Cardinality(conn) < Connections
    BY DEF Connect
  <2> QED BY <2>1, <2>2, <2>3
<1>4. Others(r)
  BY Here DEF Connect, Goto, Others, RequestsTyped
<1>5. Sound(r)'
  <2>1. Kind(r)'
    BY Here DEF Connect, Goto, RequestsTyped, Kind, IsStream
  <2>2. Books(r)'
    BY Here DEF Connect, Goto, RequestsTyped, Books
  <2>3. Holds(r)'
    BY Here DEF Connect, Goto, RequestsTyped, Holds
  <2>4. Replies(r)'
    BY Here DEF Connect, Goto, RequestsTyped, Replies, Fits, IsStream
  <2> QED BY <2>1, <2>2, <2>3, <2>4 DEF Sound
<1> QED BY <1>1, <1>2, <1>3, <1>4, <1>5, Assemble

LEMMA PoolTimeoutStep == ASSUME DInv, NEW r \in Request, PoolTimeout(r) PROVE DInv'
<1>1. Inv' /\ Kept'
  BY Here, SameCache DEF PoolTimeout
<1>2. RequestsTyped'
  BY Here DEF PoolTimeout, Goto, Abort, RequestsTyped, Active, Terminal
<1>3. IsFiniteSet(conn') /\ Cardinality(conn') <= Connections
  BY FewerConnections DEF PoolTimeout
<1>4. Others(r)
  BY Here DEF PoolTimeout, Goto, Abort, Others, RequestsTyped
<1>5. Sound(r)'
  <2>1. Kind(r)'
    BY Here DEF PoolTimeout, Goto, Abort, RequestsTyped, Kind, IsStream
  <2>2. Books(r)'
    BY Here DEF PoolTimeout, Goto, Abort, RequestsTyped, Books
  <2>3. Holds(r)'
    BY Here DEF PoolTimeout, Goto, Abort, RequestsTyped, Holds
  <2>4. Replies(r)'
    BY Here DEF PoolTimeout, Goto, Abort, RequestsTyped, Replies, Fits, IsStream
  <2> QED BY <2>1, <2>2, <2>3, <2>4 DEF Sound
<1> QED BY <1>1, <1>2, <1>3, <1>4, <1>5, Assemble

LEMMA FaultStep == ASSUME DInv, NEW r \in Request, Fault(r) PROVE DInv'
<1>1. Inv' /\ Kept'
  BY Here, SameCache DEF Fault
<1>2. RequestsTyped'
  BY Here DEF Fault, Goto, Abort, RequestsTyped, Active, Terminal
<1>3. IsFiniteSet(conn') /\ Cardinality(conn') <= Connections
  BY FewerConnections DEF Fault
<1>4. Others(r)
  BY Here DEF Fault, Goto, Abort, Others, RequestsTyped
<1>5. Sound(r)'
  <2>1. Kind(r)'
    BY Here DEF Fault, Goto, Abort, RequestsTyped, Kind, IsStream
  <2>2. Books(r)'
    BY Here DEF Fault, Goto, Abort, RequestsTyped, Books
  <2>3. Holds(r)'
    BY Here DEF Fault, Goto, Abort, RequestsTyped, Holds
  <2>4. Replies(r)'
    BY Here DEF Fault, Goto, Abort, RequestsTyped, Replies, Fits, IsStream
  <2> QED BY <2>1, <2>2, <2>3, <2>4 DEF Sound
<1> QED BY <1>1, <1>2, <1>3, <1>4, <1>5, Assemble

LEMMA RefuseStep == ASSUME DInv, NEW r \in Request, Refuse(r) PROVE DInv'
<1>1. Inv' /\ Kept'
  BY Here, SameCache DEF Refuse
<1>2. RequestsTyped'
  BY Here DEF Refuse, Goto, RequestsTyped, Active, Terminal
<1>3. IsFiniteSet(conn') /\ Cardinality(conn') <= Connections
  BY FewerConnections DEF Refuse
<1>4. Others(r)
  BY Here DEF Refuse, Goto, Others, RequestsTyped
<1>5. Sound(r)'
  <2>1. Kind(r)'
    BY Here DEF Refuse, Goto, RequestsTyped, Kind, IsStream
  <2>2. Books(r)'
    BY Here DEF Refuse, Goto, RequestsTyped, Books
  <2>3. Holds(r)'
    BY Here DEF Refuse, Goto, RequestsTyped, Holds
  <2>4. Replies(r)'
    BY Here DEF Refuse, Goto, RequestsTyped, Replies, Fits, IsStream
  <2> QED BY <2>1, <2>2, <2>3, <2>4 DEF Sound
<1> QED BY <1>1, <1>2, <1>3, <1>4, <1>5, Assemble

LEMMA RefuseStreamStep == ASSUME DInv, NEW r \in Request, RefuseStream(r) PROVE DInv'
<1>1. Inv' /\ Kept'
  BY Here, SameCache DEF RefuseStream
<1>2. RequestsTyped'
  BY Here DEF RefuseStream, Goto, RequestsTyped, Active, Terminal
<1>3. IsFiniteSet(conn') /\ Cardinality(conn') <= Connections
  BY FewerConnections DEF RefuseStream
<1>4. Others(r)
  BY Here DEF RefuseStream, Goto, Others, RequestsTyped
<1>5. Sound(r)'
  <2>1. Kind(r)'
    BY Here DEF RefuseStream, Goto, RequestsTyped, Kind, IsStream
  <2>2. Books(r)'
    BY Here DEF RefuseStream, Goto, RequestsTyped, Books
  <2>3. Holds(r)'
    BY Here DEF RefuseStream, Goto, RequestsTyped, Holds
  <2>4. Replies(r)'
    BY Here DEF RefuseStream, Goto, RequestsTyped, Replies, Fits, IsStream
  <2> QED BY <2>1, <2>2, <2>3, <2>4 DEF Sound
<1> QED BY <1>1, <1>2, <1>3, <1>4, <1>5, Assemble

LEMMA ReplyStep == ASSUME DInv, NEW r \in Request, Reply(r) PROVE DInv'
<1>1. Inv' /\ Kept'
  BY Here, StoreKeeps DEF Reply
<1>2. RequestsTyped'
  BY Here, TextForType DEF Reply, Goto, TextFor, RequestsTyped, Active, Terminal
<1>3. IsFiniteSet(conn') /\ Cardinality(conn') <= Connections
  BY FewerConnections DEF Reply
<1>4. Others(r)
  BY Here, TextForType DEF Reply, Goto, TextFor, Others, RequestsTyped
<1>5. Sound(r)'
  <2>1. Kind(r)'
    BY Here, TextForType DEF Reply, Goto, TextFor, RequestsTyped, Kind, IsStream
  <2>2. Books(r)'
    BY Here, TextForType DEF Reply, Goto, TextFor, RequestsTyped, Books
  <2>3. Holds(r)'
    BY Here, TextForType DEF Reply, Goto, TextFor, RequestsTyped, Holds
  <2>4. Replies(r)'
    BY Here, TextForType DEF Reply, Goto, TextFor, RequestsTyped, Replies, Fits, IsStream
  <2> QED BY <2>1, <2>2, <2>3, <2>4 DEF Sound
<1> QED BY <1>1, <1>2, <1>3, <1>4, <1>5, Assemble

LEMMA HeadersStep == ASSUME DInv, NEW r \in Request, Headers(r) PROVE DInv'
<1>1. Inv' /\ Kept'
  BY Here, SameCache DEF Headers
<1>2. RequestsTyped'
  BY Here DEF Headers, Goto, RequestsTyped, Active, Terminal
<1>3. IsFiniteSet(conn') /\ Cardinality(conn') <= Connections
  BY FewerConnections DEF Headers
<1>4. Others(r)
  BY Here DEF Headers, Goto, Others, RequestsTyped
<1>5. Sound(r)'
  <2>1. Kind(r)'
    BY Here DEF Headers, Goto, RequestsTyped, Kind, IsStream
  <2>2. Books(r)'
    BY Here DEF Headers, Goto, RequestsTyped, Books
  <2>3. Holds(r)'
    BY Here DEF Headers, Goto, RequestsTyped, Holds
  <2>4. Replies(r)'
    BY Here DEF Headers, Goto, RequestsTyped, Replies, Fits, IsStream
  <2> QED BY <2>1, <2>2, <2>3, <2>4 DEF Sound
<1> QED BY <1>1, <1>2, <1>3, <1>4, <1>5, Assemble

LEMMA ChunkStep == ASSUME DInv, NEW r \in Request, Chunk(r) PROVE DInv'
<1>1. Inv' /\ Kept'
  BY Here, SameCache DEF Chunk
<1>2. RequestsTyped'
  BY Here, DispatchAssumption DEF Chunk, Goto, RequestsTyped, Active, Terminal
<1>3. IsFiniteSet(conn') /\ Cardinality(conn') <= Connections
  BY FewerConnections DEF Chunk
<1>4. Others(r)
  BY Here, DispatchAssumption DEF Chunk, Goto, Others, RequestsTyped
<1>5. Sound(r)'
  <2>1. Kind(r)'
    BY Here, DispatchAssumption DEF Chunk, Goto, RequestsTyped, Kind, IsStream
  <2>2. Books(r)'
    BY Here, DispatchAssumption DEF Chunk, Goto, RequestsTyped, Books
  <2>3. Holds(r)'
    BY Here, DispatchAssumption DEF Chunk, Goto, RequestsTyped, Holds
  <2>4. Replies(r)'
    BY Here, DispatchAssumption DEF Chunk, Goto, RequestsTyped, Replies, Fits, IsStream
  <2> QED BY <2>1, <2>2, <2>3, <2>4 DEF Sound
<1> QED BY <1>1, <1>2, <1>3, <1>4, <1>5, Assemble

LEMMA LeaveLoopStep == ASSUME DInv, NEW r \in Request, LeaveLoop(r) PROVE DInv'
<1>1. Inv' /\ Kept'
  BY Here, SameCache DEF LeaveLoop
<1>2. RequestsTyped'
  BY Here, TextForType DEF LeaveLoop, Goto, TextFor, RequestsTyped, Active, Terminal
<1>3. IsFiniteSet(conn') /\ Cardinality(conn') <= Connections
  BY FewerConnections DEF LeaveLoop
<1>4. Others(r)
  BY Here, TextForType DEF LeaveLoop, Goto, TextFor, Others, RequestsTyped
<1>5. Sound(r)'
  <2>1. Kind(r)'
    BY Here, TextForType DEF LeaveLoop, Goto, TextFor, RequestsTyped, Kind, IsStream
  <2>2. Books(r)'
    BY Here, TextForType DEF LeaveLoop, Goto, TextFor, RequestsTyped, Books
  <2>3. Holds(r)'
    BY Here, TextForType DEF LeaveLoop, Goto, TextFor, RequestsTyped, Holds
  <2>4. Replies(r)'
    BY Here, TextForType DEF LeaveLoop, Goto, TextFor, RequestsTyped, Replies, Fits, IsStream
  <2> QED BY <2>1, <2>2, <2>3, <2>4 DEF Sound
<1> QED BY <1>1, <1>2, <1>3, <1>4, <1>5, Assemble

LEMMA CloseStep == ASSUME DInv, NEW r \in Request, Close(r) PROVE DInv'
<1>1. Inv' /\ Kept'
  <2>1. ask[r] \in Ask /\ IsStream(ask[r]) /\ (reply[r] # Nothing) \in BOOLEAN
    BY Here DEF Close, Kind
  <2> QED BY <2>1, Here, StoreKeeps, SameCache DEF Close
<1>2. RequestsTyped'
  BY Here DEF Close, Goto, RequestsTyped, Active, Terminal
<1>3. IsFiniteSet(conn') /\ Cardinality(conn') <= Connections
  BY FewerConnections DEF Close
<1>4. Others(r)
  BY Here DEF Close, Goto, Others, RequestsTyped
<1>5. Sound(r)'
  <2>1. Kind(r)'
    BY Here DEF Close, Goto, RequestsTyped, Kind, IsStream
  <2>2. Books(r)'
    BY Here DEF Close, Goto, RequestsTyped, Books
  <2>3. Holds(r)'
    BY Here DEF Close, Goto, RequestsTyped, Holds
  <2>4. Replies(r)'
    BY Here DEF Close, Goto, RequestsTyped, Replies, Fits, IsStream
  <2> QED BY <2>1, <2>2, <2>3, <2>4 DEF Sound
<1> QED BY <1>1, <1>2, <1>3, <1>4, <1>5, Assemble

LEMMA CancelCloseStep == ASSUME DInv, NEW r \in Request, CancelClose(r) PROVE DInv'
<1>1. Inv' /\ Kept'
  BY Here, SameCache DEF CancelClose
<1>2. RequestsTyped'
  BY Here DEF CancelClose, Goto, RequestsTyped, Active, Terminal
<1>3. IsFiniteSet(conn') /\ Cardinality(conn') <= Connections
  BY FewerConnections DEF CancelClose
<1>4. Others(r)
  BY Here DEF CancelClose, Goto, Others, RequestsTyped
<1>5. Sound(r)'
  <2>1. Kind(r)'
    BY Here DEF CancelClose, Goto, RequestsTyped, Kind, IsStream
  <2>2. Books(r)'
    BY Here DEF CancelClose, Goto, RequestsTyped, Books
  <2>3. Holds(r)'
    BY Here DEF CancelClose, Goto, RequestsTyped, Holds
  <2>4. Replies(r)'
    BY Here DEF CancelClose, Goto, RequestsTyped, Replies, Fits, IsStream
  <2> QED BY <2>1, <2>2, <2>3, <2>4 DEF Sound
<1> QED BY <1>1, <1>2, <1>3, <1>4, <1>5, Assemble

LEMMA WriteRowStep == ASSUME DInv, NEW r \in Request, WriteRow(r) PROVE DInv'
<1>1. Inv' /\ Kept'
  BY Here, SameCache DEF WriteRow
<1>2. RequestsTyped'
  BY Here DEF WriteRow, Goto, Recording, Done, RequestsTyped, Active, Terminal
<1>3. IsFiniteSet(conn') /\ Cardinality(conn') <= Connections
  BY FewerConnections DEF WriteRow
<1>4. Others(r)
  BY Here DEF WriteRow, Goto, Recording, Done, Others, RequestsTyped
<1>5. Sound(r)'
  <2>1. Kind(r)'
    BY Here DEF WriteRow, Goto, Recording, Done, RequestsTyped, Kind, IsStream
  <2>2. Books(r)'
    BY Here DEF WriteRow, Goto, Recording, Done, RequestsTyped, Books
  <2>3. Holds(r)'
    BY Here DEF WriteRow, Goto, Recording, Done, RequestsTyped, Holds
  <2>4. Replies(r)'
    BY Here DEF WriteRow, Goto, Recording, Done, RequestsTyped, Replies, Fits, IsStream
  <2> QED BY <2>1, <2>2, <2>3, <2>4 DEF Sound
<1> QED BY <1>1, <1>2, <1>3, <1>4, <1>5, Assemble

LEMMA RowLockedStep == ASSUME DInv, NEW r \in Request, RowLocked(r) PROVE DInv'
<1>1. Inv' /\ Kept'
  BY Here, SameCache DEF RowLocked
<1>2. RequestsTyped'
  BY Here DEF RowLocked, Goto, Recording, Done, Books, RequestsTyped, Active, Terminal
<1>3. IsFiniteSet(conn') /\ Cardinality(conn') <= Connections
  BY FewerConnections DEF RowLocked
<1>4. Others(r)
  BY Here DEF RowLocked, Goto, Recording, Done, Books, Others, RequestsTyped
<1>5. Sound(r)'
  <2>1. Kind(r)'
    BY Here DEF RowLocked, Goto, Recording, Done, Books, RequestsTyped, Kind, IsStream
  <2>2. Books(r)'
    BY Here DEF RowLocked, Goto, Recording, Done, Books, RequestsTyped
  <2>3. Holds(r)'
    BY Here DEF RowLocked, Goto, Recording, Done, Books, RequestsTyped, Holds
  <2>4. Replies(r)'
    BY Here DEF RowLocked, Goto, Recording, Done, Books, RequestsTyped, Replies, Fits, IsStream
  <2> QED BY <2>1, <2>2, <2>3, <2>4 DEF Sound
<1> QED BY <1>1, <1>2, <1>3, <1>4, <1>5, Assemble

LEMMA RowFailsStep == ASSUME DInv, NEW r \in Request, RowFails(r) PROVE DInv'
<1>1. Inv' /\ Kept'
  BY Here, SameCache DEF RowFails
<1>2. RequestsTyped'
  BY Here DEF RowFails, Goto, Recording, Done, RequestsTyped, Active, Terminal
<1>3. IsFiniteSet(conn') /\ Cardinality(conn') <= Connections
  BY FewerConnections DEF RowFails
<1>4. Others(r)
  BY Here DEF RowFails, Goto, Recording, Done, Others, RequestsTyped
<1>5. Sound(r)'
  <2>1. Kind(r)'
    BY Here DEF RowFails, Goto, Recording, Done, RequestsTyped, Kind, IsStream
  <2>2. Books(r)'
    BY Here DEF RowFails, Goto, Recording, Done, RequestsTyped, Books
  <2>3. Holds(r)'
    BY Here DEF RowFails, Goto, Recording, Done, RequestsTyped, Holds
  <2>4. Replies(r)'
    BY Here DEF RowFails, Goto, Recording, Done, RequestsTyped, Replies, Fits, IsStream
  <2> QED BY <2>1, <2>2, <2>3, <2>4 DEF Sound
<1> QED BY <1>1, <1>2, <1>3, <1>4, <1>5, Assemble

LEMMA CancelRowStep == ASSUME DInv, NEW r \in Request, CancelRow(r) PROVE DInv'
<1>1. Inv' /\ Kept'
  BY Here, SameCache DEF CancelRow
<1>2. RequestsTyped'
  BY Here DEF CancelRow, Goto, Recording, RequestsTyped, Active, Terminal
<1>3. IsFiniteSet(conn') /\ Cardinality(conn') <= Connections
  BY FewerConnections DEF CancelRow
<1>4. Others(r)
  BY Here DEF CancelRow, Goto, Recording, Others, RequestsTyped
<1>5. Sound(r)'
  <2>1. Kind(r)'
    BY Here DEF CancelRow, Goto, Recording, RequestsTyped, Kind, IsStream
  <2>2. Books(r)'
    BY Here DEF CancelRow, Goto, Recording, RequestsTyped, Books
  <2>3. Holds(r)'
    BY Here DEF CancelRow, Goto, Recording, RequestsTyped, Holds
  <2>4. Replies(r)'
    BY Here DEF CancelRow, Goto, Recording, RequestsTyped, Replies, Fits, IsStream
  <2> QED BY <2>1, <2>2, <2>3, <2>4 DEF Sound
<1> QED BY <1>1, <1>2, <1>3, <1>4, <1>5, Assemble

LEMMA SaveImageStep == ASSUME DInv, NEW r \in Request, SaveImage(r) PROVE DInv'
<1>1. Inv' /\ Kept'
  BY Here, SameCache DEF SaveImage
<1>2. RequestsTyped'
  BY Here DEF SaveImage, Goto, RequestsTyped, Active, Terminal
<1>3. IsFiniteSet(conn') /\ Cardinality(conn') <= Connections
  BY FewerConnections DEF SaveImage
<1>4. Others(r)
  BY Here DEF SaveImage, Goto, Others, RequestsTyped
<1>5. Sound(r)'
  <2>1. Kind(r)'
    BY Here DEF SaveImage, Goto, RequestsTyped, Kind, IsStream
  <2>2. Books(r)'
    BY Here DEF SaveImage, Goto, RequestsTyped, Books
  <2>3. Holds(r)'
    BY Here DEF SaveImage, Goto, RequestsTyped, Holds
  <2>4. Replies(r)'
    BY Here DEF SaveImage, Goto, RequestsTyped, Replies, Fits, IsStream
  <2> QED BY <2>1, <2>2, <2>3, <2>4 DEF Sound
<1> QED BY <1>1, <1>2, <1>3, <1>4, <1>5, Assemble

LEMMA SaveFailsStep == ASSUME DInv, NEW r \in Request, SaveFails(r) PROVE DInv'
<1>1. Inv' /\ Kept'
  BY Here, SameCache DEF SaveFails
<1>2. RequestsTyped'
  BY Here DEF SaveFails, Goto, Kind, RequestsTyped, Active, Terminal
<1>3. IsFiniteSet(conn') /\ Cardinality(conn') <= Connections
  BY FewerConnections DEF SaveFails
<1>4. Others(r)
  BY Here DEF SaveFails, Goto, Kind, Others, RequestsTyped
<1>5. Sound(r)'
  <2>1. Kind(r)'
    BY Here DEF SaveFails, Goto, Kind, RequestsTyped, IsStream
  <2>2. Books(r)'
    BY Here DEF SaveFails, Goto, Kind, RequestsTyped, Books
  <2>3. Holds(r)'
    BY Here DEF SaveFails, Goto, Kind, RequestsTyped, Holds
  <2>4. Replies(r)'
    BY Here DEF SaveFails, Goto, Kind, RequestsTyped, Replies, Fits, IsStream
  <2> QED BY <2>1, <2>2, <2>3, <2>4 DEF Sound
<1> QED BY <1>1, <1>2, <1>3, <1>4, <1>5, Assemble

LEMMA FileImageStep == ASSUME DInv, NEW r \in Request, FileImage(r) PROVE DInv'
<1>1. Inv' /\ Kept'
  BY Here, SameCache DEF FileImage
<1>2. RequestsTyped'
  BY Here DEF FileImage, Goto, RequestsTyped, Active, Terminal
<1>3. IsFiniteSet(conn') /\ Cardinality(conn') <= Connections
  BY FewerConnections DEF FileImage
<1>4. Others(r)
  BY Here DEF FileImage, Goto, Others, RequestsTyped
<1>5. Sound(r)'
  <2>1. Kind(r)'
    BY Here DEF FileImage, Goto, RequestsTyped, Kind, IsStream
  <2>2. Books(r)'
    BY Here DEF FileImage, Goto, RequestsTyped, Books
  <2>3. Holds(r)'
    BY Here DEF FileImage, Goto, RequestsTyped, Holds
  <2>4. Replies(r)'
    BY Here DEF FileImage, Goto, RequestsTyped, Replies, Fits, IsStream
  <2> QED BY <2>1, <2>2, <2>3, <2>4 DEF Sound
<1> QED BY <1>1, <1>2, <1>3, <1>4, <1>5, Assemble
-----------------------------------------------------------------------------
(* The whole *)

LEMMA DInitInv == DispatchInit => DInv
<1> SUFFICES ASSUME DispatchInit PROVE DInv
  OBVIOUS
<1>1. Inv
  BY InitInv DEF DispatchInit
<1>2. Kept
  BY DEF DispatchInit, Init, Kept
<1>3. RequestsTyped
  BY DispatchAssumption DEF DispatchInit, RequestsTyped
<1>4. IsFiniteSet(conn) /\ Cardinality(conn) <= Connections
  BY FS_EmptySet, DispatchAssumption DEF DispatchInit
<1>5. ASSUME NEW r \in Request PROVE Sound(r)
  BY DEF DispatchInit, Sound, Kind, Books, Holds, Replies
<1> QED BY <1>1, <1>2, <1>3, <1>4, <1>5 DEF DInv

(* A crash empties the cache and the pool and ends whatever was open.      *)
LEMMA CrashStep == ASSUME DInv, Crash PROVE DInv'
<1>1. Init'
  BY DEF Crash, Init
<1>2. Inv'
  BY <1>1, InitInv, PTL
<1>3. Kept'
  BY <1>1 DEF Init, Kept
<1>4. RequestsTyped'
  BY DispatchAssumption DEF Crash, DInv, RequestsTyped, Terminal
<1>5. IsFiniteSet(conn') /\ Cardinality(conn') <= Connections
  BY FS_EmptySet, DispatchAssumption DEF Crash
<1>6. ASSUME NEW r \in Request PROVE Sound(r)'
  <2>1. pc'[r] = IF pc[r] \in Active THEN "lost" ELSE pc[r]
    BY DEF Crash
  <2>2. Kind(r)'
    BY <2>1, Here DEF Crash, Kind, Active
  <2>3. Books(r)'
    BY <2>1, Here DEF Crash, Books, Active
  <2>4. Holds(r)'
    BY DEF Crash, Holds
  <2>5. Replies(r)'
    BY <2>1, Here DEF Crash, Replies, Fits, Active
  <2> QED BY <2>2, <2>3, <2>4, <2>5 DEF Sound
<1> QED BY <1>2, <1>3, <1>4, <1>5, <1>6 DEF DInv

(* A step that leaves the requests alone.                                  *)
LEMMA RequestsUntouched ==
  ASSUME DInv, Inv', Kept', UNCHANGED << requestVars, crashes >>
  PROVE  DInv'
<1>1. RequestsTyped'
  BY DEF DInv, RequestsTyped, requestVars
<1>2. IsFiniteSet(conn') /\ Cardinality(conn') <= Connections
  BY DEF DInv, requestVars
<1>3. ASSUME NEW r \in Request PROVE Sound(r)'
  BY Here DEF Sound, Kind, Books, Holds, Replies, Fits, requestVars
<1> QED BY <1>1, <1>2, <1>3 DEF DInv

LEMMA StepDInv == DInv /\ [DispatchNext]_vars => DInv'
<1> SUFFICES ASSUME DInv, [DispatchNext]_vars PROVE DInv'
  OBVIOUS
<1>1. ASSUME NEW r \in Request, NEW a \in Asks, Unknown(r, a) \/ Arrive(r, a) \/ ArriveStream(r, a)
      PROVE  DInv'
  <2>1. a \in Ask
    BY DispatchAssumption
  <2> QED BY <1>1, <2>1, UnknownStep, ArriveStep, ArriveStreamStep
<1>2. ASSUME NEW r \in Request, Proceed(r) PROVE DInv'
  BY <1>2, OpenStep, OpenUnknownStep, ConnectStep, PoolTimeoutStep, FaultStep, RefuseStep,
     RefuseStreamStep, ReplyStep, HeadersStep, ChunkStep, LeaveLoopStep, CloseStep,
     CancelCloseStep, WriteRowStep, RowLockedStep, RowFailsStep, CancelRowStep,
     SaveImageStep, SaveFailsStep, FileImageStep DEF Proceed
<1>3. CASE Crash
  BY <1>3, CrashStep
<1>4. CASE Tick
  BY <1>4, Here, AgeKeeps, RequestsUntouched DEF Tick, DInv
<1>5. CASE UNCHANGED vars
  BY <1>5, SameCache, RequestsUntouched DEF vars, DInv
<1> QED BY <1>1, <1>2, <1>3, <1>4, <1>5 DEF DispatchNext

LEMMA DInvHolds == DispatchSpec => []DInv
BY DInitInv, StepDInv, PTL DEF DispatchSpec

(* Every variable keeps its type and the client never has more connections *)
(* open than max_connections, for any number of requests and crashes.      *)
THEOREM DispatchTypeCorrect == DispatchSpec => []DispatchTypeOK
<1>1. DInv => DispatchTypeOK
  BY DEF DInv, Inv, RequestsTyped, DispatchTypeOK
<1> QED BY <1>1, DInvHolds, PTL

(* A request is accounted for at most once; an answered one has its row,   *)
(* or the row was given up, or the answer was the replay of a cached       *)
(* stream; a refused one has none unless it was for an image.              *)
THEOREM EveryAnswerAccounted == DispatchSpec => []UsageAccounted
<1>1. ASSUME DInv, NEW r \in Request
      PROVE  /\ rows[r] + (IF r \in dropped THEN 1 ELSE 0) <= 1
             /\ pc[r] = "ok" => \/ via[r] = "replay" /\ rows[r] = 0
                                \/ rows[r] = 1
                                \/ r \in dropped
             /\ pc[r] \in {"notfound", "failed", "unread"} =>
                  rows[r] = 0 \/ (pc[r] = "failed" /\ ask[r].route = "images")
  BY <1>1, Here DEF Books, RequestsTyped
<1>2. DInv => UsageAccounted
  BY <1>1 DEF UsageAccounted
<1> QED BY <1>2, DInvHolds, PTL

(* A connection is held by a request that is at work with the upstream, or *)
(* by a stream that was refused, and by no other.                          *)
THEOREM ConnectionsComeBack == DispatchSpec => []ConnectionsReturned
<1>1. DInv => ConnectionsReturned
  BY DEF DInv, RequestsTyped, Sound, Holds, ConnectionsReturned
<1> QED BY <1>1, DInvHolds, PTL

(* Whatever the cache evicts, replaces or lets expire while requests are   *)
(* under way, an answer is a text for the prompt and the kind of request   *)
(* it answers, and whole unless it is a stream from the cache.             *)
THEOREM AnswersStayApart == DispatchSpec => []AnswersKeptApart
<1>1. ASSUME DInv, NEW r \in Request, pc[r] = "ok" PROVE Fits(r)
  BY <1>1, Here DEF Replies
<1>2. DInv => AnswersKeptApart
  BY <1>1 DEF Fits, AnswersKeptApart
<1> QED BY <1>2, DInvHolds, PTL

-----------------------------------------------------------------------------
(* The cache under the requests *)

(* A request that arrives looks up a slot, or does not use the cache.      *)
LEMMA ArrivalUsesCache ==
  ASSUME NEW r \in Request, NEW a \in Ask, Unknown(r, a) \/ Arrive(r, a) \/ ArriveStream(r, a)
  PROVE  [Next]_cacheVars
<1>1. ASSUME Lookup(a) PROVE [Next]_cacheVars
  BY <1>1, SlotOfAsk DEF Lookup, Next
<1>2. Unknown(r, a) => UNCHANGED cacheVars
  BY DEF Unknown
<1>3. Arrive(r, a) => Lookup(a)
  BY DEF Arrive
<1>4. ArriveStream(r, a) => Lookup(a)
  BY DEF ArriveStream
<1> QED BY <1>1, <1>2, <1>3, <1>4

(* The steps of a request that keep or look up a text.                     *)
LEMMA ProceedUsesCache ==
  ASSUME DInv, NEW r \in Request, Proceed(r)
  PROVE  [Next]_cacheVars
<1>1. ASSUME NEW whole \in BOOLEAN, Store(r, whole), ask[r] \in Ask PROVE [Next]_cacheVars
  BY <1>1, SlotOfAsk, TextForType DEF Store, Next
<1>2. ASSUME Lookup(ask[r]), ask[r] \in Ask PROVE [Next]_cacheVars
  BY <1>2, SlotOfAsk DEF Lookup, Next
<1>3. pc[r] # "idle" => ask[r] \in Ask
  BY Here
<1>4. CASE Open(r)
  BY <1>2, <1>3, <1>4 DEF Open
<1>5. CASE Reply(r)
  BY <1>1, <1>3, <1>5 DEF Reply
<1>6. CASE Close(r)
  BY <1>1, <1>3, <1>6 DEF Close
<1>7. CASE CancelClose(r)
  BY <1>1, <1>3, <1>7 DEF CancelClose
<1>8. CASE \/ OpenUnknown(r) \/ Connect(r) \/ PoolTimeout(r) \/ Fault(r) \/ Refuse(r)
           \/ RefuseStream(r) \/ Headers(r) \/ Chunk(r) \/ LeaveLoop(r)
           \/ WriteRow(r) \/ RowLocked(r) \/ RowFails(r) \/ CancelRow(r)
           \/ SaveImage(r) \/ SaveFails(r) \/ FileImage(r)
  <2>1. UNCHANGED cacheVars
    BY <1>8 DEF OpenUnknown, Connect, PoolTimeout, Fault, Refuse, RefuseStream, Headers, Chunk,
                LeaveLoop, WriteRow, RowLocked, RowFails, CancelRow, SaveImage, SaveFails, FileImage
  <2> QED BY <2>1
<1> QED BY <1>4, <1>5, <1>6, <1>7, <1>8 DEF Proceed

(* A cache that loses all it holds forgets everything and answers nothing. *)
LEMMA CrashPromise == ASSUME DInv, Crash PROVE Promise!Next
<1>1. [kind |-> "json", prompt |-> NoPrompt] \in Slot
  BY DispatchAssumption
<1>2. entry' \in [Slot -> Entry \cup {Nothing}] /\ answer' = Nothing
  BY DEF Crash
<1>3. \A s \in Slot : entry'[s] = Nothing
  BY DEF Crash
<1>4. Promise!KeepOrForget(Slot)
  BY <1>2, <1>3 DEF Promise!KeepOrForget, Promise!Entry, Entry
<1>5. \A s \in Slot : Promise!Take(s)
  BY <1>2, <1>4 DEF Promise!Take
<1> QED BY <1>1, <1>5 DEF Promise!Next

(* However the requests of all routes look up, keep and replay texts, and  *)
(* whenever the process dies, the cache they share is a LossyCache: what   *)
(* a slot holds is the text last kept there, for a lifetime at most.       *)
THEOREM SharedCacheIsLossyCache == DispatchSpec => ImplementsLossyCache
<1>1. DispatchInit => Promise!Init
  BY InitPromise DEF DispatchInit
<1>2. DInv /\ DInv' /\ [DispatchNext]_vars => [Promise!Next]_<< entry, answer >>
  <2> SUFFICES ASSUME DInv, DInv', [DispatchNext]_vars
               PROVE  [Promise!Next]_<< entry, answer >>
    OBVIOUS
  <2>1. ASSUME [Next]_cacheVars PROVE [Promise!Next]_<< entry, answer >>
    BY <2>1, StepPromise DEF DInv
  <2>2. ASSUME NEW r \in Request, NEW a \in Asks,
               Unknown(r, a) \/ Arrive(r, a) \/ ArriveStream(r, a)
        PROVE  [Next]_cacheVars
    <3>1. a \in Ask
      BY DispatchAssumption
    <3> QED BY <2>2, <3>1, ArrivalUsesCache
  <2>3. ASSUME NEW r \in Request, Proceed(r) PROVE [Next]_cacheVars
    BY <2>3, ProceedUsesCache
  <2>4. CASE Crash
    BY <2>4, CrashPromise
  <2>5. CASE Tick
    BY <2>1, <2>5 DEF Tick, Next
  <2>6. CASE UNCHANGED vars
    BY <2>1, <2>6 DEF vars
  <2> QED BY <2>1, <2>2, <2>3, <2>4, <2>5, <2>6 DEF DispatchNext
<1> QED BY <1>1, <1>2, DInvHolds, PTL DEF DispatchSpec, ImplementsLossyCache, Promise!Spec

-----------------------------------------------------------------------------
(* What the clients see *)

(* Where an answer comes from: a request has nothing from a provider until *)
(* its call has been answered, and what it has been told in full by one is *)
(* what was written for it.                                                *)
Source(r) ==
  /\ pc[r] \in {"idle", "opening", "waiting", "calling"} => via[r] = "none"
  /\ pc[r] \in {"streaming", "closing", "leaving", "recordingCut"} => via[r] = "upstream"
  /\ via[r] = "upstream" /\ reply[r] # Nothing => reply[r] = TextFor(r, TRUE)

(* What the cache holds has been written by a provider.                    *)
Backed == \A s \in Slot : entry[s] # Nothing => entry[s].text \in Contract!Known

Told == Backed /\ \A r \in Request : Source(r)

(* What is known of a request whose provider has begun stays known.        *)
Remembers(q) ==
  via[q] = "upstream" =>
    /\ via'[q] = "upstream" /\ ask'[q] = ask[q]
    /\ reply[q] # Nothing => reply'[q] # Nothing

LEMMA KnownGrows ==
  ASSUME \A q \in Request : Remembers(q), NEW t, t \in Contract!Known
  PROVE  t \in Contract!Known'
<1>1. PICK q \in Request : /\ Written[q] # "nothing"
                           /\ t.route = ask[q].route /\ t.prompt = ask[q].prompt
                           /\ t.whole => Written[q] = "all"
  BY DEF Contract!Known
<1>2. t \in Text
  BY DEF Contract!Known
<1>3. /\ Written'[q] # "nothing" /\ ask'[q] = ask[q]
      /\ Written[q] = "all" => Written'[q] = "all"
  BY <1>1 DEF Remembers, Written, WrittenFor
<1> QED BY <1>1, <1>2, <1>3 DEF Contract!Known

(* A text that a provider writes for a request is known.                   *)
LEMMA WrittenIsKnown ==
  ASSUME NEW r \in Request, ask[r] \in Ask, via[r] = "upstream",
         NEW whole \in BOOLEAN, whole => reply[r] # Nothing
  PROVE  TextFor(r, whole) \in Contract!Known
<1>1. TextFor(r, whole) \in Text
  BY TextForType
<1>2. /\ Written[r] # "nothing" /\ TextFor(r, whole).route = ask[r].route
      /\ TextFor(r, whole).prompt = ask[r].prompt
      /\ TextFor(r, whole).whole => Written[r] = "all"
  BY DEF Written, WrittenFor, TextFor
<1> QED BY <1>1, <1>2 DEF Contract!Known

(* What a step of one request has to show.                                 *)
LEMMA AssembleTold ==
  ASSUME Told, NEW r \in Request, Others(r), Remembers(r), Source(r)',
         \A s \in Slot : entry'[s] \in {entry[s], Nothing} \/ entry'[s].text \in Contract!Known'
  PROVE  Told'
<1>1. \A q \in Request : Remembers(q)
  BY DEF Others, Remembers
<1>2. \A q \in Request : Source(q)'
  BY DEF Others, Told, Source, TextFor
<1>3. Backed'
  BY <1>1, KnownGrows DEF Told, Backed
<1> QED BY <1>2, <1>3 DEF Told

(* A lookup adds nothing, and finds what is known.                         *)
LEMMA LookupFinds ==
  ASSUME DInv, Told, NEW a \in Ask, Lookup(a)
  PROVE  /\ \A s \in Slot : entry'[s] \in {entry[s], Nothing}
         /\ IsHit(a) => answer' \in Contract!Known
<1>1. CASE Cacheable(a)
  <2>1. SlotOf(a) \in Slot /\ entry \in [Slot -> Entry \cup {Nothing}]
    BY SlotOfAsk DEF DInv, Inv, TypeOK
  <2>2. Get(SlotOf(a))
    BY <1>1 DEF Lookup
  <2>3. CASE GetAbsent(SlotOf(a))
    BY <2>1, <2>3 DEF GetAbsent, IsHit
  <2>4. CASE GetExpired(SlotOf(a))
    BY <2>1, <2>4 DEF GetExpired, IsHit
  <2>5. CASE GetLive(SlotOf(a))
    BY <2>1, <2>5 DEF GetLive, IsHit, Told, Backed
  <2> QED BY <2>2, <2>3, <2>4, <2>5 DEF Get
<1>2. CASE ~ Cacheable(a)
  BY <1>2 DEF Lookup, IsHit, cacheVars
<1> QED BY <1>1, <1>2

(* A set keeps, forgets or replaces by what is set.                        *)
LEMMA SetAdds ==
  ASSUME entry \in [Slot -> Entry \cup {Nothing}], NEW u \in Slot, NEW t, Set(u, t), NEW s \in Slot
  PROVE  entry'[s] \in {entry[s], Nothing} \/ entry'[s].text = t
<1>1. Fresh(t).text = t
  BY DEF Fresh
<1>2. Replace(u, t) => entry' = [entry EXCEPT ![u] = Fresh(t)]
  BY DEF Replace
<1>3. Insert(u, t) =>
        entry' = [x \in Slot |-> IF x = u THEN Fresh(t)
                                 ELSE IF Full /\ x = Head(order) THEN Nothing
                                 ELSE entry[x]]
  BY DEF Insert
<1> QED BY <1>1, <1>2, <1>3 DEF Set

(* What is kept is what was given to be kept.                              *)
LEMMA StoreAdds ==
  ASSUME DInv, NEW r \in Request, ask[r] \in Ask, NEW whole \in BOOLEAN, Store(r, whole)
  PROVE  \A s \in Slot : entry'[s] \in {entry[s], Nothing} \/ entry'[s].text = TextFor(r, whole)
<1>1. CASE Cacheable(ask[r])
  BY <1>1, SlotOfAsk, SetAdds DEF Store, DInv, Inv, TypeOK
<1>2. CASE ~ Cacheable(ask[r])
  BY <1>2 DEF Store, cacheVars
<1> QED BY <1>1, <1>2

-----------------------------------------------------------------------------
(* How the state of the service follows the state of the panel.            *)

LEMMA StageMoves ==
  ASSUME RequestsTyped, NEW r \in Request, NEW place, Goto(r, place)
  PROVE  Stage' = [Stage EXCEPT ![r] = StageOf(place)]
BY DEF RequestsTyped, Goto, Stage

LEMMA StageStays == ASSUME UNCHANGED pc PROVE UNCHANGED Stage
BY DEF Stage

LEMMA WrittenMoves ==
  ASSUME RequestsTyped, NEW r \in Request, NEW from, NEW text,
         via' = [via EXCEPT ![r] = from], reply' = [reply EXCEPT ![r] = text]
  PROVE  Written' = [Written EXCEPT ![r] = WrittenFor(from, text)]
BY DEF RequestsTyped, Written

LEMMA WrittenStays == ASSUME UNCHANGED << via, reply >> PROVE UNCHANGED Written
BY DEF Written

(* What a request's place says about its stage.                            *)
LEMMA StageHere ==
  ASSUME NEW r \in Request
  PROVE  /\ Stage[r] = StageOf(pc[r]) /\ Written[r] = WrittenFor(via[r], reply[r])
         /\ pc[r] = "idle" => Stage[r] = "new"
         /\ pc[r] \in Active => Stage[r] = "open"
BY DEF Stage, Written, StageOf, Active

ClientView == << Stage, ask, reply, Written, rows, dropped >>

Follows == [Contract!Next]_ClientView

LEMMA UnknownFollows ==
  ASSUME DInv, Told, NEW r \in Request, NEW a \in Ask, Unknown(r, a)
  PROVE  Told' /\ Follows
<1>1. Told'
  <2>1. Others(r) /\ Remembers(r) /\ Source(r)'
    BY Here DEF Unknown, Goto, IsStream, Others, Remembers, RequestsTyped, Told, Source
  <2>2. \A s \in Slot : entry'[s] = entry[s]
    BY DEF Unknown, cacheVars
  <2> QED BY <2>1, <2>2, AssembleTold
<1>2. Contract!Submit(r, a)
  <2>1. Stage[r] = "new" /\ UNCHANGED Written
    BY StageHere, WrittenStays DEF Unknown
  <2>2. Stage' = [Stage EXCEPT ![r] = IF IsStream(a) THEN "open" ELSE "refused"]
    BY Here, StageMoves DEF Unknown, StageOf, Active
  <2> QED BY <2>1, <2>2 DEF Unknown, Contract!Submit, IsStream
<1> QED BY <1>1, <1>2 DEF Follows, Contract!Next

LEMMA ArriveFollows ==
  ASSUME DInv, Told, NEW r \in Request, NEW a \in Ask, Arrive(r, a) \/ ArriveStream(r, a)
  PROVE  Told' /\ Follows
<1>0. /\ pc[r] = "idle" /\ Lookup(a)
      /\ ask' = [ask EXCEPT ![r] = a]
      /\ UNCHANGED << conn, locked, rows, dropped >>
      /\ IF IsHit(a)
           THEN /\ Goto(r, IF IsStream(a) THEN "ok" ELSE "recording")
                /\ reply' = [reply EXCEPT ![r] = answer']
                /\ via' = [via EXCEPT ![r] = IF IsStream(a) THEN "replay" ELSE "cache"]
           ELSE /\ Goto(r, IF IsStream(a) THEN "opening" ELSE "waiting")
                /\ UNCHANGED << reply, via >>
  BY DEF Arrive, ArriveStream
<1>1. /\ \A s \in Slot : entry'[s] \in {entry[s], Nothing}
      /\ IsHit(a) => answer' \in Contract!Known
  BY <1>0, LookupFinds
<1>2. via[r] = "none" /\ reply[r] = Nothing
  BY <1>0, Here DEF Told, Source, Replies
<1>3. Told'
  <2>1. Others(r) /\ Remembers(r)
    BY <1>0, <1>2, Here DEF Goto, Others, Remembers, RequestsTyped
  <2>2. Source(r)'
    BY <1>0, <1>2, Here DEF Goto, RequestsTyped, Source
  <2> QED BY <1>1, <2>1, <2>2, AssembleTold
<1>4. Contract!Submit(r, a)
  <2>1. Stage[r] = "new"
    BY <1>0, StageHere
  <2>2. UNCHANGED Written
    <3>1. CASE IsHit(a)
      <4>1. Written' = [Written EXCEPT ![r] = "nothing"]
        BY <1>0, <3>1, Here, WrittenMoves DEF WrittenFor
      <4>2. Written[r] = "nothing"
        BY <1>2, StageHere DEF WrittenFor
      <4> QED BY <4>1, <4>2 DEF Written
    <3>2. CASE ~ IsHit(a)
      BY <1>0, <3>2, WrittenStays
    <3> QED BY <3>1, <3>2
  <2>3. CASE IsHit(a)
    <3>1. Stage' = [Stage EXCEPT ![r] = IF IsStream(a) THEN "answered" ELSE "open"]
      BY <1>0, <2>3, Here, StageMoves DEF StageOf, Active
    <3>2. Contract!Suits(answer', a)
      <4>1. answer' \in Text /\ Belongs(SlotOf(a), answer')
        BY <1>0, <2>3, Here, LookupKeeps
      <4> QED BY <4>1, SlotOfAsk DEF Belongs, Contract!Suits, IsStream
    <3> QED BY <1>0, <1>1, <2>1, <2>2, <2>3, <3>1, <3>2 DEF Contract!Submit, IsStream
  <2>4. CASE ~ IsHit(a)
    <3>1. Stage' = [Stage EXCEPT ![r] = "open"]
      BY <1>0, <2>4, Here, StageMoves DEF StageOf, Active
    <3> QED BY <1>0, <2>1, <2>2, <2>4, <3>1 DEF Contract!Submit
  <2> QED BY <2>3, <2>4
<1> QED BY <1>3, <1>4 DEF Follows, Contract!Next
LEMMA OpenFollows ==
  ASSUME DInv, Told, NEW r \in Request, Open(r)
  PROVE  Told' /\ Follows
<1>0. /\ pc[r] = "opening" /\ Lookup(ask[r]) /\ ask[r] \in Ask /\ IsStream(ask[r])
      /\ UNCHANGED << ask, conn, locked, rows, dropped >>
      /\ IF IsHit(ask[r])
           THEN /\ Goto(r, "recording")
                /\ reply' = [reply EXCEPT ![r] = answer']
                /\ via' = [via EXCEPT ![r] = "cache"]
           ELSE Goto(r, "waiting") /\ UNCHANGED << reply, via >>
  BY Here DEF Open, Kind
<1>1. /\ \A s \in Slot : entry'[s] \in {entry[s], Nothing}
      /\ IsHit(ask[r]) => answer' \in Contract!Known
  BY <1>0, LookupFinds
<1>2. via[r] = "none" /\ reply[r] = Nothing
  BY <1>0, Here DEF Told, Source, Replies
<1>3. Told'
  <2>1. Others(r) /\ Remembers(r)
    BY <1>0, <1>2, Here DEF Goto, Others, Remembers, RequestsTyped
  <2>2. Source(r)'
    BY ZenonT(40), <1>0, <1>2, Here DEF Goto, RequestsTyped, Source
  <2> QED BY <1>1, <2>1, <2>2, AssembleTold
<1>4. Stage' = Stage
  <2>1. Stage' = [Stage EXCEPT ![r] = "open"]
    BY <1>0, Here, StageMoves DEF StageOf, Active
  <2>2. Stage[r] = "open"
    BY <1>0, StageHere DEF Active
  <2> QED BY <2>1, <2>2 DEF Stage
<1>5. CASE IsHit(ask[r])
  <2>1. Written' = Written
    <3>1. Written' = [Written EXCEPT ![r] = "nothing"]
      BY <1>0, <1>5, Here, WrittenMoves DEF WrittenFor
    <3>2. Written[r] = "nothing"
      BY <1>2, StageHere DEF WrittenFor
    <3> QED BY <3>1, <3>2 DEF Written
  <2>2. Contract!Suits(answer', ask[r])
    <3>1. answer' \in Text /\ Belongs(SlotOf(ask[r]), answer')
      BY <1>0, <1>5, Here, LookupKeeps
    <3> QED BY <1>0, <3>1, SlotOfAsk DEF Belongs, Contract!Suits, IsStream
  <2>3. Stage[r] = "open" /\ Written[r] = "nothing"
    BY <1>0, <1>2, StageHere DEF Active, WrittenFor
  <2>4. Contract!Recall(r)
    BY <1>0, <1>1, <1>2, <1>4, <1>5, <2>1, <2>2, <2>3 DEF Contract!Recall, IsStream
  <2> QED BY <1>3, <2>4 DEF Follows, Contract!Next
<1>6. CASE ~ IsHit(ask[r])
  <2>1. Written' = Written
    BY <1>0, <1>6, WrittenStays
  <2> QED BY <1>0, <1>3, <1>4, <1>6, <2>1 DEF Follows, ClientView
<1> QED BY <1>5, <1>6

(* A step that leaves what a request has, and what the cache holds.        *)
LEMMA QuietStep ==
  ASSUME DInv, Told, NEW r \in Request, NEW place, Goto(r, place),
         UNCHANGED << ask, reply, via >>, \A s \in Slot : entry'[s] \in {entry[s], Nothing},
         \A q \in Request \ {r} :
           locked'[q] = locked[q] /\ rows'[q] = rows[q]
             /\ (q \in dropped' <=> q \in dropped) /\ (q \in conn' => q \in conn),
         place \in {"waiting", "calling"} => via[r] = "none",
         place \in {"streaming", "closing", "leaving", "recordingCut"} => via[r] = "upstream",
         place \notin {"idle", "opening"}
  PROVE  Told' /\ UNCHANGED Written /\ Stage' = [Stage EXCEPT ![r] = StageOf(place)]
<1>1. Others(r) /\ Remembers(r)
  BY Here DEF Goto, Others, Remembers, RequestsTyped
<1>2. Source(r)'
  BY Here DEF Goto, RequestsTyped, Told, Source, TextFor
<1>3. Told'
  BY <1>1, <1>2, AssembleTold
<1> QED BY <1>3, Here, StageMoves, WrittenStays

(* The steps that only the panel sees.                                     *)
LEMMA HiddenFollows ==
  ASSUME DInv, Told, NEW r \in Request, Connect(r) \/ Chunk(r)
  PROVE  Told' /\ Follows
<1>1. CASE Connect(r)
  <2>1. Told' /\ UNCHANGED Written /\ Stage' = [Stage EXCEPT ![r] = StageOf("calling")]
    <3>1. via[r] = "none"
      BY <1>1 DEF Connect, Told, Source
    <3> QED BY <1>1, <3>1, QuietStep DEF Connect, cacheVars
  <2>2. Stage[r] = "open" /\ StageOf("calling") = "open"
    BY <1>1, StageHere DEF Connect, Active, StageOf
  <2>3. Stage' = Stage
    BY <2>1, <2>2 DEF Stage
  <2> QED BY <1>1, <2>1, <2>3 DEF Connect, Follows, ClientView
<1>2. CASE Chunk(r)
  <2>1. Others(r) /\ Remembers(r) /\ Source(r)' /\ UNCHANGED << Stage, Written >>
    BY <1>2, StageStays, WrittenStays DEF Chunk, Others, Remembers, Told, Source, TextFor
  <2>2. Told'
    BY <1>2, <2>1, AssembleTold DEF Chunk, cacheVars
  <2> QED BY <1>2, <2>1, <2>2 DEF Chunk, Follows, ClientView
<1> QED BY <1>1, <1>2

(* The ways a call ends without an answer, or a stream without its row.    *)
LEMMA FailureFollows ==
  ASSUME DInv, Told, NEW r \in Request,
         \/ OpenUnknown(r) \/ PoolTimeout(r) \/ Fault(r) \/ Refuse(r) \/ RefuseStream(r)
         \/ CancelClose(r)
  PROVE  Told' /\ Follows
<1>1. PICK place \in {"failed", "broken", "unread", "gone"} :
        /\ Goto(r, place)
        /\ place = "failed" <=> ~ IsStream(ask[r])
        /\ pc[r] \in {"opening", "waiting", "calling", "leaving"}
        /\ UNCHANGED << cacheVars, ask, reply, locked, rows, via, dropped >>
        /\ conn' \subseteq conn
        /\ pc[r] = "leaving" => IsStream(ask[r])
  BY Here DEF OpenUnknown, PoolTimeout, Fault, Refuse, RefuseStream, CancelClose, Abort, Kind
<1>2. Told' /\ UNCHANGED Written /\ Stage' = [Stage EXCEPT ![r] = StageOf(place)]
  BY <1>1, QuietStep DEF cacheVars
<1>3. /\ Stage[r] = "open" /\ Contract!Uncharged(r)
      /\ ~ IsStream(ask[r]) => reply[r] = Nothing /\ Written[r] = "nothing"
  BY <1>1, Here, StageHere DEF Active, Books, Replies, Told, Source, WrittenFor, Contract!Uncharged
<1>4. StageOf(place) = IF IsStream(ask[r]) THEN "cut" ELSE "refused"
  BY <1>1 DEF StageOf, Active
<1>5. Contract!Fail(r)
  BY <1>1, <1>2, <1>3, <1>4 DEF Contract!Fail, IsStream
<1> QED BY <1>2, <1>5 DEF Follows, Contract!Next
(* The upstream begins to write, or completes its answer.                  *)
LEMMA WriteFollows ==
  ASSUME DInv, Told, NEW r \in Request, Reply(r) \/ Headers(r)
  PROVE  Told' /\ Follows
<1>0. /\ pc[r] = "calling" /\ ask[r] \in Ask
      /\ via[r] = "none" /\ reply[r] = Nothing /\ Stage[r] = "open" /\ Written[r] = "nothing"
      /\ StageOf("recording") = "open" /\ StageOf("streaming") = "open"
      /\ UNCHANGED << ask, rows, dropped >>
      /\ via' = [via EXCEPT ![r] = "upstream"]
  BY Here, StageHere DEF Reply, Headers, Active, Told, Source, Replies, WrittenFor, StageOf
<1>1. CASE Reply(r)
  <2>1. /\ ~ IsStream(ask[r]) /\ reply' = [reply EXCEPT ![r] = TextFor(r, TRUE)]
        /\ Goto(r, "recording") /\ Store(r, TRUE) /\ UNCHANGED locked /\ conn' \subseteq conn
    BY <1>1 DEF Reply
  <2>2. Others(r) /\ Remembers(r)
    BY <1>0, <2>1, Here DEF Goto, Others, Remembers, RequestsTyped
  <2>3. Source(r)'
    BY <1>0, <2>1, Here DEF Goto, Source, TextFor, RequestsTyped
  <2>4. TextFor(r, TRUE) \in Contract!Known'
    <3>1. Written' = [Written EXCEPT ![r] = WrittenFor("upstream", TextFor(r, TRUE))]
      BY <1>0, <2>1, Here, WrittenMoves
    <3>2. Written'[r] = "all" /\ TextFor(r, TRUE) \in Text
      BY <1>0, <3>1, TextForType DEF WrittenFor, Written
    <3>3. /\ TextFor(r, TRUE).route = ask'[r].route /\ TextFor(r, TRUE).prompt = ask'[r].prompt
      BY <1>0 DEF TextFor
    <3> QED BY <3>2, <3>3 DEF Contract!Known
  <2>5. Told'
    BY <1>0, <2>1, <2>2, <2>3, <2>4, StoreAdds, AssembleTold
  <2>6. Stage' = Stage
    BY ZenonT(40), <1>0, <2>1, Here, StageMoves DEF Stage
  <2>7. Written' = [Written EXCEPT ![r] = "all"]
    BY <1>0, <2>1, Here, WrittenMoves, TextForType DEF WrittenFor
  <2>8. Contract!Write(r)
    BY <1>0, <2>1, <2>6, <2>7 DEF Contract!Write, IsStream, TextFor
  <2> QED BY <2>5, <2>8 DEF Follows, Contract!Next
<1>2. CASE Headers(r)
  <2>1. IsStream(ask[r]) /\ Goto(r, "streaming") /\ UNCHANGED << cacheVars, reply, locked, conn >>
    BY <1>2 DEF Headers
  <2>2. Others(r) /\ Remembers(r)
    BY <1>0, <2>1, Here DEF Goto, Others, Remembers, RequestsTyped
  <2>3. Source(r)'
    BY <1>0, <2>1, Here DEF Goto, Source, TextFor, RequestsTyped
  <2>4. Told'
    BY <2>1, <2>2, <2>3, AssembleTold DEF cacheVars
  <2>5. Stage' = Stage
    BY ZenonT(40), <1>0, <2>1, Here, StageMoves DEF Stage
  <2>6. reply' = [reply EXCEPT ![r] = Nothing]
    BY <1>0, <2>1, Here DEF RequestsTyped
  <2>7. Written' = [Written EXCEPT ![r] = "part"]
    BY <1>0, <2>6, Here, WrittenMoves DEF WrittenFor
  <2>8. Contract!Write(r)
    BY <1>0, <2>1, <2>5, <2>7 DEF Contract!Write, IsStream
  <2> QED BY <2>4, <2>8 DEF Follows, Contract!Next
<1> QED BY <1>1, <1>2

(* A stream is over: it is complete, or its text stays a part.             *)
LEMMA LeaveLoopFollows ==
  ASSUME DInv, Told, NEW r \in Request, LeaveLoop(r)
  PROVE  Told' /\ Follows
<1>0. /\ pc[r] = "streaming" /\ ask[r] \in Ask /\ IsStream(ask[r])
      /\ via[r] = "upstream" /\ reply[r] = Nothing /\ Stage[r] = "open" /\ Written[r] = "part"
      /\ StageOf("closing") = "open" /\ StageOf("leaving") = "open"
      /\ UNCHANGED << cacheVars, ask, conn, locked, rows, via, dropped >>
  BY Here, StageHere DEF LeaveLoop, Active, Told, Source, Replies, WrittenFor, StageOf, Kind
<1>1. PICK place \in {"closing", "leaving"} :
        /\ Goto(r, place)
        /\ reply' = [reply EXCEPT ![r] = TextFor(r, TRUE)] \/ UNCHANGED reply
  BY DEF LeaveLoop
<1>2. Stage' = Stage
  <2>1. StageOf(place) = "open"
    BY <1>0, <1>1
  <2>2. Stage' = [Stage EXCEPT ![r] = "open"]
    BY <1>1, <2>1, Here, StageMoves
  <2> QED BY <1>0, <2>2 DEF Stage
<1>3. CASE reply' = [reply EXCEPT ![r] = TextFor(r, TRUE)]
  <2>1. Others(r) /\ Remembers(r)
    BY <1>0, <1>1, <1>3, Here DEF Goto, Others, Remembers, RequestsTyped
  <2>2. Source(r)'
    BY <1>0, <1>1, <1>3, Here DEF Goto, Source, TextFor, RequestsTyped
  <2>3. Told'
    BY <1>0, <2>1, <2>2, AssembleTold DEF cacheVars
  <2>4. via' = [via EXCEPT ![r] = "upstream"]
    BY <1>0, Here DEF RequestsTyped
  <2>5. Written' = [Written EXCEPT ![r] = "all"]
    <3>1. Written' = [Written EXCEPT ![r] = WrittenFor("upstream", TextFor(r, TRUE))]
      BY <1>3, <2>4, Here, WrittenMoves
    <3>2. TextFor(r, TRUE) # Nothing
      BY <1>0, TextForType
    <3> QED BY <3>1, <3>2 DEF WrittenFor
  <2>6. Contract!Write(r)
    BY <1>0, <1>2, <1>3, <2>5 DEF Contract!Write, IsStream, TextFor
  <2> QED BY <2>3, <2>6 DEF Follows, Contract!Next
<1>4. CASE UNCHANGED reply
  <2>1. Told' /\ UNCHANGED Written
    BY <1>0, <1>1, <1>4, QuietStep DEF cacheVars
  <2> QED BY <1>0, <1>2, <1>4, <2>1 DEF Follows, ClientView
<1> QED BY <1>1, <1>3, <1>4

(* What a stream has received is kept: a text that has been written.       *)
LEMMA CloseFollows ==
  ASSUME DInv, Told, NEW r \in Request, Close(r)
  PROVE  Told' /\ Follows
<1>0. /\ pc[r] \in {"closing", "leaving"} /\ ask[r] \in Ask /\ via[r] = "upstream"
      /\ Stage[r] = "open" /\ StageOf("recording") = "open" /\ StageOf("recordingCut") = "open"
      /\ UNCHANGED << ask, reply, locked, rows, via, dropped >> /\ conn' \subseteq conn
  BY Here, StageHere DEF Close, Active, Told, Source, StageOf
<1>1. PICK place \in {"recording", "recordingCut"} : Goto(r, place)
  BY DEF Close
<1>2. UNCHANGED << Stage, Written >>
  <2>1. Stage' = [Stage EXCEPT ![r] = "open"]
    BY <1>0, <1>1, Here, StageMoves
  <2> QED BY <1>0, <2>1, WrittenStays DEF Stage
<1>3. Others(r) /\ Remembers(r) /\ Source(r)'
  BY <1>0, <1>1, Here DEF Goto, Others, Remembers, RequestsTyped, Told, Source, TextFor
<1>4. \A s \in Slot : entry'[s] \in {entry[s], Nothing} \/ entry'[s].text \in Contract!Known'
  <2>1. CASE got[r] > 0
    <3> DEFINE whole == reply[r] # Nothing
    <3>1. whole \in BOOLEAN /\ Store(r, whole)
      BY <2>1 DEF Close
    <3>2. TextFor(r, whole) \in Contract!Known
      BY <1>0, <3>1, WrittenIsKnown
    <3>3. UNCHANGED Contract!Known
      BY <1>0, <1>2 DEF Contract!Known
    <3>4. TextFor(r, whole) \in Contract!Known'
      BY <3>2, <3>3
    <3> HIDE DEF whole
    <3> QED BY <1>0, <3>1, <3>4, StoreAdds
  <2>2. CASE ~ got[r] > 0
    BY <2>2 DEF Close, cacheVars
  <2> QED BY <2>1, <2>2
<1>5. Told'
  BY <1>3, <1>4, AssembleTold
<1> QED BY <1>0, <1>2, <1>5 DEF Follows, ClientView

(* The row, its loss, or its end with the client's leave.                  *)
LEMMA SettleFollows ==
  ASSUME DInv, Told, NEW r \in Request, WriteRow(r) \/ RowLocked(r) \/ RowFails(r) \/ CancelRow(r)
  PROVE  Told' /\ Follows
<1>0. /\ pc[r] \in {"recording", "recordingCut"} /\ ask[r] \in Ask
      /\ Stage[r] = "open" /\ Contract!Uncharged(r) /\ rows \in [Request -> Nat] /\ dropped \subseteq Request
      /\ pc[r] = "recording" => reply[r] # Nothing
      /\ pc[r] = "recordingCut" => Written[r] # "nothing" /\ IsStream(ask[r])
      /\ UNCHANGED << cacheVars, ask, reply, conn, via >>
  BY Here, StageHere DEF WriteRow, RowLocked, RowFails, CancelRow, Recording, Active, Told, Source,
                         Replies, Books, Kind, WrittenFor, Contract!Uncharged, RequestsTyped
<1>1. \A s \in Slot : entry'[s] \in {entry[s], Nothing}
  BY <1>0 DEF cacheVars
<1>2. CASE UNCHANGED << pc, rows, dropped >> /\ RowLocked(r)
  <2>1. Others(r) /\ Remembers(r) /\ Source(r)' /\ UNCHANGED << Stage, Written >>
    BY <1>0, <1>2, Here, StageStays, WrittenStays DEF RowLocked, Others, Remembers, RequestsTyped, Told, Source, TextFor
  <2>2. Told'
    BY <1>1, <2>1, AssembleTold
  <2> QED BY <1>0, <1>2, <2>1, <2>2 DEF Follows, ClientView
<1>3. CASE /\ Goto(r, Done(r))
           /\ \/ rows' = [rows EXCEPT ![r] = @ + 1] /\ dropped' = dropped
              \/ rows' = rows /\ dropped' = dropped \cup {r}
           /\ \A q \in Request \ {r} : locked'[q] = locked[q]
  <2>1. /\ Done(r) \in {"broken", "saving", "ok"}
        /\ Done(r) = "broken" <=> pc[r] = "recordingCut"
        /\ Done(r) = "saving" => ask[r].route = "images"
        /\ Done(r) = "ok" => ask[r].route # "images"
    BY <1>0 DEF Done
  <2>2. Told' /\ UNCHANGED Written /\ Stage' = [Stage EXCEPT ![r] = StageOf(Done(r))]
    BY <1>0, <1>1, <1>3, <2>1, QuietStep
  <2>3. StageOf(Done(r)) = IF Done(r) = "broken" THEN "cut" ELSE IF Done(r) = "saving" THEN "open" ELSE "answered"
    BY <2>1 DEF StageOf, Active
  <2>4. \/ rows' = [rows EXCEPT ![r] = 1] /\ dropped' = dropped
        \/ rows' = rows /\ dropped' = dropped \cup {r}
    BY <1>0, <1>3 DEF Contract!Uncharged
  <2>5. Contract!Settle(r)
    BY <1>0, <2>1, <2>2, <2>3, <2>4 DEF Contract!Settle, IsStream
  <2> QED BY <2>2, <2>5 DEF Follows, Contract!Next
<1>4. CASE CancelRow(r)
  <2>1. Told' /\ UNCHANGED Written /\ Stage' = [Stage EXCEPT ![r] = StageOf("gone")]
    BY <1>0, <1>1, <1>4, QuietStep DEF CancelRow
  <2>2. StageOf("gone") = "cut" /\ IsStream(ask[r]) /\ dropped' = dropped
    BY <1>4 DEF CancelRow, StageOf, Active
  <2>3. CASE rows' = rows
    <3>1. Contract!Fail(r)
      BY <1>0, <2>1, <2>2, <2>3 DEF Contract!Fail, IsStream
    <3> QED BY <2>1, <3>1 DEF Follows, Contract!Next
  <2>4. CASE rows' = [rows EXCEPT ![r] = @ + 1]
    <3>1. rows' = [rows EXCEPT ![r] = 1]
      BY <1>0, <2>4 DEF Contract!Uncharged
    <3>2. reply[r] # Nothing \/ Written[r] # "nothing"
      BY <1>0
    <3>3. Contract!Settle(r)
      BY <1>0, <2>1, <2>2, <3>1, <3>2 DEF Contract!Settle, IsStream
    <3> QED BY <2>1, <3>3 DEF Follows, Contract!Next
  <2> QED BY <1>4, <2>3, <2>4 DEF CancelRow
<1>5. \A q \in Request \ {r} : locked'[q] = locked[q]
  BY Here DEF WriteRow, RowLocked, RowFails, CancelRow, RequestsTyped
<1> QED BY <1>2, <1>3, <1>4, <1>5 DEF WriteRow, RowLocked, RowFails

(* A generated image is delivered, or cannot be saved.                     *)
LEMMA DeliverFollows ==
  ASSUME DInv, Told, NEW r \in Request, SaveImage(r) \/ SaveFails(r) \/ FileImage(r)
  PROVE  Told' /\ Follows
<1>0. /\ pc[r] \in {"saving", "filing"} /\ ask[r].route = "images"
      /\ Stage[r] = "open" /\ ~ Contract!Uncharged(r)
      /\ UNCHANGED << cacheVars, ask, reply, conn, locked, rows, via, dropped >>
  BY Here, StageHere DEF SaveImage, SaveFails, FileImage, Active, Books, Kind, Contract!Uncharged
<1>1. PICK place \in {"ok", "filing", "failed"} : Goto(r, place)
  BY DEF SaveImage, SaveFails, FileImage
<1>2. Told' /\ UNCHANGED Written /\ Stage' = [Stage EXCEPT ![r] = StageOf(place)]
  BY <1>0, <1>1, QuietStep DEF cacheVars
<1>3. /\ StageOf("ok") = "answered" /\ StageOf("failed") = "refused" /\ StageOf("filing") = "open"
  BY DEF StageOf, Active
<1>4. CASE place = "filing"
  BY <1>0, <1>2, <1>3, <1>4 DEF Follows, ClientView, Stage
<1>5. CASE place # "filing"
  <2>1. Contract!Deliver(r)
    BY <1>0, <1>1, <1>2, <1>3, <1>5 DEF Contract!Deliver
  <2> QED BY <1>2, <2>1 DEF Follows, Contract!Next
<1> QED BY <1>4, <1>5

(* A crash loses what is open, and nothing a client has been told.         *)
LEMMA CrashFollows == ASSUME DInv, Told, Crash PROVE Told' /\ Follows
<1>1. Told'
  <2>1. Backed'
    BY DEF Crash, Backed
  <2>2. \A r \in Request : Source(r)'
    BY DEF Crash, Told, Source, TextFor, Active
  <2> QED BY <2>1, <2>2 DEF Told
<1>2. Contract!Lose
  <2>1. UNCHANGED Written
    BY WrittenStays DEF Crash
  <2>2. Stage' = [r \in Request |-> IF Stage[r] = "open" THEN "lost" ELSE Stage[r]]
    <3>1. ASSUME NEW r \in Request
          PROVE  StageOf(IF pc[r] \in Active THEN "lost" ELSE pc[r])
                   = IF StageOf(pc[r]) = "open" THEN "lost" ELSE StageOf(pc[r])
      <4>1. pc[r] \in {"idle"} \cup Active \cup Terminal
        BY Here DEF RequestsTyped
      <4> QED BY <4>1 DEF StageOf, Active, Terminal
    <3> QED BY <3>1 DEF Crash, Stage
  <2> QED BY <2>1, <2>2 DEF Crash, Contract!Lose
<1> QED BY <1>1, <1>2 DEF Follows, Contract!Next

(* Whatever is cached, evicted, locked, cut off or lost, the routes do     *)
(* what Service promises: an answer was written by a provider, for that    *)
(* request or for one like it; a request is charged once at most, for      *)
(* something it got, and an answered one is charged, let off or a replay;  *)
(* and no request ends twice.                                              *)
THEOREM RoutesKeepTheContract == DispatchSpec => ImplementsService
<1>1. DispatchInit => Told /\ Contract!Init
  <2> SUFFICES ASSUME DispatchInit PROVE Told /\ Contract!Init
    OBVIOUS
  <2>1. Told
    BY DEF DispatchInit, Init, Told, Backed, Source
  <2>2. Contract!Init
    <3>1. StageOf("idle") = "new" /\ \A text : WrittenFor("none", text) = "nothing"
      BY DEF StageOf, Active, WrittenFor
    <3>2. Stage = [r \in Request |-> "new"] /\ Written = [r \in Request |-> "nothing"]
      BY <3>1 DEF DispatchInit, Stage, Written
    <3> QED BY <3>2 DEF DispatchInit, Contract!Init
  <2> QED BY <2>1, <2>2
<1>2. DInv /\ Told /\ [DispatchNext]_vars => Told' /\ Follows
  <2> SUFFICES ASSUME DInv, Told, [DispatchNext]_vars PROVE Told' /\ Follows
    OBVIOUS
  <2>1. ASSUME NEW r \in Request, NEW a \in Asks, Unknown(r, a) \/ Arrive(r, a) \/ ArriveStream(r, a)
        PROVE  Told' /\ Follows
    <3>1. a \in Ask
      BY DispatchAssumption
    <3> QED BY <2>1, <3>1, UnknownFollows, ArriveFollows
  <2>2. ASSUME NEW r \in Request, Proceed(r) PROVE Told' /\ Follows
    BY <2>2, OpenFollows, HiddenFollows, FailureFollows, WriteFollows, LeaveLoopFollows, CloseFollows,
       SettleFollows, DeliverFollows DEF Proceed
  <2>3. CASE Crash
    BY <2>3, CrashFollows
  <2>4. ASSUME UNCHANGED << requestVars, crashes >>,
               \A s \in Slot : entry'[s] = Nothing \/ (entry[s] # Nothing /\ entry'[s].text = entry[s].text)
        PROVE  Told' /\ Follows
    <3>1. UNCHANGED << Stage, Written, Contract!Known >>
      BY <2>4 DEF Stage, Written, Contract!Known, requestVars
    <3>2. Backed'
      BY <2>4, <3>1 DEF Told, Backed
    <3>3. \A r \in Request : Source(r)'
      BY <2>4 DEF Told, Source, TextFor, requestVars
    <3> QED BY <2>4, <3>1, <3>2, <3>3 DEF Told, Follows, ClientView, requestVars
  <2>5. CASE Tick
    <3>1. \A s \in Slot : entry'[s] = Nothing \/ (entry[s] # Nothing /\ entry'[s].text = entry[s].text)
      BY <2>5, AgedEntry DEF Tick, DInv
    <3> QED BY <2>4, <2>5, <3>1 DEF Tick
  <2>6. CASE UNCHANGED vars
    BY <2>4, <2>6 DEF vars, cacheVars
  <2> QED BY <2>1, <2>2, <2>3, <2>5, <2>6 DEF DispatchNext
<1>3. DispatchSpec => []Told
  BY <1>1, <1>2, DInvHolds, PTL DEF DispatchSpec
<1> QED BY <1>1, <1>2, <1>3, DInvHolds, PTL DEF DispatchSpec, ImplementsService, Contract!Spec, Follows, ClientView
=============================================================================
