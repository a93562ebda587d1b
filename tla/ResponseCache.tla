---------------------------- MODULE ResponseCache ----------------------------
(***************************************************************************)
(* CacheService (services/cache.py): the in-memory cache of responses with *)
(* a lifetime per entry and eviction of the least recently used.           *)
(*                                                                         *)
(* The OrderedDict is represented by the order of its keys and a function  *)
(* from keys to entries.  An entry's expires_at is represented by the      *)
(* seconds left until then.  No method awaits anything while it holds the  *)
(* lock, so on one event loop the lock is always free and each call is one *)
(* step.                                                                   *)
(***************************************************************************)
EXTENDS Naturals, SequencesExt

CONSTANTS
  Slot,        \* the digests of _key, plain or prefixed with "stream:"
  Text,        \* cached values
  MaxEntries,  \* _max_entries
  Lifetime,    \* _ttl_seconds
  Nothing      \* None

ASSUME CacheAssumption ==
  /\ MaxEntries \in Nat \ {0}
  /\ Lifetime \in Nat \ {0}
  /\ Nothing \notin Text
  /\ Nothing \notin [text : Text, left : 0 .. Lifetime]

VARIABLES
  order,   \* the keys of _store, least recently used first
  entry,   \* the entry of each key, Nothing for a key that is not there
  answer,  \* what the last get returned
  older    \* history: << s, u >> if u has been used since s was

cacheVars == << order, entry, answer, older >>

Entry  == [text : Text, left : 0 .. Lifetime]
Stored == {s \in Slot : entry[s] # Nothing}

TypeOK ==
  /\ order \in Seq(Slot)
  /\ Len(order) <= MaxEntries
  /\ entry \in [Slot -> Entry \cup {Nothing}]
  /\ answer \in Text \cup {Nothing}
  /\ older \subseteq Slot \X Slot

Fresh(t) == [text |-> t, left |-> Lifetime]

Position(s) == CHOOSE i \in 1 .. Len(order) : order[i] = s

(* The order without its i-th key, and with that key moved to the end.     *)
Without(i)   == RemoveAt(order, i)
MoveToEnd(s) == Append(Without(Position(s)), s)

(* s has just been used.                                                   *)
Touch(s) ==
  older' = {p \in older : p[1] # s} \cup ((Slot \ {s}) \X {s})

-----------------------------------------------------------------------------
(* _get *)

GetAbsent(s) ==
  /\ entry[s] = Nothing
  /\ answer' = Nothing
  /\ UNCHANGED << order, entry, older >>

GetExpired(s) ==
  /\ entry[s] # Nothing
  /\ entry[s].left = 0
  /\ answer' = Nothing
  /\ order' = Without(Position(s))
  /\ entry' = [entry EXCEPT ![s] = Nothing]
  /\ UNCHANGED older

(* Variant: a hit that does not count as a use.                            *)
GetLiveInPlace(s) ==
  /\ entry[s] # Nothing
  /\ entry[s].left > 0
  /\ answer' = entry[s].text
  /\ order' = order
  /\ Touch(s)
  /\ UNCHANGED entry

(* Variant: entries that never expire.                                     *)
GetLiveForever(s) ==
  /\ entry[s] # Nothing
  /\ answer' = entry[s].text
  /\ order' = MoveToEnd(s)
  /\ Touch(s)
  /\ UNCHANGED entry

GetLive(s) ==
  /\ entry[s] # Nothing
  /\ entry[s].left > 0
  /\ answer' = entry[s].text
  /\ order' = MoveToEnd(s)
  /\ Touch(s)
  /\ UNCHANGED entry

Get(s) == GetAbsent(s) \/ GetExpired(s) \/ GetLive(s)

-----------------------------------------------------------------------------
(* _set *)

Replace(s, t) ==
  /\ entry[s] # Nothing
  /\ entry' = [entry EXCEPT ![s] = Fresh(t)]
  /\ order' = MoveToEnd(s)
  /\ Touch(s)
  /\ UNCHANGED answer

(* Variant: the limit is met one entry late.                               *)
FullBeyondLimit == Len(order) > MaxEntries

(* No room for another key.                                                *)
Full == Len(order) >= MaxEntries

(* A new key; the first of the order makes room for it.                    *)
Insert(s, t) ==
  /\ entry[s] = Nothing
  /\ order' = Append(IF Full THEN Tail(order) ELSE order, s)
  /\ entry' = [u \in Slot |-> IF u = s THEN Fresh(t)
                              ELSE IF Full /\ u = Head(order) THEN Nothing
                              ELSE entry[u]]
  /\ Touch(s)
  /\ UNCHANGED answer

Set(s, t) == Replace(s, t) \/ Insert(s, t)

-----------------------------------------------------------------------------

(* The orders in which the keys outside D can be left: their own.          *)
Survivors(D) ==
  {q \in UNION {[1 .. n -> Stored \ D] : n \in 0 .. Len(order)} :
     /\ IsInjective(q)
     /\ Range(q) = Stored \ D
     /\ \A i, j \in DOMAIN q : i < j => Position(q[i]) < Position(q[j])}

(* invalidate: the keys whose digest contains the pattern are deleted.     *)
Invalidate(D) ==
  /\ order' \in Survivors(D)
  /\ entry' = [s \in Slot |-> IF s \in D THEN Nothing ELSE entry[s]]
  /\ UNCHANGED << answer, older >>

(* A second passes on the monotonic clock.                                 *)
Age ==
  /\ entry' = [s \in Slot |->
                 IF entry[s] = Nothing \/ entry[s].left = 0
                   THEN entry[s]
                   ELSE [entry[s] EXCEPT !.left = @ - 1]]
  /\ UNCHANGED << order, answer, older >>

Init ==
  /\ order = << >>
  /\ entry = [s \in Slot |-> Nothing]
  /\ answer = Nothing
  /\ older = {}

Next ==
  \/ \E s \in Slot : Get(s) \/ \E t \in Text : Set(s, t)
  \/ \E D \in SUBSET Stored : Invalidate(D)
  \/ Age

Spec == Init /\ [][Next]_cacheVars

-----------------------------------------------------------------------------
(* Properties *)

(* The two halves of the OrderedDict agree whatever is inserted, replaced, *)
(* expired, evicted and invalidated: every stored key stands exactly once  *)
(* in the order, so an eviction always removes one live key and the cache  *)
(* never grows past its limit.                                             *)
Consistent ==
  /\ IsInjective(order)
  /\ Range(order) = Stored

(* A key is lost to an insertion only when the cache is full, only for a   *)
(* key that was not there, and only if every other key has been used, by a *)
(* hit or a set, since it was.                                             *)
EvictsLeastRecent ==
  [][\A s, u \in Slot :
       /\ entry[s] # Nothing /\ entry'[s] = Nothing
       /\ entry'[u] \notin {entry[u], Nothing}
       => /\ entry[u] = Nothing
          /\ Len(order) = MaxEntries
          /\ \A v \in Stored \ {s} : << s, v >> \in older]_cacheVars

(* The abstract cache: see LossyCache.  A hit is the text of the last set  *)
(* of that key and no older than the lifetime, and each set starts a new   *)
(* lifetime.                                                               *)
Promise == INSTANCE LossyCache WITH memory <- entry

ImplementsLossyCache == Promise!Spec
=============================================================================
