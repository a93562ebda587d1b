------------------------- MODULE ConversationProofs -------------------------
(***************************************************************************)
(* Proofs about Conversation and the operators of Translate, for any       *)
(* number of requests and of reroutes and any length of the cache key: the *)
(* history may be of any length, so each fact about a request is a fact    *)
(* about sequences of any length.                                          *)
(*                                                                         *)
(* FlatMap is defined by recursion in FlattenSeq.  Its value at << >>, at  *)
(* << x >> and at s \o t is found once, by induction over a set of         *)
(* naturals (Induction) or of sequences (SeqInduction).  From then on the  *)
(* conversions are maps of the messages (Mapped) and facts about a message *)
(* carry over to histories.                                                *)
(*                                                                         *)
(* What clients and models say takes a few forms (Asks, Replies, Hands,    *)
(* Reminds).  The forms bound the cases: what becomes of a message in each *)
(* protocol is found form by form, and what becomes of a request follows.  *)
(* Inv says that the history consists of such messages, that each of its   *)
(* calls but those of the last message is answered behind it, and that the *)
(* request in flight was made of it.                                       *)
(***************************************************************************)
EXTENDS Conversation, SequenceTheorems, FiniteSetTheorems, WellFoundedInduction, TLAPS

-----------------------------------------------------------------------------
(* Induction over the naturals, as a fact about sets.                      *)

LEMMA LessIsOrder == \A m, n \in Nat : m < n => << m, n >> \in OpToRel(<, Nat)
BY Zenon DEF OpToRel

LEMMA LeastElement == ASSUME NEW T \in SUBSET Nat, T # {} PROVE \E n \in T : \A m \in T : n <= m
<1>1. PICK R : R = OpToRel(<, Nat)
  BY Zenon
<1>2. IsWellFoundedOn(R, Nat)
  BY <1>1, NatLessThanWellFounded, Zenon
<1>3. \A m, n \in Nat : m < n => << m, n >> \in R
  BY <1>1, LessIsOrder, Zenon
<1> HIDE <1>1
<1>4. PICK n \in T : \A m \in T : << m, n >> \notin R
  BY <1>2, WFMin
<1>5. \A m \in T : m \in Nat /\ n \in Nat /\ ~ (m < n)
  BY <1>3, <1>4, Zenon
<1> QED BY <1>5

LEMMA Induction == ASSUME NEW S, 0 \in S, \A n \in Nat : n \in S => n + 1 \in S PROVE Nat \subseteq S
<1> DEFINE T == {n \in Nat : n \notin S}
<1>1. SUFFICES ASSUME T # {} PROVE FALSE
  OBVIOUS
<1>2. PICK n \in T : \A m \in T : n <= m
  BY LeastElement, <1>1
<1>3. n \in Nat /\ n # 0 /\ n \notin S
  BY <1>2
<1>4. n - 1 \in Nat /\ n - 1 \notin T
  BY <1>2, <1>3
<1> QED BY <1>3, <1>4

-----------------------------------------------------------------------------
(* FlattenSeq by what it does at the end of a sequence.                    *)

IsFlat(f, s, n) == f = [i \in 1 .. n |-> IF i = 1 THEN s[i] ELSE f[i - 1] \o s[i]]

LEMMA FlatAt ==
  ASSUME NEW s, NEW n \in Nat, NEW f, IsFlat(f, s, n), NEW i \in 1 .. n
  PROVE  f[i] = IF i = 1 THEN s[i] ELSE f[i - 1] \o s[i]
<1> DEFINE F(g) == [j \in 1 .. n |-> IF j = 1 THEN s[j] ELSE g[j - 1] \o s[j]]
<1>1. f = F(f)
  BY DEF IsFlat
<1>2. F(f)[i] = IF i = 1 THEN s[i] ELSE f[i - 1] \o s[i]
  OBVIOUS
<1> HIDE DEF F
<1> QED BY <1>1, <1>2

LEMMA FlatExists ==
  ASSUME NEW S, NEW s \in Seq(Seq(S))
  PROVE  \A n \in 0 .. Len(s) : \E f : IsFlat(f, s, n)
<1> DEFINE P(n) == n <= Len(s) => \E f : IsFlat(f, s, n)
           T == {n \in Nat : P(n)}
<1>1. P(0)
  <2>1. PICK f : f = [i \in 1 .. 0 |-> << >>]
    OBVIOUS
  <2>2. IsFlat(f, s, 0)
    BY <2>1 DEF IsFlat
  <2> QED BY <2>2
<1>2. ASSUME NEW n \in Nat, P(n), n + 1 <= Len(s)
      PROVE  \E g : IsFlat(g, s, n + 1)
  <2>1. PICK f : IsFlat(f, s, n)
    BY <1>2
  <2> DEFINE last == IF n + 1 = 1 THEN s[n + 1] ELSE f[n] \o s[n + 1]
             g == [i \in 1 .. n + 1 |-> IF i = n + 1 THEN last ELSE f[i]]
  <2>5. ASSUME NEW i \in 1 .. n + 1 PROVE g[i] = IF i = 1 THEN s[i] ELSE g[i - 1] \o s[i]
    <3>1. CASE i = n + 1
      BY <3>1, <1>2
    <3>2. CASE i # n + 1
      <4>1. i \in 1 .. n /\ g[i] = f[i] /\ (i # 1 => g[i - 1] = f[i - 1])
        BY <3>2
      <4>2. f[i] = IF i = 1 THEN s[i] ELSE f[i - 1] \o s[i]
        BY <4>1, <2>1, FlatAt
      <4> HIDE DEF g
      <4> QED BY <4>1, <4>2
    <3> QED BY <3>1, <3>2
  <2>6. IsFlat(g, s, n + 1)
    <3>1. g = [i \in 1 .. n + 1 |-> g[i]]
      OBVIOUS
    <3> HIDE DEF g
    <3> QED BY <3>1, <2>5 DEF IsFlat
  <2> QED BY <2>6
<1>3. \A n \in Nat : P(n) => P(n + 1)
  BY <1>2, Zenon
<1> HIDE DEF P
<1>4. 0 \in T /\ \A n \in Nat : n \in T => n + 1 \in T
  BY <1>1, <1>3
<1>5. Nat \subseteq T
  <2> HIDE DEF T
  <2> QED BY <1>4, Induction
<1>6. \A n \in 0 .. Len(s) : P(n)
  BY <1>5
<1> QED BY <1>6 DEF P

LEMMA FlatTyped ==
  ASSUME NEW S, NEW s \in Seq(Seq(S)), NEW n \in 0 .. Len(s), NEW f, IsFlat(f, s, n)
  PROVE  \A i \in 1 .. n : f[i] \in Seq(S)
<1> DEFINE P(i) == i \in 1 .. n => f[i] \in Seq(S)
           T == {i \in Nat : P(i)}
<1>1. P(0)
  OBVIOUS
<1>2. ASSUME NEW i \in Nat, P(i), i + 1 \in 1 .. n PROVE f[i + 1] \in Seq(S)
  <2>1. f[i + 1] = IF i + 1 = 1 THEN s[i + 1] ELSE f[i] \o s[i + 1]
    BY <1>2, FlatAt
  <2>2. s[i + 1] \in Seq(S)
    BY <1>2
  <2> QED BY <2>1, <2>2, <1>2, ConcatProperties
<1>3. \A i \in Nat : P(i) => P(i + 1)
  BY <1>2, Zenon
<1> HIDE DEF P
<1>4. 0 \in T /\ \A i \in Nat : i \in T => i + 1 \in T
  BY <1>1, <1>3
<1>5. Nat \subseteq T
  <2> HIDE DEF T
  <2> QED BY <1>4, Induction
<1>6. \A i \in 1 .. n : P(i)
  BY <1>5
<1> QED BY <1>6 DEF P

LEMMA FlattenIsFlat ==
  ASSUME NEW S, NEW s \in Seq(Seq(S)), s # << >>
  PROVE  \E f : IsFlat(f, s, Len(s)) /\ FlattenSeq(s) = f[Len(s)]
<1>1. Len(s) \in Nat /\ Len(s) # 0
  BY EmptySeq
<1>2. PICK g : IsFlat(g, s, Len(s))
  BY <1>1, FlatExists
<1> DEFINE f == CHOOSE h : IsFlat(h, s, Len(s))
<1>3. IsFlat(f, s, Len(s))
  BY <1>2
<1>4. FlattenSeq(s) = f[Len(s)]
  BY <1>1 DEF FlattenSeq, IsFlat
<1> HIDE DEF f
<1> QED BY <1>3, <1>4

LEMMA FlattenEmpty == FlattenSeq(<< >>) = << >>
BY DEF FlattenSeq

LEMMA FlattenTyped == ASSUME NEW S, NEW s \in Seq(Seq(S)) PROVE FlattenSeq(s) \in Seq(S)
<1>1. CASE s = << >>
  <2>1. << >> \in Seq(S)
    OBVIOUS
  <2> QED BY <1>1, <2>1, FlattenEmpty, Zenon
<1>2. CASE s # << >>
  <2>1. PICK f : IsFlat(f, s, Len(s)) /\ FlattenSeq(s) = f[Len(s)]
    BY <1>2, FlattenIsFlat
  <2>2. Len(s) \in 1 .. Len(s) /\ Len(s) \in 0 .. Len(s)
    BY <1>2, EmptySeq
  <2>3. \A i \in 1 .. Len(s) : f[i] \in Seq(S)
    BY <2>1, <2>2, FlatTyped
  <2> QED BY <2>1, <2>2, <2>3
<1> QED BY <1>1, <1>2

LEMMA FlattenAppend ==
  ASSUME NEW S, NEW s \in Seq(Seq(S)), NEW x \in Seq(S)
  PROVE  FlattenSeq(Append(s, x)) = FlattenSeq(s) \o x
<1> DEFINE longer == Append(s, x)
<1>1. /\ longer \in Seq(Seq(S)) /\ Len(s) \in Nat /\ Len(s) + 1 \in Nat
      /\ Len(longer) = Len(s) + 1 /\ longer[Len(s) + 1] = x
      /\ \A i \in 1 .. Len(s) : s[i] = longer[i]
  BY AppendProperties
<1> HIDE DEF longer
<1>2. PICK n \in Nat, k \in Nat, t \in Seq(Seq(S)) : n = Len(s) /\ k = Len(s) + 1 /\ t = longer
  BY <1>1, Zenon
<1>3. n <= k /\ k - 1 = n /\ k \in 1 .. k /\ (n = 0 <=> s = << >>)
  BY <1>2, EmptySeq
<1>4. PICK g : IsFlat(g, t, k) /\ FlattenSeq(t) = g[k]
  <2>1. t # << >> /\ Len(t) = k
    BY <1>1, <1>2, EmptySeq
  <2> QED BY <2>1, FlattenIsFlat
<1>5. g[k] = IF k = 1 THEN x ELSE g[n] \o x
  <2>1. g[k] = IF k = 1 THEN t[k] ELSE g[k - 1] \o t[k]
    BY <1>3, <1>4, FlatAt
  <2>2. t[k] = x
    BY <1>1, <1>2
  <2> QED BY <1>3, <2>1, <2>2
<1>6. CASE s = << >>
  <2>1. k = 1 /\ << >> \o x = x
    BY <1>3, <1>6
  <2> QED BY <1>2, <1>4, <1>5, <1>6, <2>1, FlattenEmpty DEF longer
<1>7. CASE s # << >>
  <2>1. PICK f : IsFlat(f, s, n) /\ FlattenSeq(s) = f[n]
    BY <1>2, <1>7, FlattenIsFlat
  <2>2. n \in 1 .. n /\ k # 1
    BY <1>3, <1>7
  <2> DEFINE P(i) == i \in 1 .. n => f[i] = g[i]
             T == {i \in Nat : P(i)}
  <2>3. P(0)
    OBVIOUS
  <2>4. ASSUME NEW i \in Nat, P(i), i + 1 \in 1 .. n PROVE f[i + 1] = g[i + 1]
    <3>1. f[i + 1] = IF i + 1 = 1 THEN s[i + 1] ELSE f[i] \o s[i + 1]
      BY <2>1, <2>4, FlatAt
    <3>2. g[i + 1] = IF i + 1 = 1 THEN t[i + 1] ELSE g[i] \o t[i + 1]
      <4>1. i + 1 \in 1 .. k /\ (i + 1) - 1 = i
        BY <1>3, <2>4
      <4> QED BY <1>4, <4>1, FlatAt
    <3>3. s[i + 1] = t[i + 1]
      BY <1>1, <1>2, <2>4
    <3> QED BY <2>4, <3>1, <3>2, <3>3
  <2>5. \A i \in Nat : P(i) => P(i + 1)
    BY <2>4, Zenon
  <2> HIDE DEF P
  <2>6. 0 \in T /\ \A i \in Nat : i \in T => i + 1 \in T
    BY <2>3, <2>5
  <2>7. Nat \subseteq T
    <3> HIDE DEF T
    <3> QED BY <2>6, Induction
  <2>8. P(n)
    BY <2>7
  <2>9. f[n] = g[n]
    BY <2>2, <2>8 DEF P
  <2> QED BY <1>2, <1>4, <1>5, <2>1, <2>2, <2>9 DEF longer
<1> QED BY <1>6, <1>7

LEMMA Single == ASSUME NEW S, NEW x \in S PROVE << x >> \in Seq(S)
OBVIOUS

LEMMA Pair ==
  ASSUME NEW S, NEW x \in S, NEW y \in S
  PROVE  << x >> \in Seq(S) /\ << y >> \in Seq(S) /\ << x, y >> \in Seq(S) /\ << x, y >> = << x >> \o << y >>
<1>1. << x >> \in Seq(S) /\ << y >> \in Seq(S) /\ << x, y >> \in Seq(S)
  OBVIOUS
<1>2. /\ << x >> \o << y >> \in Seq(S) /\ Len(<< x >> \o << y >>) = 2
      /\ \A i \in 1 .. 2 : (<< x >> \o << y >>)[i] = IF i <= 1 THEN << x >>[i] ELSE << y >>[i - 1]
  BY <1>1, ConcatProperties
<1>3. Len(<< x, y >>) = 2 /\ << x, y >>[1] = (<< x >> \o << y >>)[1] /\ << x, y >>[2] = (<< x >> \o << y >>)[2]
  BY <1>2
<1>4. PICK s \in Seq(S), t \in Seq(S) : s = << x, y >> /\ t = << x >> \o << y >>
  BY <1>1, <1>2
<1>5. Len(s) = 2 /\ Len(t) = 2 /\ s[1] = t[1] /\ s[2] = t[2]
  BY <1>2, <1>3, <1>4
<1>6. s = t
  BY <1>5, SeqEqual
<1> QED BY <1>1, <1>4, <1>6

LEMMA Joining ==
  \A x, y : << x >> \o << >> = << x >> /\ << x >> \o << y >> = << x, y >> /\ << x >> # << >>
<1> TAKE x, y
<1>1. x \in {x, y} /\ y \in {x, y}
  OBVIOUS
<1>2. << x, y >> = << x >> \o << y >>
  BY <1>1, Pair
<1>3. << x >> \o << >> = << x >>
  OBVIOUS
<1>4. << x >> # << >>
  OBVIOUS
<1> QED BY <1>2, <1>3, <1>4, Zenon

LEMMA SeqInduction ==
  ASSUME NEW S, NEW T, << >> \in T, \A s \in Seq(S) : \A e \in S : s \in T => Append(s, e) \in T
  PROVE  Seq(S) \subseteq T
<1> DEFINE P(n) == \A s \in Seq(S) : Len(s) = n => s \in T
           N == {n \in Nat : P(n)}
<1>1. P(0)
  BY EmptySeq
<1>2. ASSUME NEW n \in Nat, P(n), NEW s \in Seq(S), Len(s) = n + 1 PROVE s \in T
  <2>1. s # << >>
    BY <1>2
  <2>2. PICK t \in Seq(S), e \in S : s = Append(t, e)
    BY <2>1, SequenceEmptyOrAppend
  <2>3. Len(t) = n
    BY <1>2, <2>2, AppendProperties, LenProperties
  <2> QED BY <1>2, <2>2, <2>3
<1>3. \A n \in Nat : P(n) => P(n + 1)
  BY <1>2
<1> HIDE DEF P
<1>4. 0 \in N /\ \A n \in Nat : n \in N => n + 1 \in N
  BY <1>1, <1>3
<1>5. Nat \subseteq N
  <2> HIDE DEF N
  <2> QED BY <1>4, Induction
<1>6. \A n \in Nat : P(n)
  BY <1>5
<1> QED BY <1>6, LenProperties DEF P

LEMMA FlattenConcat ==
  ASSUME NEW S, NEW s \in Seq(Seq(S)), NEW t \in Seq(Seq(S))
  PROVE  FlattenSeq(s \o t) = FlattenSeq(s) \o FlattenSeq(t)
<1> DEFINE P(u) == FlattenSeq(s \o u) = FlattenSeq(s) \o FlattenSeq(u)
           T == {u \in Seq(Seq(S)) : P(u)}
<1>1. P(<< >>)
  <2>1. s \o << >> = s /\ FlattenSeq(s) \o << >> = FlattenSeq(s)
    BY FlattenTyped, ConcatEmptySeq
  <2> QED BY <2>1, FlattenEmpty
<1>2. ASSUME NEW u \in Seq(Seq(S)), NEW x \in Seq(S), P(u) PROVE P(Append(u, x))
  <2>1. s \o Append(u, x) = Append(s \o u, x)
    <3>1. Append(u, x) = u \o << x >> /\ << x >> \in Seq(Seq(S))
      BY AppendIsConcat
    <3>2. s \o u \in Seq(Seq(S))
      BY ConcatProperties
    <3>3. Append(s \o u, x) = (s \o u) \o << x >>
      BY <3>2, AppendIsConcat
    <3> QED BY <3>1, <3>3, ConcatAssociative
  <2>2. FlattenSeq(Append(s \o u, x)) = FlattenSeq(s \o u) \o x
    BY FlattenAppend, ConcatProperties
  <2>3. FlattenSeq(Append(u, x)) = FlattenSeq(u) \o x
    BY FlattenAppend
  <2>4. (FlattenSeq(s) \o FlattenSeq(u)) \o x = FlattenSeq(s) \o (FlattenSeq(u) \o x)
    BY SMTT(20), FlattenTyped, ConcatAssociative
  <2> QED BY <1>2, <2>1, <2>2, <2>3, <2>4
<1> HIDE DEF P
<1>3. << >> \in T /\ \A u \in Seq(Seq(S)) : \A x \in Seq(S) : u \in T => Append(u, x) \in T
  BY <1>1, <1>2, AppendProperties
<1>4. Seq(Seq(S)) \subseteq T
  <2> HIDE DEF T
  <2> QED BY <1>3, SeqInduction
<1>5. P(t)
  BY <1>4
<1> QED BY <1>5 DEF P

-----------------------------------------------------------------------------
(* FlatMap, with a function in the place of the operator.                  *)

(* FlatMap of the function f.                                              *)
Mapped(s, f) == FlattenSeq([i \in 1 .. Len(s) |-> f[s[i]]])

(* To each element of T a sequence over S.                                 *)
Gives(f, T, S) == f \in [T -> Seq(S)]

LEMMA MappedEach ==
  ASSUME NEW S, NEW T, NEW f, Gives(f, T, S), NEW s \in Seq(T)
  PROVE  /\ [i \in 1 .. Len(s) |-> f[s[i]]] \in Seq(Seq(S))
         /\ Len([i \in 1 .. Len(s) |-> f[s[i]]]) = Len(s)
<1>1. Len(s) \in Nat /\ \A i \in 1 .. Len(s) : s[i] \in T
  BY LenProperties, ElementOfSeq
<1> QED BY <1>1 DEF Gives

LEMMA MappedTyped ==
  ASSUME NEW S, NEW T, NEW f, Gives(f, T, S), NEW s \in Seq(T)
  PROVE  Mapped(s, f) \in Seq(S)
<1> DEFINE u == [i \in 1 .. Len(s) |-> f[s[i]]]
<1>1. u \in Seq(Seq(S))
  BY MappedEach
<1>2. Mapped(s, f) = FlattenSeq(u)
  BY DEF Mapped
<1> HIDE DEF u
<1> QED BY <1>1, <1>2, FlattenTyped

LEMMA MappedEmpty == ASSUME NEW f PROVE Mapped(<< >>, f) = << >>
<1>1. [i \in 1 .. Len(<< >>) |-> f[<< >>[i]]] = << >>
  OBVIOUS
<1> QED BY <1>1, FlattenEmpty, Zenon DEF Mapped

LEMMA MappedConcat ==
  ASSUME NEW S, NEW T, NEW f, Gives(f, T, S), NEW s \in Seq(T), NEW t \in Seq(T)
  PROVE  Mapped(s \o t, f) = Mapped(s, f) \o Mapped(t, f)
<1> DEFINE F(u) == [i \in 1 .. Len(u) |-> f[u[i]]]
<1>1. \A u \in Seq(T) : F(u) \in Seq(Seq(S)) /\ Len(F(u)) = Len(u) /\ Len(u) \in Nat
  BY MappedEach, LenProperties
<1>2. \A u \in Seq(T) : \A i \in 1 .. Len(u) : F(u)[i] = f[u[i]]
  OBVIOUS
<1>3. /\ s \o t \in Seq(T) /\ Len(s \o t) = Len(s) + Len(t)
      /\ \A i \in 1 .. Len(s) + Len(t) : (s \o t)[i] = IF i <= Len(s) THEN s[i] ELSE t[i - Len(s)]
  BY ConcatProperties
<1> HIDE DEF F
<1>4. F(s \o t) = F(s) \o F(t)
  <2>0. /\ F(s) \in Seq(Seq(S)) /\ Len(F(s)) = Len(s) /\ Len(s) \in Nat
        /\ F(t) \in Seq(Seq(S)) /\ Len(F(t)) = Len(t) /\ Len(t) \in Nat
    BY <1>1
  <2>1. F(s) \o F(t) \in Seq(Seq(S)) /\ Len(F(s) \o F(t)) = Len(s) + Len(t)
    <3>1. F(s) \o F(t) \in Seq(Seq(S)) /\ Len(F(s) \o F(t)) = Len(F(s)) + Len(F(t))
      BY <2>0, ConcatProperties, Zenon
    <3> QED BY <2>0, <3>1, Zenon
  <2>2. \A i \in 1 .. Len(s) + Len(t) :
          (F(s) \o F(t))[i] = IF i <= Len(s) THEN F(s)[i] ELSE F(t)[i - Len(s)]
    BY <2>0, ConcatProperties
  <2>3. ASSUME NEW i \in 1 .. Len(s) + Len(t) PROVE F(s \o t)[i] = (F(s) \o F(t))[i]
    <3>1. F(s \o t)[i] = f[(s \o t)[i]]
      BY <1>2, <1>3
    <3>2. CASE i <= Len(s)
      BY <1>1, <1>2, <1>3, <2>2, <3>1, <3>2
    <3>3. CASE ~ (i <= Len(s))
      <4>1. i - Len(s) \in 1 .. Len(t)
        BY <1>1, <3>3
      <4>2. F(t)[i - Len(s)] = f[t[i - Len(s)]]
        BY <1>2, <4>1
      <4> QED BY <1>3, <2>2, <3>1, <3>3, <4>2
    <3> QED BY <3>2, <3>3
  <2>4. F(s \o t) \in Seq(Seq(S)) /\ Len(F(s \o t)) = Len(s) + Len(t)
    BY <1>1, <1>3
  <2> QED BY <2>1, <2>3, <2>4, SeqEqual
<1>5. FlattenSeq(F(s) \o F(t)) = FlattenSeq(F(s)) \o FlattenSeq(F(t))
  BY <1>1, FlattenConcat
<1>6. /\ Mapped(s, f) = FlattenSeq(F(s)) /\ Mapped(t, f) = FlattenSeq(F(t))
      /\ Mapped(s \o t, f) = FlattenSeq(F(s \o t))
  BY DEF Mapped, F
<1> QED BY <1>4, <1>5, <1>6, Zenon

LEMMA MappedOne ==
  ASSUME NEW S, NEW T, NEW f, Gives(f, T, S), NEW x \in T
  PROVE  Mapped(<< x >>, f) = f[x]
<1>1. [i \in 1 .. Len(<< x >>) |-> f[<< x >>[i]]] = Append(<< >>, f[x])
  OBVIOUS
<1>2. FlattenSeq(Append(<< >>, f[x])) = << >> \o f[x]
  <2>1. << >> \in Seq(Seq(S)) /\ f[x] \in Seq(S)
    BY EmptySeq DEF Gives
  <2>2. FlattenSeq(Append(<< >>, f[x])) = FlattenSeq(<< >>) \o f[x]
    BY <2>1, FlattenAppend
  <2> QED BY <2>2, FlattenEmpty
<1>3. << >> \o f[x] = f[x]
  BY ConcatEmptySeq DEF Gives
<1> QED BY <1>1, <1>2, <1>3, Zenon DEF Mapped

-----------------------------------------------------------------------------
(* The operators on blocks and messages, by what they do to a single one   *)
(* and to a concatenation.                                                 *)

Word ==
  {"", "f", "a", "b", "system", "dumped", "malformed", "question", "image", "result", "result 2", "reminder",
   "says", "args"}
Atom == Nat \X Word
Kind == {"text", "image", "call", "result"}
Role == {"system", "user", "assistant", "tool", "model"}
BlockSet == [kind : Kind, id : Atom, of : Seq(Atom)]
MessageSet == [role : Role, content : Seq(BlockSet)]

(* Only, block by block.                                                   *)
OnlyFn(kinds) == [b \in BlockSet |-> IF b.kind \in kinds THEN << b >> ELSE << >>]

LEMMA OnlyFnTyped == \A kinds : Gives(OnlyFn(kinds), BlockSet, BlockSet)
BY DEF OnlyFn, Gives

LEMMA OnlyIs == ASSUME NEW kinds, NEW s \in Seq(BlockSet) PROVE Only(s, kinds) = Mapped(s, OnlyFn(kinds))
<1>1. \A i \in 1 .. Len(s) : s[i] \in BlockSet
  BY ElementOfSeq
<1>2. \A i \in 1 .. Len(s) : OnlyFn(kinds)[s[i]] = IF s[i].kind \in kinds THEN << s[i] >> ELSE << >>
  BY <1>1 DEF OnlyFn
<1> QED BY <1>2 DEF Only, Keep, FlatMap, Mapped

LEMMA OnlyTyped == ASSUME NEW kinds, NEW s \in Seq(BlockSet) PROVE Only(s, kinds) \in Seq(BlockSet)
BY OnlyIs, OnlyFnTyped, MappedTyped

LEMMA OnlyEmpty == \A kinds : Only(<< >>, kinds) = << >>
<1> TAKE kinds
<1>1. << >> \in Seq(BlockSet)
  BY EmptySeq
<1> QED BY <1>1, OnlyIs, MappedEmpty

LEMMA OnlyConcat ==
  ASSUME NEW kinds, NEW s \in Seq(BlockSet), NEW t \in Seq(BlockSet)
  PROVE  Only(s \o t, kinds) = Only(s, kinds) \o Only(t, kinds)
<1>1. s \o t \in Seq(BlockSet)
  BY ConcatProperties
<1>2. Mapped(s \o t, OnlyFn(kinds)) = Mapped(s, OnlyFn(kinds)) \o Mapped(t, OnlyFn(kinds))
  BY OnlyFnTyped, MappedConcat
<1> QED BY <1>1, <1>2, OnlyIs

LEMMA OnlyOne ==
  ASSUME NEW kinds, NEW b \in BlockSet
  PROVE  Only(<< b >>, kinds) = IF b.kind \in kinds THEN << b >> ELSE << >>
<1>1. << b >> \in Seq(BlockSet)
  OBVIOUS
<1>2. Mapped(<< b >>, OnlyFn(kinds)) = OnlyFn(kinds)[b]
  BY OnlyFnTyped, MappedOne
<1> QED BY <1>1, <1>2, OnlyIs DEF OnlyFn

LEMMA OnlyTwo ==
  ASSUME NEW kinds, NEW b \in BlockSet, NEW c \in BlockSet
  PROVE  Only(<< b, c >>, kinds) =
           IF b.kind \in kinds THEN (IF c.kind \in kinds THEN << b, c >> ELSE << b >>)
                               ELSE (IF c.kind \in kinds THEN << c >> ELSE << >>)
<1>1. << b >> \in Seq(BlockSet) /\ << c >> \in Seq(BlockSet) /\ << b, c >> = << b >> \o << c >>
  BY Pair
<1>2. Only(<< b, c >>, kinds) = Only(<< b >>, kinds) \o Only(<< c >>, kinds)
  BY <1>1, OnlyConcat
<1>3. << b >> \o << >> = << b >> /\ << >> \o << c >> = << c >> /\ << >> \o << >> = << >>
  BY <1>1, ConcatEmptySeq
<1> QED BY <1>1, <1>2, <1>3, OnlyOne

OfFn == [b \in BlockSet |-> b.of]

LEMMA OfFnTyped == Gives(OfFn, BlockSet, Atom)
BY DEF OfFn, BlockSet, Gives

LEMMA TextIs == ASSUME NEW s \in Seq(BlockSet) PROVE TextOf(s) = Mapped(Only(s, {"text"}), OfFn)
<1>1. PICK t \in Seq(BlockSet) : t = Only(s, {"text"})
  BY OnlyTyped
<1>2. \A i \in 1 .. Len(t) : OfFn[t[i]] = t[i].of
  BY ElementOfSeq DEF OfFn
<1>3. [i \in 1 .. Len(t) |-> OfFn[t[i]]] = [i \in 1 .. Len(t) |-> t[i].of]
  BY <1>2
<1> QED BY <1>1, <1>3 DEF TextOf, FlatMap, Mapped

LEMMA TextTyped == ASSUME NEW s \in Seq(BlockSet) PROVE TextOf(s) \in Seq(Atom)
BY TextIs, OnlyTyped, OfFnTyped, MappedTyped

LEMMA TextConcat ==
  ASSUME NEW s \in Seq(BlockSet), NEW t \in Seq(BlockSet)
  PROVE  TextOf(s \o t) = TextOf(s) \o TextOf(t)
<1>1. s \o t \in Seq(BlockSet)
  BY ConcatProperties
<1>2. Only(s \o t, {"text"}) = Only(s, {"text"}) \o Only(t, {"text"})
  BY OnlyConcat
<1>3. Only(s, {"text"}) \in Seq(BlockSet) /\ Only(t, {"text"}) \in Seq(BlockSet)
  BY OnlyTyped
<1>4. Mapped(Only(s, {"text"}) \o Only(t, {"text"}), OfFn) =
        Mapped(Only(s, {"text"}), OfFn) \o Mapped(Only(t, {"text"}), OfFn)
  BY <1>3, OfFnTyped, MappedConcat
<1> QED BY <1>1, <1>2, <1>4, TextIs

LEMMA TextOne ==
  ASSUME NEW b \in BlockSet PROVE TextOf(<< b >>) = IF b.kind = "text" THEN b.of ELSE << >>
<1>1. << b >> \in Seq(BlockSet)
  OBVIOUS
<1>2. Mapped(<< b >>, OfFn) = b.of
  BY OfFnTyped, MappedOne DEF OfFn
<1> QED BY <1>1, <1>2, TextIs, OnlyOne, MappedEmpty

LEMMA TextTwo ==
  ASSUME NEW b \in BlockSet, NEW c \in BlockSet, c.kind # "text"
  PROVE  TextOf(<< b, c >>) = IF b.kind = "text" THEN b.of ELSE << >>
<1>1. << b, c >> \in Seq(BlockSet)
  OBVIOUS
<1>2. Mapped(<< b >>, OfFn) = b.of
  BY OfFnTyped, MappedOne DEF OfFn
<1> QED BY ZenonT(40), <1>1, <1>2, TextIs, OnlyTwo, MappedEmpty

ContentsFn == [m \in MessageSet |-> m.content]

LEMMA ContentsFnTyped == Gives(ContentsFn, MessageSet, BlockSet)
BY DEF ContentsFn, MessageSet, Gives

LEMMA BlocksIs == ASSUME NEW s \in Seq(MessageSet) PROVE Blocks(s) = Mapped(s, ContentsFn)
<1>1. \A i \in 1 .. Len(s) : ContentsFn[s[i]] = s[i].content
  BY ElementOfSeq DEF ContentsFn
<1>2. [i \in 1 .. Len(s) |-> ContentsFn[s[i]]] = [i \in 1 .. Len(s) |-> s[i].content]
  BY <1>1
<1> QED BY <1>2 DEF Blocks, FlatMap, Mapped

LEMMA BlocksEmpty == Blocks(<< >>) = << >>
<1>1. << >> \in Seq(MessageSet)
  BY EmptySeq
<1> QED BY <1>1, BlocksIs, MappedEmpty

LEMMA BlocksTyped == ASSUME NEW s \in Seq(MessageSet) PROVE Blocks(s) \in Seq(BlockSet)
BY BlocksIs, ContentsFnTyped, MappedTyped

LEMMA BlocksConcat ==
  ASSUME NEW s \in Seq(MessageSet), NEW t \in Seq(MessageSet) PROVE Blocks(s \o t) = Blocks(s) \o Blocks(t)
<1>1. s \o t \in Seq(MessageSet)
  BY ConcatProperties
<1>2. Mapped(s \o t, ContentsFn) = Mapped(s, ContentsFn) \o Mapped(t, ContentsFn)
  BY ContentsFnTyped, MappedConcat
<1> QED BY <1>1, <1>2, BlocksIs

LEMMA BlocksOne == ASSUME NEW m \in MessageSet PROVE Blocks(<< m >>) = m.content
<1>1. << m >> \in Seq(MessageSet)
  OBVIOUS
<1>2. Mapped(<< m >>, ContentsFn) = ContentsFn[m]
  BY ContentsFnTyped, MappedOne
<1> QED BY <1>1, <1>2, BlocksIs DEF ContentsFn

PositiveFn == [a \in Atom |-> IF a[1] > 0 THEN << a >> ELSE << >>]

LEMMA PositiveFnTyped == Gives(PositiveFn, Atom, Atom)
BY DEF PositiveFn, Gives

LEMMA ContentOfIs == ASSUME NEW b \in BlockSet PROVE ContentOf(b) = Mapped(b.of, PositiveFn)
<1>0. b.of \in Seq(Atom)
  BY DEF BlockSet
<1>1. \A i \in 1 .. Len(b.of) : b.of[i] \in Atom
  BY <1>0, ElementOfSeq
<1>2. \A i \in 1 .. Len(b.of) : PositiveFn[b.of[i]] = IF b.of[i][1] > 0 THEN << b.of[i] >> ELSE << >>
  BY <1>1 DEF PositiveFn
<1> QED BY <1>2 DEF ContentOf, Keep, FlatMap, Mapped

CarriedFn == [b \in BlockSet |-> ContentOf(b)]

LEMMA CarriedFnTyped == Gives(CarriedFn, BlockSet, Atom)
<1>1. ASSUME NEW b \in BlockSet PROVE ContentOf(b) \in Seq(Atom)
  <2>1. b.of \in Seq(Atom)
    BY DEF BlockSet
  <2> QED BY <2>1, ContentOfIs, PositiveFnTyped, MappedTyped
<1> QED BY <1>1 DEF CarriedFn, Gives

LEMMA CarriedIs ==
  ASSUME NEW s \in Seq(BlockSet) PROVE FlatMap(s, ContentOf) = Mapped(s, CarriedFn)
<1>1. \A i \in 1 .. Len(s) : CarriedFn[s[i]] = ContentOf(s[i])
  BY ElementOfSeq DEF CarriedFn
<1>2. [i \in 1 .. Len(s) |-> CarriedFn[s[i]]] = [i \in 1 .. Len(s) |-> ContentOf(s[i])]
  BY <1>1
<1> QED BY <1>2 DEF FlatMap, Mapped

LEMMA ContentsIs ==
  ASSUME NEW s \in Seq(MessageSet) PROVE Contents(s) = Mapped(Blocks(s), CarriedFn)
BY BlocksTyped, CarriedIs DEF Contents

LEMMA ContentsTyped == ASSUME NEW s \in Seq(MessageSet) PROVE Contents(s) \in Seq(Atom)
BY ContentsIs, BlocksTyped, CarriedFnTyped, MappedTyped

LEMMA ContentsEmpty == Contents(<< >>) = << >>
<1>1. << >> \in Seq(MessageSet)
  BY EmptySeq
<1> QED BY <1>1, ContentsIs, BlocksEmpty, MappedEmpty

LEMMA ContentsConcat ==
  ASSUME NEW s \in Seq(MessageSet), NEW t \in Seq(MessageSet) PROVE Contents(s \o t) = Contents(s) \o Contents(t)
<1>1. s \o t \in Seq(MessageSet) /\ Blocks(s) \in Seq(BlockSet) /\ Blocks(t) \in Seq(BlockSet)
  BY ConcatProperties, BlocksTyped
<1>2. Mapped(Blocks(s) \o Blocks(t), CarriedFn) = Mapped(Blocks(s), CarriedFn) \o Mapped(Blocks(t), CarriedFn)
  BY <1>1, CarriedFnTyped, MappedConcat
<1> QED BY <1>1, <1>2, ContentsIs, BlocksConcat

LEMMA ContentsOne ==
  ASSUME NEW m \in MessageSet PROVE Contents(<< m >>) = Mapped(m.content, CarriedFn)
<1>1. << m >> \in Seq(MessageSet)
  OBVIOUS
<1> QED BY <1>1, ContentsIs, BlocksOne

(* The ids of the blocks of a kind in messages.                            *)
IdsIn(s, kind) == {b.id : b \in ToSet(Only(Blocks(s), {kind}))}

LEMMA IdsIs == \A s : CallIds(s) = IdsIn(s, "call") /\ ResultIds(s) = IdsIn(s, "result")
BY DEF CallIds, ResultIds, IdsIn

LEMMA ToSetConcat ==
  ASSUME NEW S, NEW s \in Seq(S), NEW t \in Seq(S) PROVE ToSet(s \o t) = ToSet(s) \cup ToSet(t)
<1>1. /\ s \o t \in Seq(S) /\ Len(s \o t) = Len(s) + Len(t) /\ Len(s) \in Nat /\ Len(t) \in Nat
      /\ \A i \in 1 .. Len(s) + Len(t) : (s \o t)[i] = IF i <= Len(s) THEN s[i] ELSE t[i - Len(s)]
  BY ConcatProperties
<1>2. /\ ToSet(s) = {s[i] : i \in 1 .. Len(s)} /\ ToSet(t) = {t[i] : i \in 1 .. Len(t)}
      /\ ToSet(s \o t) = {(s \o t)[i] : i \in 1 .. Len(s) + Len(t)}
  BY <1>1, LenProperties DEF ToSet
<1>3. ASSUME NEW x \in ToSet(s) PROVE x \in ToSet(s \o t)
  <2>1. PICK i \in 1 .. Len(s) : x = s[i]
    BY <1>2
  <2>2. i \in 1 .. Len(s) + Len(t) /\ (s \o t)[i] = x
    BY <1>1, <2>1
  <2> QED BY <1>2, <2>2
<1>4. ASSUME NEW x \in ToSet(t) PROVE x \in ToSet(s \o t)
  <2>1. PICK i \in 1 .. Len(t) : x = t[i]
    BY <1>2
  <2>2. i + Len(s) \in 1 .. Len(s) + Len(t) /\ (s \o t)[i + Len(s)] = x
    BY <1>1, <2>1
  <2> QED BY <1>2, <2>2
<1>5. ASSUME NEW x \in ToSet(s \o t) PROVE x \in ToSet(s) \cup ToSet(t)
  <2>1. PICK i \in 1 .. Len(s) + Len(t) : x = (s \o t)[i]
    BY <1>2
  <2>2. i <= Len(s) => i \in 1 .. Len(s) /\ x = s[i]
    BY <1>1, <2>1
  <2>3. ~ (i <= Len(s)) => i - Len(s) \in 1 .. Len(t) /\ x = t[i - Len(s)]
    BY <1>1, <2>1
  <2> QED BY <1>2, <2>2, <2>3
<1> QED BY <1>3, <1>4, <1>5

LEMMA IdsConcat ==
  ASSUME NEW kind, NEW s \in Seq(MessageSet), NEW t \in Seq(MessageSet)
  PROVE  IdsIn(s \o t, kind) = IdsIn(s, kind) \cup IdsIn(t, kind)
<1>1. PICK u \in Seq(BlockSet), v \in Seq(BlockSet) : u = Blocks(s) /\ v = Blocks(t)
  BY BlocksTyped
<1>2. Only(u \o v, {kind}) = Only(u, {kind}) \o Only(v, {kind})
  BY OnlyConcat
<1>3. Only(u, {kind}) \in Seq(BlockSet) /\ Only(v, {kind}) \in Seq(BlockSet)
  BY OnlyTyped
<1>4. ToSet(Only(u, {kind}) \o Only(v, {kind})) = ToSet(Only(u, {kind})) \cup ToSet(Only(v, {kind}))
  BY <1>3, ToSetConcat
<1>5. Blocks(s \o t) = u \o v
  BY <1>1, BlocksConcat
<1> QED BY <1>1, <1>2, <1>4, <1>5 DEF IdsIn

LEMMA IdsEmpty == \A kind : IdsIn(<< >>, kind) = {}
BY BlocksEmpty, OnlyEmpty DEF IdsIn, ToSet

LEMMA IdsOne ==
  ASSUME NEW kind, NEW m \in MessageSet
  PROVE  IdsIn(<< m >>, kind) = {b.id : b \in ToSet(Only(m.content, {kind}))}
BY BlocksOne DEF IdsIn

-----------------------------------------------------------------------------
(* The forms that contents take.  A piece is a block with one atom of      *)
(* content, numbered n; the reminders beside results are told apart.       *)

Odd == {n \in Nat : n % 2 = 1}
Even == {n \in Nat : n % 2 = 0 /\ n > 0}

Reminder == "reminder"
Piece(b, kind, n) ==
  b \in BlockSet /\ b.kind = kind /\ \E w \in Word \ {Reminder} : ContentOf(b) = << << n, w >> >>

(* Pieces that are said under number n.                                    *)
Texts(n) == {b \in BlockSet : Piece(b, "text", n) /\ b.id = NoId /\ b.of # << >>}
Images(n) == {b \in BlockSet : Piece(b, "image", n)}
Calls(n) == {b \in BlockSet : Piece(b, "call", n) /\ b.of # << >> /\ Head(b.of) = << 0, "f" >>}
Results(n) == {b \in BlockSet : Piece(b, "result", n) /\ b.of # << >>}
ReminderAt(n) == Block("text", NoId, << << n, Reminder >> >>)

(* What a client asks, and what a model replies: a text, a call, two       *)
(* calls, or a text and a call.                                            *)
Asks(n) == {<< t >> : t \in Texts(n)} \cup {<< t, i >> : t \in Texts(n), i \in Images(n)}
Replies(n) ==
  {<< t >> : t \in Texts(n)} \cup {<< c >> : c \in Calls(n)}
  \cup {<< c, d >> : c \in Calls(n), d \in Calls(n)} \cup {<< t, c >> : t \in Texts(n), c \in Calls(n)}

LEMMA TextAlone ==
  ASSUME NEW t \in BlockSet, t.kind = "text", t.id = NoId, t.of # << >> PROVE Block("text", NoId, t.of) = t
BY DEF Block, BlockSet

LEMMA NoIdTyped == NoId \in Atom
BY DEF NoId, Atom, Word

LEMMA JoinedTyped == ASSUME NEW s \in Seq(BlockSet) PROVE Joined(s) \in Seq(BlockSet)
<1>1. TextOf(s) \in Seq(Atom)
  BY TextTyped
<1>2. Block("text", NoId, TextOf(s)) \in BlockSet
  BY <1>1, NoIdTyped DEF Block, BlockSet, Kind
<1> QED BY <1>2 DEF Joined, TextBlock

LEMMA PartsOfText ==
  ASSUME NEW n, NEW t \in Texts(n)
  PROVE  /\ Joined(<< t >>) = << t >>
         /\ Only(<< t >>, {"call"}) = << >> /\ Only(<< t >>, {"result"}) = << >> /\ Only(<< t >>, {"image"}) = << >>
         /\ Only(<< t >>, {"text", "image"}) = << t >> /\ Only(<< t >>, {"call", "result"}) = << >>
<1>1. t \in BlockSet /\ t.kind = "text" /\ t.id = NoId /\ t.of # << >>
  BY DEF Texts, Piece
<1>2. Joined(<< t >>) = << t >>
  BY <1>1, TextOne, TextAlone DEF Joined, TextBlock
<1> QED BY <1>1, <1>2, OnlyOne

LEMMA PartsOfPictured ==
  ASSUME NEW n, NEW t \in Texts(n), NEW i \in Images(n)
  PROVE  /\ Joined(<< t, i >>) = << t >>
         /\ Only(<< t, i >>, {"call"}) = << >> /\ Only(<< t, i >>, {"result"}) = << >>
         /\ Only(<< t, i >>, {"image"}) = << i >>
         /\ Only(<< t, i >>, {"text", "image"}) = << t, i >> /\ Only(<< t, i >>, {"call", "result"}) = << >>
<1>1. t \in BlockSet /\ t.kind = "text" /\ t.id = NoId /\ t.of # << >> /\ i \in BlockSet /\ i.kind = "image"
  BY DEF Texts, Images, Piece
<1>2. Joined(<< t, i >>) = << t >>
  <2>1. TextOf(<< t, i >>) = t.of
    BY <1>1, TextTwo
  <2> QED BY <1>1, <2>1, TextAlone DEF Joined, TextBlock
<1>3. ASSUME NEW kinds
      PROVE  Only(<< t, i >>, kinds) =
               IF "text" \in kinds THEN (IF "image" \in kinds THEN << t, i >> ELSE << t >>)
                                     ELSE (IF "image" \in kinds THEN << i >> ELSE << >>)
  BY <1>1, OnlyTwo
<1> QED BY <1>2, <1>3

LEMMA PartsOfCall ==
  ASSUME NEW n, NEW c \in Calls(n)
  PROVE  /\ Joined(<< c >>) = << >>
         /\ Only(<< c >>, {"call"}) = << c >> /\ Only(<< c >>, {"result"}) = << >> /\ Only(<< c >>, {"image"}) = << >>
         /\ Only(<< c >>, {"text", "image"}) = << >> /\ Only(<< c >>, {"call", "result"}) = << c >>
<1>1. c \in BlockSet /\ c.kind = "call"
  BY DEF Calls, Piece
<1>2. Joined(<< c >>) = << >>
  BY <1>1, TextOne DEF Joined, TextBlock
<1> QED BY <1>1, <1>2, OnlyOne

LEMMA PartsOfCalls ==
  ASSUME NEW n, NEW c \in Calls(n), NEW d \in Calls(n)
  PROVE  /\ Joined(<< c, d >>) = << >>
         /\ Only(<< c, d >>, {"call"}) = << c, d >> /\ Only(<< c, d >>, {"result"}) = << >>
         /\ Only(<< c, d >>, {"image"}) = << >>
         /\ Only(<< c, d >>, {"text", "image"}) = << >> /\ Only(<< c, d >>, {"call", "result"}) = << c, d >>
<1>1. c \in BlockSet /\ c.kind = "call" /\ d \in BlockSet /\ d.kind = "call"
  BY DEF Calls, Piece
<1>2. Joined(<< c, d >>) = << >>
  <2>1. TextOf(<< c, d >>) = << >>
    BY <1>1, TextTwo
  <2> QED BY <1>1, <2>1 DEF Joined, TextBlock
<1>3. ASSUME NEW kinds
      PROVE  Only(<< c, d >>, kinds) =
               IF "call" \in kinds THEN << c, d >> ELSE << >>
  <2>1. Only(<< c, d >>, kinds) =
          IF c.kind \in kinds THEN (IF d.kind \in kinds THEN << c, d >> ELSE << c >>)
                            ELSE (IF d.kind \in kinds THEN << d >> ELSE << >>)
    BY <1>1, OnlyTwo
  <2> QED BY <1>1, <2>1
<1> QED BY <1>2, <1>3

LEMMA PartsOfSaidAndCalled ==
  ASSUME NEW n, NEW t \in Texts(n), NEW c \in Calls(n)
  PROVE  /\ Joined(<< t, c >>) = << t >>
         /\ Only(<< t, c >>, {"call"}) = << c >> /\ Only(<< t, c >>, {"result"}) = << >>
         /\ Only(<< t, c >>, {"image"}) = << >>
         /\ Only(<< t, c >>, {"text", "image"}) = << t >> /\ Only(<< t, c >>, {"call", "result"}) = << c >>
<1>1. t \in BlockSet /\ t.kind = "text" /\ t.id = NoId /\ t.of # << >> /\ c \in BlockSet /\ c.kind = "call"
  BY DEF Texts, Calls, Piece
<1>2. Joined(<< t, c >>) = << t >>
  <2>1. TextOf(<< t, c >>) = t.of
    BY <1>1, TextTwo
  <2> QED BY <1>1, <2>1, TextAlone DEF Joined, TextBlock
<1>3. ASSUME NEW kinds
      PROVE  Only(<< t, c >>, kinds) =
               IF "text" \in kinds THEN (IF "call" \in kinds THEN << t, c >> ELSE << t >>)
                                     ELSE (IF "call" \in kinds THEN << c >> ELSE << >>)
  BY <1>1, OnlyTwo
<1> QED BY <1>2, <1>3

LEMMA PartsOfResult ==
  ASSUME NEW n, NEW r \in Results(n)
  PROVE  /\ Joined(<< r >>) = << >>
         /\ Only(<< r >>, {"call"}) = << >> /\ Only(<< r >>, {"result"}) = << r >> /\ Only(<< r >>, {"image"}) = << >>
         /\ Only(<< r >>, {"text", "image"}) = << >> /\ Only(<< r >>, {"call", "result"}) = << r >>
<1>1. r \in BlockSet /\ r.kind = "result"
  BY DEF Results, Piece
<1>2. Joined(<< r >>) = << >>
  BY <1>1, TextOne DEF Joined, TextBlock
<1> QED BY <1>1, <1>2, OnlyOne

LEMMA PartsOfResults ==
  ASSUME NEW n, NEW r \in Results(n), NEW s \in Results(n)
  PROVE  /\ Joined(<< r, s >>) = << >>
         /\ Only(<< r, s >>, {"call"}) = << >> /\ Only(<< r, s >>, {"result"}) = << r, s >>
         /\ Only(<< r, s >>, {"image"}) = << >>
         /\ Only(<< r, s >>, {"text", "image"}) = << >> /\ Only(<< r, s >>, {"call", "result"}) = << r, s >>
<1>1. r \in BlockSet /\ r.kind = "result" /\ s \in BlockSet /\ s.kind = "result"
  BY DEF Results, Piece
<1>2. Joined(<< r, s >>) = << >>
  <2>1. TextOf(<< r, s >>) = << >>
    BY <1>1, TextTwo
  <2> QED BY <1>1, <2>1 DEF Joined, TextBlock
<1>3. ASSUME NEW kinds
      PROVE  Only(<< r, s >>, kinds) =
               IF "result" \in kinds THEN << r, s >> ELSE << >>
  <2>1. Only(<< r, s >>, kinds) =
          IF r.kind \in kinds THEN (IF s.kind \in kinds THEN << r, s >> ELSE << r >>)
                            ELSE (IF s.kind \in kinds THEN << s >> ELSE << >>)
    BY <1>1, OnlyTwo
  <2> QED BY <1>1, <2>1
<1> QED BY <1>2, <1>3

-----------------------------------------------------------------------------
(* The forms of messages, and what the conversions make of them.           *)

(* The results that a client hands in, in one message: of one call or two, *)
(* in an Anthropic message with a reminder perhaps.                        *)
Hands(n) == {<< r >> : r \in Results(n)} \cup {<< r, s >> : r \in Results(n), s \in Results(n)}

Asking == UNION {Asks(n) : n \in Odd}
Replying == UNION {Replies(n) : n \in Even}
Resulting == UNION {Hands(n) : n \in Odd}
Reminds(n) == {x \o << ReminderAt(n) >> : x \in Hands(n)}
Reminding == UNION {Reminds(n) : n \in Odd}

(* The messages of a client, by its protocol.                              *)
OpenAIForms ==
  {Message("user", x) : x \in Asking} \cup {Message("assistant", x) : x \in Replying}
  \cup {Message("tool", << r >>) : r \in UNION {Results(n) : n \in Odd}}

AnthropicForms ==
  {Message("user", x) : x \in Asking \cup Resulting \cup Reminding} \cup {Message("assistant", x) : x \in Replying}

GeminiForms ==
  {Message("user", x) : x \in Asking \cup Resulting} \cup {Message("model", x) : x \in Replying}

FormsOf(c) == IF c = "openai" THEN OpenAIForms ELSE IF c = "anthropic" THEN AnthropicForms ELSE GeminiForms

LEMMA AskParts ==
  ASSUME NEW n, NEW x \in Asks(n)
  PROVE  /\ x \in Seq(BlockSet) /\ x # << >>
         /\ Only(x, {"call"}) = << >> /\ Only(x, {"result"}) = << >> /\ Only(x, {"call", "result"}) = << >>
         /\ Only(x, {"text", "image"}) = x /\ Joined(x) \o Only(x, {"image"}) = x
         /\ Only(x, {"image"}) = << >> => Joined(x) = x
<1>1. CASE \E t \in Texts(n) : x = << t >>
  <2>1. PICK t \in Texts(n) : x = << t >>
    BY <1>1
  <2>2. << t >> \in Seq(BlockSet) /\ << t >> # << >> /\ << t >> \o << >> = << t >>
    BY DEF Texts
  <2> QED BY <2>1, <2>2, PartsOfText
<1>2. CASE \E t \in Texts(n), i \in Images(n) : x = << t, i >>
  <2>1. PICK t \in Texts(n), i \in Images(n) : x = << t, i >>
    BY <1>2
  <2>2. t \in BlockSet /\ i \in BlockSet
    BY DEF Texts, Images
  <2>3. << t, i >> \in Seq(BlockSet) /\ << t, i >> # << >> /\ << t >> \o << i >> = << t, i >> /\ << i >> # << >>
    BY <2>2, Pair
  <2>4. /\ Joined(<< t, i >>) = << t >>
        /\ Only(<< t, i >>, {"call"}) = << >> /\ Only(<< t, i >>, {"result"}) = << >>
        /\ Only(<< t, i >>, {"image"}) = << i >>
        /\ Only(<< t, i >>, {"text", "image"}) = << t, i >> /\ Only(<< t, i >>, {"call", "result"}) = << >>
    BY PartsOfPictured
  <2> QED BY <2>1, <2>3, <2>4
<1> QED BY <1>1, <1>2 DEF Asks

LEMMA ReplyParts ==
  ASSUME NEW n, NEW x \in Replies(n)
  PROVE  /\ x \in Seq(BlockSet) /\ x # << >>
         /\ Only(x, {"result"}) = << >> /\ Only(x, {"image"}) = << >>
         /\ Joined(x) \o Only(x, {"call"}) = x /\ Only(x, {"call", "result"}) = Only(x, {"call"})
         /\ Only(x, {"call"}) = << >> => Joined(x) = x /\ Only(x, {"text", "image"}) = x
<1>1. CASE \E t \in Texts(n) : x = << t >>
  <2>1. PICK t \in Texts(n) : x = << t >>
    BY <1>1
  <2>2. << t >> \in Seq(BlockSet) /\ << t >> # << >> /\ << t >> \o << >> = << t >>
    BY DEF Texts
  <2> QED BY <2>1, <2>2, PartsOfText
<1>2. CASE \E c \in Calls(n) : x = << c >>
  <2>1. PICK c \in Calls(n) : x = << c >>
    BY <1>2
  <2>2. << c >> \in Seq(BlockSet) /\ << c >> # << >>
    BY DEF Calls
  <2>3. << >> \o << c >> = << c >>
    BY <2>2, ConcatEmptySeq
  <2> QED BY <2>1, <2>2, <2>3, PartsOfCall
<1>3. CASE \E c \in Calls(n), d \in Calls(n) : x = << c, d >>
  <2>1. PICK c \in Calls(n), d \in Calls(n) : x = << c, d >>
    BY <1>3
  <2>2. << c, d >> \in Seq(BlockSet) /\ << c, d >> # << >>
    BY DEF Calls
  <2>3. << >> \o << c, d >> = << c, d >>
    BY <2>2, ConcatEmptySeq
  <2> QED BY <2>1, <2>2, <2>3, PartsOfCalls
<1>4. CASE \E t \in Texts(n), c \in Calls(n) : x = << t, c >>
  <2>1. PICK t \in Texts(n), c \in Calls(n) : x = << t, c >>
    BY <1>4
  <2>2. t \in BlockSet /\ c \in BlockSet
    BY DEF Texts, Calls
  <2>3. << t, c >> \in Seq(BlockSet) /\ << t, c >> # << >> /\ << t >> \o << c >> = << t, c >> /\ << c >> # << >>
    BY <2>2, Pair
  <2>4. /\ Joined(<< t, c >>) = << t >>
        /\ Only(<< t, c >>, {"call"}) = << c >> /\ Only(<< t, c >>, {"result"}) = << >>
        /\ Only(<< t, c >>, {"image"}) = << >> /\ Only(<< t, c >>, {"call", "result"}) = << c >>
    BY PartsOfSaidAndCalled
  <2> QED BY <2>1, <2>3, <2>4
<1> QED BY <1>1, <1>2, <1>3, <1>4 DEF Replies

LEMMA ResultParts ==
  ASSUME NEW n, NEW x \in Hands(n)
  PROVE  /\ x \in Seq(BlockSet) /\ x # << >>
         /\ Only(x, {"call"}) = << >> /\ Only(x, {"image"}) = << >> /\ Only(x, {"text", "image"}) = << >>
         /\ Only(x, {"result"}) = x /\ Only(x, {"call", "result"}) = x /\ Joined(x) = << >>
<1>1. CASE \E r \in Results(n) : x = << r >>
  <2>1. PICK r \in Results(n) : x = << r >>
    BY <1>1
  <2>2. << r >> \in Seq(BlockSet) /\ << r >> # << >>
    BY DEF Results
  <2> QED BY <2>1, <2>2, PartsOfResult
<1>2. CASE \E r \in Results(n), s \in Results(n) : x = << r, s >>
  <2>1. PICK r \in Results(n), s \in Results(n) : x = << r, s >>
    BY <1>2
  <2>2. << r, s >> \in Seq(BlockSet) /\ << r, s >> # << >>
    BY DEF Results
  <2> QED BY <2>1, <2>2, PartsOfResults
<1> QED BY <1>1, <1>2 DEF Hands

LEMMA ReminderTyped == ASSUME NEW n \in Odd PROVE ReminderAt(n) \in BlockSet /\ ReminderAt(n).kind = "text"
<1>1. << n, Reminder >> \in Atom
  BY DEF Atom, Word, Odd, Reminder
<1>2. << << n, Reminder >> >> \in Seq(Atom)
  BY <1>1
<1> QED BY NoIdTyped, <1>2 DEF ReminderAt, Block, BlockSet, Kind

LEMMA RemindingParts ==
  ASSUME NEW n \in Odd, NEW y \in Reminds(n)
  PROVE  /\ y \in Seq(BlockSet) /\ y # << >>
         /\ \E x \in Hands(n) :
              /\ y = x \o << ReminderAt(n) >> /\ Only(y, {"call"}) = << >>
              /\ Only(y, {"result"}) = x /\ Only(y, {"text", "image"}) = << ReminderAt(n) >>
<1>1. PICK x, t : x \in Hands(n) /\ t = ReminderAt(n) /\ y = x \o << t >>
  BY DEF Reminds
<1>2. t \in BlockSet /\ t.kind = "text"
  BY <1>1, ReminderTyped
<1>3. << t >> \in Seq(BlockSet) /\ << t >> # << >> /\ x \in Seq(BlockSet) /\ x # << >>
  BY <1>1, <1>2, ResultParts
<1>4. /\ x \o << t >> \in Seq(BlockSet) /\ x \o << t >> # << >> /\ x \o << >> = x
      /\ << >> \o << t >> = << t >> /\ << >> \o << >> = << >>
  BY <1>3, ConcatProperties, ConcatEqualIffEmpty, ConcatEmptySeq
<1>5. \A kinds : Only(x \o << t >>, kinds) = Only(x, kinds) \o Only(<< t >>, kinds)
  BY <1>3, OnlyConcat
<1>6. Only(x, {"call"}) = << >> /\ Only(x, {"result"}) = x /\ Only(x, {"text", "image"}) = << >>
  BY <1>1, ResultParts
<1>7. Only(<< t >>, {"call"}) = << >> /\ Only(<< t >>, {"result"}) = << >> /\ Only(<< t >>, {"text", "image"}) = << t >>
  BY <1>2, OnlyOne
<1> QED BY <1>1, <1>4, <1>5, <1>6, <1>7

LEMMA RoleAndContent == \A r, x : Message(r, x).role = r /\ Message(r, x).content = x
BY DEF Message

LEMMA FormsTyped == OpenAIForms \cup AnthropicForms \cup GeminiForms \subseteq MessageSet
<1>1. \A r \in UNION {Results(n) : n \in Odd} : << r >> \in Seq(BlockSet)
  BY DEF Results
<1>2. \A x \in Asking \cup Replying \cup Resulting \cup Reminding : x \in Seq(BlockSet)
  <2>1. \A x \in Asking : x \in Seq(BlockSet)
    BY AskParts DEF Asking
  <2>2. \A x \in Replying : x \in Seq(BlockSet)
    BY ReplyParts DEF Replying
  <2>3. \A x \in Resulting : x \in Seq(BlockSet)
    BY ResultParts DEF Resulting
  <2>4. \A x \in Reminding : x \in Seq(BlockSet)
    BY RemindingParts DEF Reminding, Reminds
  <2> QED BY <2>1, <2>2, <2>3, <2>4
<1>3. \A r \in Role : \A x \in Seq(BlockSet) : Message(r, x) \in MessageSet
  BY DEF Message, MessageSet
<1> QED BY <1>1, <1>2, <1>3 DEF Role, OpenAIForms, AnthropicForms, GeminiForms

(* The cases of a proof about the messages in OpenAI's form.               *)
LEMMA OpenAICases ==
  ASSUME NEW m \in OpenAIForms
  PROVE  \/ \E n \in Odd : m.content \in Asks(n) /\ m.role = "user" /\ m = Message("user", m.content)
         \/ \E n \in Even : m.content \in Replies(n) /\ m.role = "assistant" /\ m = Message("assistant", m.content)
         \/ \E n \in Odd : \E r \in Results(n) : m.content = << r >> /\ m.role = "tool" /\ m = Message("tool", << r >>)
BY RoleAndContent DEF OpenAIForms, Asking, Replying

LEMMA ToAnthropicKeeps ==
  ASSUME NEW m \in OpenAIForms
  PROVE  ToAnthropicMessage(m) = Message(IF m.role = "assistant" THEN "assistant" ELSE "user", m.content)
<1>1. ASSUME NEW n, m.content \in Asks(n), m.role = "user"
      PROVE ToAnthropicMessage(m) = Message("user", m.content)
  BY <1>1, AskParts DEF ToAnthropicMessage, Has, UserOrAssistant
<1>2. ASSUME NEW n, m.content \in Replies(n), m.role = "assistant"
      PROVE ToAnthropicMessage(m) = Message("assistant", m.content)
  BY <1>2, ReplyParts DEF ToAnthropicMessage, WithCalls, Has, UserOrAssistant
<1>3. ASSUME m.role = "tool" PROVE ToAnthropicMessage(m) = Message("user", m.content)
  BY <1>3 DEF ToAnthropicMessage
<1> QED BY <1>1, <1>2, <1>3, OpenAICases

LEMMA ToOllamaKeeps == ASSUME NEW m \in OpenAIForms PROVE ToOllamaMessage(m) = m
<1>1. ASSUME NEW n, m.content \in Asks(n), m = Message("user", m.content), m.role = "user"
      PROVE ToOllamaMessage(m) = m
  BY <1>1, AskParts, ConcatEmptySeq DEF ToOllamaMessage
<1>2. ASSUME NEW n, m.content \in Replies(n), m = Message("assistant", m.content), m.role = "assistant"
      PROVE ToOllamaMessage(m) = m
  <2>1. Joined(m.content) \o << >> = Joined(m.content)
    BY <1>2, ReplyParts, JoinedTyped, ConcatEmptySeq
  <2> QED BY <1>2, <2>1, ReplyParts DEF ToOllamaMessage
<1>3. ASSUME NEW n, NEW r \in Results(n), m.content = << r >>, m = Message("tool", << r >>), m.role = "tool"
      PROVE ToOllamaMessage(m) = m
  <2>1. << r >> \in Seq(BlockSet) /\ << >> \o << r >> = << r >> /\ << >> \o << >> = << >>
    BY DEF Results
  <2> QED BY <1>3, <2>1, PartsOfResult DEF ToOllamaMessage
<1> QED BY <1>1, <1>2, <1>3, OpenAICases

(* A call under its function's name, and a result dumped once more, as     *)
(* they pass through Gemini's form.                                        *)
Renamed(c) == [c EXCEPT !.id = Head(c.of)]
Again(r) == [r EXCEPT !.of = Dump(@)]
FName == << 0, "f" >>

LEMMA RenamedCall ==
  ASSUME NEW n, NEW c \in Calls(n)
  PROVE  /\ Renamed(c) \in Calls(n) /\ Renamed(c).id = FName /\ ContentOf(Renamed(c)) = ContentOf(c)
         /\ c.id = FName => Renamed(c) = c
<1>1. c \in BlockSet /\ c.kind = "call" /\ c.of # << >> /\ Head(c.of) = FName
  BY DEF Calls, Piece, FName
<1>2. FName \in Atom
  BY DEF FName, Atom, Word
<1>3. /\ Renamed(c) \in BlockSet /\ Renamed(c).kind = "call" /\ Renamed(c).of = c.of /\ Renamed(c).id = FName
      /\ c.id = FName => Renamed(c) = c
  BY <1>1, <1>2 DEF Renamed, BlockSet
<1>4. ContentOf(Renamed(c)) = ContentOf(c)
  BY <1>1, <1>3, ContentOfIs
<1> QED BY <1>1, <1>3, <1>4 DEF Calls, Piece, FName

LEMMA NamedOne == ASSUME NEW n, NEW c \in Calls(n) PROVE Named(<< c >>) = << Renamed(c) >>
BY DEF Named, Renamed

LEMMA NamedTwo ==
  ASSUME NEW n, NEW c \in Calls(n), NEW d \in Calls(n) PROVE Named(<< c, d >>) = << Renamed(c), Renamed(d) >>
BY DEF Named, Renamed

LEMMA AgainResult ==
  ASSUME NEW n, NEW r \in Results(n)
  PROVE  /\ Again(r) \in Results(n) /\ Again(r).id = r.id /\ ContentOf(Again(r)) = ContentOf(r)
<1>1. r \in BlockSet /\ r.kind = "result" /\ r.of # << >> /\ r.of \in Seq(Atom)
  BY DEF Results, Piece, BlockSet
<1>0. Dumped \in Atom
  BY DEF Dumped, Atom, Word
<1>2. Dumped \in Atom /\ << Dumped >> \in Seq(Atom)
  BY <1>0
<1>3. << Dumped >> \o r.of \in Seq(Atom) /\ << Dumped >> \o r.of # << >>
  BY <1>1, <1>2, ConcatProperties, ConcatEqualIffEmpty
<1>4. /\ Again(r) \in BlockSet /\ Again(r).kind = "result" /\ Again(r).of = << Dumped >> \o r.of
      /\ Again(r).id = r.id
  BY <1>1, <1>3 DEF Again, Dump, BlockSet
<1>5. Mapped(<< Dumped >> \o r.of, PositiveFn) = Mapped(<< Dumped >>, PositiveFn) \o Mapped(r.of, PositiveFn)
  <2>1. PICK u \in Seq(Atom), v \in Seq(Atom) : u = << Dumped >> /\ v = r.of
    BY <1>1, <1>2
  <2>2. Mapped(u \o v, PositiveFn) = Mapped(u, PositiveFn) \o Mapped(v, PositiveFn)
    BY PositiveFnTyped, MappedConcat
  <2> QED BY <2>1, <2>2
<1>6. Mapped(<< Dumped >>, PositiveFn) = << >>
  <2>1. Mapped(<< Dumped >>, PositiveFn) = PositiveFn[Dumped]
    BY <1>2, PositiveFnTyped, MappedOne
  <2> QED BY <1>2, <2>1 DEF PositiveFn, Dumped
<1>7. Mapped(r.of, PositiveFn) \in Seq(Atom)
  BY <1>1, PositiveFnTyped, MappedTyped
<1>8. << >> \o Mapped(r.of, PositiveFn) = Mapped(r.of, PositiveFn)
  BY <1>7, ConcatEmptySeq
<1>9. ContentOf(Again(r)) = ContentOf(r)
  BY <1>1, <1>4, <1>5, <1>6, <1>8, ContentOfIs
<1> QED BY <1>1, <1>3, <1>4, <1>9 DEF Results, Piece

(* The atom that a piece carries.                                          *)
AtomOf(b) == ContentOf(b)[1]

LEMMA PieceAtom ==
  ASSUME NEW n \in Nat, NEW kind, NEW b, Piece(b, kind, n)
  PROVE  /\ b \in BlockSet /\ CarriedFn[b] = << AtomOf(b) >>
         /\ AtomOf(b) \in Atom /\ AtomOf(b)[1] = n /\ AtomOf(b)[2] # Reminder
<1>1. PICK w \in Word \ {Reminder} : ContentOf(b) = << << n, w >> >>
  BY DEF Piece
<1>2. AtomOf(b) = << n, w >> /\ b \in BlockSet
  BY <1>1 DEF AtomOf, Piece
<1> QED BY <1>1, <1>2 DEF CarriedFn, Atom

LEMMA CarriedOne ==
  ASSUME NEW b \in BlockSet, NEW a, CarriedFn[b] = << a >> PROVE Mapped(<< b >>, CarriedFn) = << a >>
BY CarriedFnTyped, MappedOne

LEMMA CarriedTwo ==
  ASSUME NEW b \in BlockSet, NEW c \in BlockSet, NEW a \in Atom, NEW d \in Atom,
         CarriedFn[b] = << a >>, CarriedFn[c] = << d >>
  PROVE  Mapped(<< b, c >>, CarriedFn) = << a, d >>
<1>1. << b >> \in Seq(BlockSet) /\ << c >> \in Seq(BlockSet) /\ << b, c >> = << b >> \o << c >>
  BY Pair
<1>2. Mapped(<< b >> \o << c >>, CarriedFn) = Mapped(<< b >>, CarriedFn) \o Mapped(<< c >>, CarriedFn)
  <2>1. PICK u \in Seq(BlockSet), v \in Seq(BlockSet) : u = << b >> /\ v = << c >>
    BY <1>1
  <2>2. Mapped(u \o v, CarriedFn) = Mapped(u, CarriedFn) \o Mapped(v, CarriedFn)
    BY CarriedFnTyped, MappedConcat
  <2> QED BY <2>1, <2>2
<1>3. << a, d >> = << a >> \o << d >>
  BY Pair
<1> QED BY <1>1, <1>2, <1>3, CarriedOne

(* What Gemini's calls are made of: their ids go.                          *)
AsGemini(x) == IF Only(x, {"call"}) = << >> THEN x ELSE Joined(x) \o Named(Only(x, {"call"}))
CallsNamed(x) == \A b \in ToSet(Only(x, {"call"})) : b.id = FName

LEMMA AsGeminiReply ==
  ASSUME NEW n \in Nat, NEW x \in Replies(n)
  PROVE  /\ AsGemini(x) \in Replies(n) /\ Mapped(AsGemini(x), CarriedFn) = Mapped(x, CarriedFn)
         /\ Only(AsGemini(x), {"call"}) = << >> <=> Only(x, {"call"}) = << >>
         /\ CallsNamed(x) => AsGemini(x) = x
<1>1. CASE \E t \in Texts(n) : x = << t >>
  BY <1>1, PartsOfText DEF AsGemini
<1>2. CASE \E c \in Calls(n) : x = << c >>
  <2>1. PICK c \in Calls(n) : x = << c >>
    BY <1>2
  <2>2. /\ Renamed(c) \in Calls(n) /\ CarriedFn[Renamed(c)] = CarriedFn[c] /\ c \in BlockSet /\ Renamed(c) \in BlockSet
        /\ c.id = FName => Renamed(c) = c
    BY RenamedCall DEF CarriedFn, Calls
  <2>3. << >> \o << Renamed(c) >> = << Renamed(c) >> /\ << c >> # << >> /\ << Renamed(c) >> # << >>
    BY <2>2
  <2>4. Only(x, {"call"}) = << c >> /\ AsGemini(x) = << Renamed(c) >>
    BY <2>1, <2>3, PartsOfCall, NamedOne DEF AsGemini
  <2>5. Only(<< Renamed(c) >>, {"call"}) = << Renamed(c) >>
    BY <2>2, PartsOfCall
  <2>6. Mapped(<< Renamed(c) >>, CarriedFn) = Mapped(<< c >>, CarriedFn)
    BY <2>2, CarriedFnTyped, MappedOne
  <2>7. CallsNamed(x) => c.id = FName
    BY <2>4 DEF CallsNamed, ToSet
  <2> QED BY <2>1, <2>2, <2>3, <2>4, <2>5, <2>6, <2>7 DEF Replies
<1>3. CASE \E c \in Calls(n), d \in Calls(n) : x = << c, d >>
  <2>1. PICK c \in Calls(n), d \in Calls(n) : x = << c, d >>
    BY <1>3
  <2>2. /\ Renamed(c) \in Calls(n) /\ CarriedFn[Renamed(c)] = CarriedFn[c] /\ c \in BlockSet /\ Renamed(c) \in BlockSet
        /\ Renamed(d) \in Calls(n) /\ CarriedFn[Renamed(d)] = CarriedFn[d] /\ d \in BlockSet /\ Renamed(d) \in BlockSet
        /\ c.id = FName => Renamed(c) = c
        /\ d.id = FName => Renamed(d) = d
    BY RenamedCall DEF CarriedFn, Calls
  <2>3. /\ << >> \o << Renamed(c), Renamed(d) >> = << Renamed(c), Renamed(d) >>
        /\ << c, d >> # << >> /\ << Renamed(c), Renamed(d) >> # << >>
    BY <2>2
  <2>4. Only(x, {"call"}) = << c, d >> /\ AsGemini(x) = << Renamed(c), Renamed(d) >>
    BY ZenonT(40), <2>1, <2>3, PartsOfCalls, NamedTwo DEF AsGemini
  <2>5. Only(<< Renamed(c), Renamed(d) >>, {"call"}) = << Renamed(c), Renamed(d) >>
    BY <2>2, PartsOfCalls
  <2>6. Mapped(<< Renamed(c), Renamed(d) >>, CarriedFn) = Mapped(<< c, d >>, CarriedFn)
    <3>1. /\ CarriedFn[c] = << AtomOf(c) >> /\ AtomOf(c) \in Atom
          /\ CarriedFn[d] = << AtomOf(d) >> /\ AtomOf(d) \in Atom
      BY PieceAtom DEF Calls
    <3> QED BY <2>2, <3>1, CarriedTwo
  <2>7. CallsNamed(x) => c.id = FName /\ d.id = FName
    <3>1. c \in ToSet(<< c, d >>) /\ d \in ToSet(<< c, d >>)
      <4>1. << c, d >>[1] = c /\ << c, d >>[2] = d /\ DOMAIN << c, d >> = 1 .. 2
        OBVIOUS
      <4> QED BY <4>1 DEF ToSet
    <3> QED BY <2>4, <3>1 DEF CallsNamed
  <2> QED BY <2>1, <2>2, <2>3, <2>4, <2>5, <2>6, <2>7 DEF Replies
<1>4. CASE \E t \in Texts(n), c \in Calls(n) : x = << t, c >>
  <2>1. PICK t \in Texts(n), c \in Calls(n) : x = << t, c >>
    BY <1>4
  <2>2. /\ Renamed(c) \in Calls(n) /\ CarriedFn[Renamed(c)] = CarriedFn[c] /\ c \in BlockSet /\ Renamed(c) \in BlockSet
        /\ t \in BlockSet
        /\ c.id = FName => Renamed(c) = c
    BY RenamedCall DEF CarriedFn, Calls, Texts
  <2>3. << t >> \o << Renamed(c) >> = << t, Renamed(c) >> /\ << c >> # << >> /\ << Renamed(c) >> # << >>
    BY <2>2, Pair
  <2>4. Only(x, {"call"}) = << c >> /\ Joined(x) = << t >>
    BY <2>1, PartsOfSaidAndCalled
  <2>8. AsGemini(x) = << t, Renamed(c) >>
    BY <2>3, <2>4, NamedOne DEF AsGemini
  <2>5. Only(<< t, Renamed(c) >>, {"call"}) = << Renamed(c) >>
    BY <2>2, PartsOfSaidAndCalled
  <2>6. Mapped(<< t, Renamed(c) >>, CarriedFn) = Mapped(<< t, c >>, CarriedFn)
    <3>1. /\ CarriedFn[c] = << AtomOf(c) >> /\ AtomOf(c) \in Atom
          /\ CarriedFn[t] = << AtomOf(t) >> /\ AtomOf(t) \in Atom
      BY PieceAtom DEF Calls, Texts
    <3> QED BY <2>2, <3>1, CarriedTwo
  <2>7. CallsNamed(x) => c.id = FName
    BY <2>4 DEF CallsNamed, ToSet
  <2> QED BY <2>1, <2>2, <2>3, <2>4, <2>5, <2>6, <2>7, <2>8 DEF Replies
<1> QED BY <1>1, <1>2, <1>3, <1>4 DEF Replies

LEMMA ToGeminiKeeps ==
  ASSUME NEW m \in OpenAIForms
  PROVE  ToGeminiMessage(m) = Message(IF m.role = "assistant" THEN "model" ELSE "user", AsGemini(m.content))
<1>1. ASSUME NEW n, m.content \in Asks(n), m.role = "user"
      PROVE ToGeminiMessage(m) = Message("user", AsGemini(m.content))
  BY <1>1, AskParts DEF ToGeminiMessage, Has, UserOrModel, AsGemini
<1>2. ASSUME NEW n, m.content \in Replies(n), m.role = "assistant"
      PROVE ToGeminiMessage(m) = Message("model", AsGemini(m.content))
  BY <1>2, ReplyParts DEF ToGeminiMessage, Has, UserOrModel, AsGemini
<1>3. ASSUME NEW n, NEW r \in Results(n), m.role = "tool", m.content = << r >>
      PROVE ToGeminiMessage(m) = Message("user", AsGemini(m.content))
  BY <1>3, PartsOfResult DEF ToGeminiMessage, AsGemini
<1> QED BY <1>1, <1>2, <1>3, OpenAICases

Protocols == {"openai", "anthropic", "gemini", "cohere", "ollama"}

(* A message in OpenAI's form, in the form of the provider.                *)
ForProvider(to, m) ==
  CASE to = "anthropic" -> ToAnthropicMessage(m)
    [] to = "gemini" -> ToGeminiMessage(m)
    [] to = "ollama" -> ToOllamaMessage(m)
    [] OTHER -> m

LEMMA ForProviderIs ==
  ASSUME NEW to \in Protocols, NEW m \in OpenAIForms
  PROVE  ForProvider(to, m) =
           Message(CASE to = "anthropic" -> IF m.role = "assistant" THEN "assistant" ELSE "user"
                     [] to = "gemini" -> IF m.role = "assistant" THEN "model" ELSE "user"
                     [] OTHER -> m.role,
                   IF to = "gemini" THEN AsGemini(m.content) ELSE m.content)
<1>1. m = Message(m.role, m.content)
  BY OpenAICases
<1>2. CASE to = "anthropic"
  BY <1>2, ToAnthropicKeeps DEF ForProvider
<1>3. CASE to = "gemini"
  BY <1>3, ToGeminiKeeps DEF ForProvider
<1>4. CASE to = "ollama"
  BY <1>1, <1>4, ToOllamaKeeps DEF ForProvider
<1>5. CASE to \notin {"anthropic", "gemini", "ollama"}
  BY <1>1, <1>5 DEF ForProvider
<1> QED BY <1>2, <1>3, <1>4, <1>5

(* What a provider gets of a message.                                      *)
LEMMA ForwardedContent ==
  ASSUME NEW to \in Protocols, NEW m \in OpenAIForms, NEW x, x = ForProvider(to, m).content
  PROVE  /\ x \in Seq(BlockSet) /\ x # << >>
         /\ Mapped(x, CarriedFn) = Mapped(m.content, CarriedFn)
         /\ Only(x, {"result"}) = Only(m.content, {"result"})
         /\ Only(x, {"call"}) = << >> <=> Only(m.content, {"call"}) = << >>
         /\ to # "gemini" \/ CallsNamed(m.content) => Only(x, {"call"}) = Only(m.content, {"call"})
<1>1. x = IF to = "gemini" THEN AsGemini(m.content) ELSE m.content
  BY ForProviderIs, RoleAndContent
<1>2. ASSUME NEW n \in Odd, m.content \in Asks(n)
      PROVE  m.content \in Seq(BlockSet) /\ m.content # << >> /\ AsGemini(m.content) = m.content
  BY <1>2, AskParts DEF AsGemini
<1>3. ASSUME NEW n \in Odd, NEW r \in Results(n), m.content = << r >>
      PROVE  m.content \in Seq(BlockSet) /\ m.content # << >> /\ AsGemini(m.content) = m.content
  <2>1. << r >> \in Seq(BlockSet) /\ << r >> # << >>
    BY DEF Results
  <2> QED BY <1>3, <2>1, PartsOfResult DEF AsGemini
<1>4. ASSUME NEW n \in Even, m.content \in Replies(n)
      PROVE  /\ m.content \in Seq(BlockSet) /\ m.content # << >>
             /\ AsGemini(m.content) \in Seq(BlockSet) /\ AsGemini(m.content) # << >>
             /\ Mapped(AsGemini(m.content), CarriedFn) = Mapped(m.content, CarriedFn)
             /\ Only(m.content, {"result"}) = << >> /\ Only(AsGemini(m.content), {"result"}) = << >>
             /\ Only(AsGemini(m.content), {"call"}) = << >> <=> Only(m.content, {"call"}) = << >>
             /\ CallsNamed(m.content) => AsGemini(m.content) = m.content
  <2>1. n \in Nat
    BY DEF Even
  <2>2. AsGemini(m.content) \in Replies(n)
    BY <1>4, <2>1, AsGeminiReply
  <2> QED BY <1>4, <2>1, <2>2, AsGeminiReply, ReplyParts
<1>5. CASE \E n \in Odd : m.content \in Asks(n)
  BY <1>1, <1>2, <1>5
<1>6. CASE \E n \in Odd : \E r \in Results(n) : m.content = << r >>
  BY <1>1, <1>3, <1>6
<1>7. CASE \E n \in Even : m.content \in Replies(n)
  BY <1>1, <1>4, <1>7
<1> QED BY <1>5, <1>6, <1>7, OpenAICases

LEMMA ForwardedRole ==
  ASSUME NEW to \in Protocols, NEW m \in OpenAIForms, NEW role, role = ForProvider(to, m).role
  PROVE  /\ role \in Role /\ role \in RolesOf[to]
         /\ role \in ClientSide <=> m.role \in ClientSide
         /\ Has(m, "call") => role \in {"assistant", "model"}
         /\ Has(m, "result") => role = (IF "tool" \in RolesOf[to] THEN "tool" ELSE "user")
<1>1. role = (CASE to = "anthropic" -> IF m.role = "assistant" THEN "assistant" ELSE "user"
                [] to = "gemini" -> IF m.role = "assistant" THEN "model" ELSE "user"
                [] OTHER -> m.role)
  BY ForProviderIs, RoleAndContent
<1>2. /\ m.role \in {"user", "assistant", "tool"}
      /\ Has(m, "call") => m.role = "assistant"
      /\ Has(m, "result") => m.role = "tool"
  <2>1. ASSUME NEW n, m.content \in Asks(n) PROVE ~ Has(m, "call") /\ ~ Has(m, "result")
    BY <2>1, AskParts DEF Has
  <2>2. ASSUME NEW n, m.content \in Replies(n) PROVE ~ Has(m, "result")
    BY <2>2, ReplyParts DEF Has
  <2>3. ASSUME NEW n, NEW r \in Results(n), m.content = << r >> PROVE ~ Has(m, "call")
    BY <2>3, PartsOfResult DEF Has
  <2> QED BY <2>1, <2>2, <2>3, OpenAICases
<1> QED BY <1>1, <1>2 DEF Role, RolesOf, ClientSide, Protocols

LEMMA Forwarded ==
  ASSUME NEW to \in Protocols, NEW m \in OpenAIForms, NEW f, f = ForProvider(to, m)
  PROVE  /\ f \in MessageSet /\ f.content # << >> /\ f.role \in RolesOf[to]
         /\ Contents(<< f >>) = Contents(<< m >>)
         /\ f.role \in ClientSide <=> m.role \in ClientSide
         /\ Has(f, "call") <=> Has(m, "call")
         /\ Has(f, "result") <=> Has(m, "result")
         /\ Has(f, "call") => f.role \in {"assistant", "model"}
         /\ Has(f, "result") => f.role = (IF "tool" \in RolesOf[to] THEN "tool" ELSE "user")
         /\ IdsIn(<< f >>, "result") = IdsIn(<< m >>, "result")
         /\ to # "gemini" \/ CallsNamed(m.content) => IdsIn(<< f >>, "call") = IdsIn(<< m >>, "call")
<1>1. f = Message(f.role, f.content)
  BY ForProviderIs, RoleAndContent
<1>2. f.content \in Seq(BlockSet) /\ f.content # << >> /\ f.role \in Role
  BY ForwardedContent, ForwardedRole
<1>3. f \in MessageSet /\ m \in MessageSet
  BY <1>1, <1>2, FormsTyped DEF Message, MessageSet
<1>4. Contents(<< f >>) = Contents(<< m >>)
  BY <1>3, ContentsOne, ForwardedContent
<1>5. /\ Has(f, "call") <=> Has(m, "call")
      /\ Has(f, "result") <=> Has(m, "result")
  BY ForwardedContent DEF Has
<1>6. IdsIn(<< f >>, "result") = IdsIn(<< m >>, "result")
  <2>1. Only(f.content, {"result"}) = Only(m.content, {"result"})
    BY ForwardedContent
  <2>2. /\ IdsIn(<< f >>, "result") = {b.id : b \in ToSet(Only(f.content, {"result"}))}
        /\ IdsIn(<< m >>, "result") = {b.id : b \in ToSet(Only(m.content, {"result"}))}
    BY <1>3, IdsOne, Zenon
  <2> QED BY <2>1, <2>2, Zenon
<1>7. to # "gemini" \/ CallsNamed(m.content) => IdsIn(<< f >>, "call") = IdsIn(<< m >>, "call")
  <2>1. to # "gemini" \/ CallsNamed(m.content) => Only(f.content, {"call"}) = Only(m.content, {"call"})
    BY ForwardedContent
  <2>2. /\ IdsIn(<< f >>, "call") = {b.id : b \in ToSet(Only(f.content, {"call"}))}
        /\ IdsIn(<< m >>, "call") = {b.id : b \in ToSet(Only(m.content, {"call"}))}
    BY <1>3, IdsOne, Zenon
  <2> QED BY <2>1, <2>2, Zenon
<1> QED BY <1>2, <1>3, <1>4, <1>5, <1>6, <1>7, ForwardedRole

-----------------------------------------------------------------------------
(* The atoms of the forms.                                                 *)

(* The content under a number that no conversion loses.                    *)
AtomsOf(n) == {a \in Atom : a[1] = n /\ a[2] # Reminder}

LEMMA FormAtoms ==
  ASSUME NEW n \in Nat, NEW x \in Asks(n) \cup Replies(n) \cup Hands(n)
  PROVE  Mapped(x, CarriedFn) \in Seq(AtomsOf(n)) /\ Mapped(x, CarriedFn) # << >>
<1>1. ASSUME NEW b \in Texts(n) \cup Images(n) \cup Calls(n) \cup Results(n)
      PROVE  b \in BlockSet /\ CarriedFn[b] = << AtomOf(b) >> /\ AtomOf(b) \in AtomsOf(n)
  <2>1. PICK kind : Piece(b, kind, n)
    BY DEF Texts, Images, Calls, Results
  <2> QED BY <2>1, PieceAtom DEF AtomsOf
<1>2. ASSUME NEW b \in Texts(n) \cup Images(n) \cup Calls(n) \cup Results(n)
      PROVE  Mapped(<< b >>, CarriedFn) \in Seq(AtomsOf(n)) /\ Mapped(<< b >>, CarriedFn) # << >>
  <2>1. Mapped(<< b >>, CarriedFn) = << AtomOf(b) >>
    BY <1>1, CarriedOne
  <2>2. \A a \in AtomsOf(n) : << a >> \in Seq(AtomsOf(n)) /\ << a >> # << >>
    OBVIOUS
  <2> QED BY <1>1, <2>1, <2>2
<1>3. ASSUME NEW b \in Texts(n) \cup Images(n) \cup Calls(n) \cup Results(n),
             NEW c \in Texts(n) \cup Images(n) \cup Calls(n) \cup Results(n)
      PROVE  Mapped(<< b, c >>, CarriedFn) \in Seq(AtomsOf(n)) /\ Mapped(<< b, c >>, CarriedFn) # << >>
  <2>1. AtomOf(b) \in Atom /\ AtomOf(c) \in Atom
    BY <1>1 DEF AtomsOf
  <2>2. Mapped(<< b, c >>, CarriedFn) = << AtomOf(b), AtomOf(c) >>
    BY <1>1, <2>1, CarriedTwo
  <2>3. \A a, d \in AtomsOf(n) : << a, d >> \in Seq(AtomsOf(n)) /\ << a, d >> # << >>
    OBVIOUS
  <2> QED BY <1>1, <2>2, <2>3
<1>4. CASE x \in Asks(n)
  BY <1>2, <1>3, <1>4 DEF Asks
<1>5. CASE x \in Replies(n)
  BY <1>2, <1>3, <1>5 DEF Replies
<1>6. CASE x \in Hands(n)
  BY <1>2, <1>3, <1>6 DEF Hands
<1> QED BY <1>4, <1>5, <1>6

LEMMA ReminderAtom == ASSUME NEW n \in Odd PROVE Mapped(<< ReminderAt(n) >>, CarriedFn) = << << n, Reminder >> >>
<1>1. << n, Reminder >> \in Atom /\ n > 0
  <2>1. n \in Nat /\ n > 0
    BY DEF Odd
  <2> QED BY <2>1 DEF Atom, Word, Reminder
<1>2. PICK b \in BlockSet : b = ReminderAt(n)
  BY ReminderTyped
<1>3. b.of = << << n, Reminder >> >>
  BY <1>2 DEF ReminderAt, Block
<1>4. Mapped(b.of, PositiveFn) = PositiveFn[<< n, Reminder >>]
  BY <1>1, <1>3, PositiveFnTyped, MappedOne
<1>5. CarriedFn[b] = << << n, Reminder >> >>
  BY <1>1, <1>4, ContentOfIs DEF CarriedFn, PositiveFn
<1> QED BY <1>2, <1>5, CarriedOne

LEMMA RemindedAtoms ==
  ASSUME NEW n \in Odd, NEW x \in Hands(n)
  PROVE  Mapped(x \o << ReminderAt(n) >>, CarriedFn) = Mapped(x, CarriedFn) \o << << n, Reminder >> >>
<1>1. PICK t \in Seq(BlockSet) : t = << ReminderAt(n) >>
  <2>1. \A b \in BlockSet : << b >> \in Seq(BlockSet)
    OBVIOUS
  <2> QED BY <2>1, ReminderTyped
<1>2. x \in Seq(BlockSet)
  BY ResultParts
<1>3. Mapped(x \o t, CarriedFn) = Mapped(x, CarriedFn) \o Mapped(t, CarriedFn)
  BY <1>2, CarriedFnTyped, MappedConcat
<1> QED BY <1>1, <1>3, ReminderAtom

LEMMA MappedSelf ==
  ASSUME NEW S, NEW T, T \subseteq S, NEW f, Gives(f, S, S), \A a \in T : f[a] = << a >>, NEW s \in Seq(T)
  PROVE  Mapped(s, f) = s
<1> DEFINE P(u) == Mapped(u, f) = u
           U == {u \in Seq(T) : P(u)}
<1>1. P(<< >>)
  BY MappedEmpty
<1>2. ASSUME NEW u \in Seq(T), NEW a \in T, P(u) PROVE P(Append(u, a))
  <2>1. u \in Seq(S) /\ a \in S /\ << a >> \in Seq(S)
    BY SeqMonotonic
  <2>2. Append(u, a) = u \o << a >>
    BY <2>1, AppendIsConcat
  <2>3. Mapped(u \o << a >>, f) = Mapped(u, f) \o Mapped(<< a >>, f)
    <3>1. PICK v \in Seq(S) : v = << a >>
      BY <2>1
    <3>2. Mapped(u \o v, f) = Mapped(u, f) \o Mapped(v, f)
      BY <2>1, MappedConcat
    <3> QED BY <3>1, <3>2
  <2>4. Mapped(<< a >>, f) = << a >>
    BY <2>1, MappedOne
  <2> QED BY <1>2, <2>2, <2>3, <2>4
<1> HIDE DEF P
<1>3. << >> \in U /\ \A u \in Seq(T) : \A a \in T : u \in U => Append(u, a) \in U
  BY <1>1, <1>2, AppendProperties
<1>4. Seq(T) \subseteq U
  <2> HIDE DEF U
  <2> QED BY <1>3, SeqInduction
<1>5. P(s)
  BY <1>4
<1> QED BY <1>5 DEF P

UnremindedFn == [a \in Atom |-> IF a[2] = Reminder THEN << >> ELSE << a >>]

LEMMA UnremindedFnTyped == Gives(UnremindedFn, Atom, Atom)
BY DEF UnremindedFn, Gives

Unreminded(s) == Mapped(s, UnremindedFn)

LEMMA UnremindedSame ==
  ASSUME NEW s \in Seq({a \in Atom : a[2] # Reminder}) PROVE Unreminded(s) = s
<1> DEFINE T == {a \in Atom : a[2] # Reminder}
<1>1. T \subseteq Atom /\ \A a \in T : UnremindedFn[a] = << a >>
  BY DEF UnremindedFn
<1> HIDE DEF T
<1>2. s \in Seq(T)
  BY DEF T
<1> QED BY <1>1, <1>2, UnremindedFnTyped, MappedSelf DEF Unreminded

-----------------------------------------------------------------------------
(* What a message of the client becomes in OpenAI's form.                  *)

(* A message of the client c, in OpenAI's form: several messages, if       *)
(* results or a Gemini content are taken apart.                            *)
Inward(c, m) ==
  IF c = "openai" THEN << m >> ELSE IF c = "anthropic" THEN FromAnthropicMessage(m) ELSE FromGeminiContent(m)

Tool(b) == Message("tool", << b >>)
ToolFn == [b \in BlockSet |-> << Tool(b) >>]

Tools(x) == FlatMap(x, LAMBDA b : << Message("tool", << b >>) >>)
Parts(x) == FlatMap(x, FromGeminiPart)

LEMMA ToolTyped == \A b \in BlockSet : Tool(b) \in MessageSet
BY DEF Tool, Message, MessageSet, Role

LEMMA ToolFnTyped == Gives(ToolFn, BlockSet, MessageSet)
BY ToolTyped DEF ToolFn, Gives

LEMMA ToolsOne ==
  ASSUME NEW b \in BlockSet PROVE Tools(<< b >>) = << Tool(b) >>
<1>1. Mapped(<< b >>, ToolFn) = << Tool(b) >>
  BY ToolFnTyped, MappedOne DEF ToolFn
<1>2. [i \in 1 .. Len(<< b >>) |-> << Message("tool", << << b >>[i] >>) >>] = [i \in 1 .. Len(<< b >>) |-> ToolFn[<< b >>[i]]]
  BY DEF ToolFn, Tool
<1> QED BY <1>1, <1>2 DEF Mapped, FlatMap, Tools

LEMMA ToolsTwo ==
  ASSUME NEW b \in BlockSet, NEW c \in BlockSet
  PROVE  Tools(<< b, c >>) = << Tool(b), Tool(c) >>
<1>1. PICK u \in Seq(BlockSet), v \in Seq(BlockSet) : u = << b >> /\ v = << c >> /\ << b, c >> = u \o v
  BY Pair
<1>2. Mapped(u \o v, ToolFn) = Mapped(u, ToolFn) \o Mapped(v, ToolFn)
  BY ToolFnTyped, MappedConcat
<1>3. Mapped(u, ToolFn) = << Tool(b) >> /\ Mapped(v, ToolFn) = << Tool(c) >>
  BY <1>1, ToolFnTyped, MappedOne DEF ToolFn
<1>4. << Tool(b), Tool(c) >> = << Tool(b) >> \o << Tool(c) >>
  BY ToolTyped, Pair
<1>5. [i \in 1 .. Len(<< b, c >>) |-> << Message("tool", << << b, c >>[i] >>) >>] =
        [i \in 1 .. Len(<< b, c >>) |-> ToolFn[<< b, c >>[i]]]
  BY DEF ToolFn, Tool
<1>6. Tools(<< b, c >>) = Mapped(<< b, c >>, ToolFn)
  BY <1>5 DEF Mapped, FlatMap, Tools
<1> QED BY <1>1, <1>2, <1>3, <1>4, <1>6

LEMMA FromAnthropicSame ==
  ASSUME NEW m, NEW n, \/ m.role = "user" /\ m.content \in Asks(n)
                       \/ m.role = "assistant" /\ m.content \in Replies(n)
  PROVE  FromAnthropicMessage(m) = << Message(m.role, m.content) >>
<1>1. CASE m.role = "user" /\ m.content \in Asks(n)
  BY <1>1, AskParts DEF FromAnthropicMessage, Has, UserOrAssistant
<1>2. CASE m.role = "assistant" /\ m.content \in Replies(n)
  BY <1>2, ReplyParts DEF FromAnthropicMessage, Has, UserOrAssistant, WithCalls
<1> QED BY <1>1, <1>2

LEMMA FromAnthropicResults ==
  ASSUME NEW m, NEW x, m.role = "user", Only(m.content, {"call"}) = << >>, Only(m.content, {"result"}) = x, x # << >>
  PROVE  FromAnthropicMessage(m) = Tools(x)
BY DEF FromAnthropicMessage, Has, Tools

(* A part of a Gemini content, as a message of OpenAI.                     *)
Asked(c) == Message("assistant", << Renamed(c) >>)
PartOf(b) == IF b.kind = "call" THEN Asked(b) ELSE Tool(Again(b))
PartFn(n) == [b \in Calls(n) \cup Results(n) |-> << PartOf(b) >>]

LEMMA PartTyped ==
  ASSUME NEW n, NEW b \in Calls(n) \cup Results(n)
  PROVE  PartOf(b) \in MessageSet /\ FromGeminiPart(b) = << PartOf(b) >>
<1>1. CASE b \in Calls(n)
  <2>1. b.kind = "call" /\ << Renamed(b) >> \in Seq(BlockSet)
    BY <1>1, RenamedCall DEF Calls, Piece
  <2>2. Asked(b) \in MessageSet
    BY <2>1 DEF Asked, Message, MessageSet, Role
  <2> QED BY <1>1, <2>1, <2>2, NamedOne DEF PartOf, FromGeminiPart, Asked
<1>2. CASE b \in Results(n)
  <2>1. b.kind = "result" /\ Again(b) \in BlockSet
    BY <1>2, AgainResult DEF Results, Piece
  <2> QED BY <2>1, ToolTyped DEF PartOf, FromGeminiPart, Tool, Again
<1> QED BY <1>1, <1>2

LEMMA PartFnTyped == \A n : Gives(PartFn(n), Calls(n) \cup Results(n), MessageSet)
BY PartTyped DEF PartFn, Gives

LEMMA PartsOne ==
  ASSUME NEW n, NEW b \in Calls(n) \cup Results(n) PROVE Parts(<< b >>) = << PartOf(b) >>
<1>1. Mapped(<< b >>, PartFn(n)) = << PartOf(b) >>
  BY PartFnTyped, MappedOne DEF PartFn
<1>2. [i \in 1 .. Len(<< b >>) |-> FromGeminiPart(<< b >>[i])] = [i \in 1 .. Len(<< b >>) |-> PartFn(n)[<< b >>[i]]]
  BY PartTyped DEF PartFn
<1> QED BY <1>1, <1>2 DEF Mapped, FlatMap, Parts

LEMMA PartsTwo ==
  ASSUME NEW n, NEW b \in Calls(n) \cup Results(n), NEW c \in Calls(n) \cup Results(n)
  PROVE  Parts(<< b, c >>) = << PartOf(b), PartOf(c) >>
<1>0. PICK T : T = Calls(n) \cup Results(n) /\ b \in T /\ c \in T /\ Gives(PartFn(n), T, MessageSet)
  BY PartFnTyped
<1>1. PICK u \in Seq(T), v \in Seq(T) : u = << b >> /\ v = << c >> /\ << b, c >> = u \o v
  BY <1>0, Pair
<1>2. Mapped(u \o v, PartFn(n)) = Mapped(u, PartFn(n)) \o Mapped(v, PartFn(n))
  BY <1>0, MappedConcat
<1>3. Mapped(u, PartFn(n)) = << PartOf(b) >> /\ Mapped(v, PartFn(n)) = << PartOf(c) >>
  BY SMTT(20), <1>1, PartFnTyped, MappedOne DEF PartFn
<1>4. << PartOf(b), PartOf(c) >> = << PartOf(b) >> \o << PartOf(c) >>
  BY PartTyped, Pair
<1>5. FromGeminiPart(b) = PartFn(n)[b] /\ FromGeminiPart(c) = PartFn(n)[c]
  BY PartTyped DEF PartFn
<1>6. [i \in 1 .. Len(<< b, c >>) |-> FromGeminiPart(<< b, c >>[i])] =
        [i \in 1 .. Len(<< b, c >>) |-> PartFn(n)[<< b, c >>[i]]]
  BY <1>5
<1>7. Parts(<< b, c >>) = Mapped(<< b, c >>, PartFn(n))
  BY <1>6 DEF Mapped, FlatMap, Parts
<1> QED BY <1>1, <1>2, <1>3, <1>4, <1>7

LEMMA PartsNone == Parts(<< >>) = << >>
<1>1. [i \in 1 .. Len(<< >>) |-> FromGeminiPart(<< >>[i])] = << >>
  OBVIOUS
<1> QED BY <1>1, FlattenEmpty DEF FlatMap, Parts

LEMMA FromGeminiAsk ==
  ASSUME NEW m, NEW n, m.role = "user", m.content \in Asks(n)
  PROVE  FromGeminiContent(m) = << Message("user", m.content) >>
<1>1. << >> \o << Message("user", m.content) >> = << Message("user", m.content) >>
  OBVIOUS
<1> QED BY <1>1, AskParts, PartsNone DEF FromGeminiContent, Parts

LEMMA FromGeminiResults ==
  ASSUME NEW m, NEW n, m.content \in Hands(n)
  PROVE  FromGeminiContent(m) = Parts(m.content)
<1>1. ASSUME NEW r \in Results(n), m.content = << r >> PROVE FromGeminiContent(m) = Parts(m.content)
  <2>1. Parts(m.content) = << PartOf(r) >>
    BY <1>1, PartsOne
  <2>2. << PartOf(r) >> \o << >> = << PartOf(r) >>
    OBVIOUS
  <2>3. /\ Only(m.content, {"call", "result"}) = m.content /\ Joined(m.content) = << >>
        /\ Only(m.content, {"image"}) = << >> /\ << >> \o << >> = << >>
    BY ResultParts
  <2> QED BY <2>1, <2>2, <2>3 DEF FromGeminiContent, Parts
<1>2. ASSUME NEW r \in Results(n), NEW s \in Results(n), m.content = << r, s >>
      PROVE  FromGeminiContent(m) = Parts(m.content)
  <2>1. Parts(m.content) = << PartOf(r), PartOf(s) >>
    BY <1>2, PartsTwo
  <2>2. << PartOf(r), PartOf(s) >> \o << >> = << PartOf(r), PartOf(s) >>
    OBVIOUS
  <2>3. /\ Only(m.content, {"call", "result"}) = m.content /\ Joined(m.content) = << >>
        /\ Only(m.content, {"image"}) = << >> /\ << >> \o << >> = << >>
    BY ResultParts
  <2> QED BY <2>1, <2>2, <2>3 DEF FromGeminiContent, Parts
<1> QED BY <1>1, <1>2 DEF Hands

LEMMA FromGeminiReply ==
  ASSUME NEW m, NEW n, m.role = "model", m.content \in Replies(n)
  PROVE  \/ \E t \in Texts(n) : m.content = << t >> /\ FromGeminiContent(m) = << Message("assistant", << t >>) >>
         \/ \E c \in Calls(n) : m.content = << c >> /\ FromGeminiContent(m) = << Asked(c) >>
         \/ \E c \in Calls(n), d \in Calls(n) :
              m.content = << c, d >> /\ FromGeminiContent(m) = << Asked(c), Asked(d) >>
         \/ \E t \in Texts(n), c \in Calls(n) :
              m.content = << t, c >> /\ FromGeminiContent(m) = << Asked(c), Message("assistant", << t >>) >>
<1>0. \A c \in Calls(n) : PartOf(c) = Asked(c)
  BY DEF PartOf, Calls, Piece
<1>1. ASSUME NEW t \in Texts(n), m.content = << t >>
      PROVE  FromGeminiContent(m) = << Message("assistant", << t >>) >>
  <2>1. << >> \o << Message("assistant", << t >>) >> = << Message("assistant", << t >>) >> /\ << t >> \o << >> = << t >> /\ << t >> # << >>
    OBVIOUS
  <2> QED BY <1>1, <2>1, PartsOfText, PartsNone DEF FromGeminiContent, Parts
<1>2. ASSUME NEW c \in Calls(n), m.content = << c >> PROVE FromGeminiContent(m) = << Asked(c) >>
  <2>1. Parts(<< c >>) = << Asked(c) >>
    BY <1>0, PartsOne
  <2>2. << Asked(c) >> \o << >> = << Asked(c) >> /\ << >> \o << >> = << >>
    OBVIOUS
  <2> QED BY <1>2, <2>1, <2>2, PartsOfCall DEF FromGeminiContent, Parts
<1>3. ASSUME NEW c \in Calls(n), NEW d \in Calls(n), m.content = << c, d >>
      PROVE  FromGeminiContent(m) = << Asked(c), Asked(d) >>
  <2>1. Parts(<< c, d >>) = << Asked(c), Asked(d) >>
    BY <1>0, PartsTwo
  <2>2. << Asked(c), Asked(d) >> \o << >> = << Asked(c), Asked(d) >> /\ << >> \o << >> = << >>
    OBVIOUS
  <2>3. /\ Only(<< c, d >>, {"call", "result"}) = << c, d >> /\ Joined(<< c, d >>) = << >>
        /\ Only(<< c, d >>, {"image"}) = << >>
    BY PartsOfCalls
  <2> QED BY <1>3, <2>1, <2>2, <2>3 DEF FromGeminiContent, Parts
<1>4. ASSUME NEW t \in Texts(n), NEW c \in Calls(n), m.content = << t, c >>
      PROVE  FromGeminiContent(m) = << Asked(c), Message("assistant", << t >>) >>
  <2>1. Parts(<< c >>) = << Asked(c) >>
    BY <1>0, PartsOne
  <2>2. /\ << Asked(c) >> \o << Message("assistant", << t >>) >> = << Asked(c), Message("assistant", << t >>) >>
        /\ << t >> \o << >> = << t >> /\ << t >> # << >>
    BY Joining
  <2>3. /\ Only(<< t, c >>, {"call", "result"}) = << c >> /\ Joined(<< t, c >>) = << t >>
        /\ Only(<< t, c >>, {"image"}) = << >>
    BY PartsOfSaidAndCalled
  <2> QED BY <1>4, <2>1, <2>2, <2>3 DEF FromGeminiContent, Parts
<1> QED BY <1>1, <1>2, <1>3, <1>4 DEF Replies

Speakers == {"openai", "anthropic", "gemini"}
RoleOf(c) == IF c = "gemini" THEN "model" ELSE "assistant"

(* Results that say the same under the same id.                            *)
Repeats(n, r, q) == r \in Results(n) /\ q \in Results(n) /\ q.id = r.id /\ CarriedFn[q] = CarriedFn[r]

ToolsFor(n, x, s) ==
  \/ \E r, q \in Results(n) : Repeats(n, r, q) /\ x = << r >> /\ s = << Tool(q) >>
  \/ \E r, q, u, v \in Results(n) :
       Repeats(n, r, q) /\ Repeats(n, u, v) /\ x = << r, u >> /\ s = << Tool(q), Tool(v) >>

(* The parts of a reply that is taken apart.                               *)
PartsFor(n, x, s) ==
  \/ \E t \in Texts(n) : x = << t >> /\ s = << Message("assistant", << t >>) >>
  \/ \E c \in Calls(n) : x = << c >> /\ s = << Asked(c) >>
  \/ \E c, d \in Calls(n) : x = << c, d >> /\ s = << Asked(c), Asked(d) >>
  \/ \E t \in Texts(n), c \in Calls(n) : x = << t, c >> /\ s = << Asked(c), Message("assistant", << t >>) >>

ResultsOnly(m, n, x) ==
  /\ m.role \in {"user", "tool"} /\ m.content \in Seq(BlockSet)
  /\ Only(m.content, {"call"}) = << >> /\ Only(m.content, {"result"}) = x
  /\ x \in Hands(n) /\ (m.content = x \/ m.content = x \o << ReminderAt(n) >>)

(* The cases of a proof about what goes in.                                *)
LEMMA InwardCases ==
  ASSUME NEW c \in Speakers, NEW m \in FormsOf(c)
  PROVE  \/ \E n \in Odd : m.role = "user" /\ m.content \in Asks(n) /\ m = Message("user", m.content) /\ Inward(c, m) = << m >>
         \/ \E n \in Even : /\ m.role = RoleOf(c) /\ c # "gemini" /\ m.content \in Replies(n)
                            /\ m = Message("assistant", m.content) /\ Inward(c, m) = << m >>
         \/ \E n \in Even : /\ m.role = "model" /\ c = "gemini" /\ m.content \in Replies(n)
                            /\ PartsFor(n, m.content, Inward(c, m))
         \/ \E n \in Odd : \E x : /\ ResultsOnly(m, n, x) /\ ToolsFor(n, x, Inward(c, m))
                                  /\ c = "anthropic" \/ m.content = x
<1>0. \A n : \A r \in Results(n) : Repeats(n, r, r) /\ Repeats(n, r, Again(r)) /\ PartOf(r) = Tool(Again(r)) /\ r \in BlockSet /\ Again(r) \in Results(n)
  BY AgainResult DEF Repeats, CarriedFn, PartOf, Results, Piece
<1>1. ASSUME NEW n \in Odd, NEW x \in Asks(n), m = Message("user", x)
      PROVE  m.role = "user" /\ m.content \in Asks(n) /\ m = Message("user", m.content) /\ Inward(c, m) = << m >>
  <2>1. m.role = "user" /\ m.content = x
    BY <1>1, RoleAndContent
  <2> QED BY <1>1, <2>1, FromAnthropicSame, FromGeminiAsk DEF Inward
<1>2. ASSUME NEW n \in Even, NEW x \in Replies(n), m = Message("assistant", x), c # "gemini"
      PROVE  /\ m.role = RoleOf(c) /\ m.content \in Replies(n)
             /\ m = Message("assistant", m.content) /\ Inward(c, m) = << m >>
  <2>1. m.role = "assistant" /\ m.content = x
    BY <1>2, RoleAndContent
  <2> QED BY <1>2, <2>1, FromAnthropicSame DEF Inward, RoleOf, Speakers
<1>3. ASSUME NEW n \in Even, NEW x \in Replies(n), m = Message("model", x), c = "gemini"
      PROVE  m.role = "model" /\ m.content \in Replies(n) /\ PartsFor(n, m.content, Inward(c, m))
  <2>1. m.role = "model" /\ m.content = x
    BY <1>3, RoleAndContent
  <2>2. Inward(c, m) = FromGeminiContent(m)
    BY <1>3 DEF Inward
  <2> QED BY <1>3, <2>1, <2>2, FromGeminiReply DEF PartsFor
<1>4. ASSUME NEW n \in Odd, NEW r \in Results(n), m = Message("tool", << r >>), c = "openai"
      PROVE  ResultsOnly(m, n, << r >>) /\ ToolsFor(n, << r >>, Inward(c, m)) /\ m.content = << r >>
  <2>1. m.role = "tool" /\ m.content = << r >> /\ m = Tool(r) /\ Inward(c, m) = << Tool(r) >>
    BY <1>4, RoleAndContent DEF Tool, Inward
  <2>2. << r >> \in Hands(n)
    BY DEF Hands
  <2> QED BY <1>0, <2>1, <2>2, ResultParts DEF ResultsOnly, ToolsFor
<1>5. ASSUME NEW n \in Odd, NEW x \in Hands(n), NEW y, m = Message("user", y), c = "anthropic",
             y = x \/ y = x \o << ReminderAt(n) >>
      PROVE  ResultsOnly(m, n, x) /\ ToolsFor(n, x, Inward(c, m))
  <2>1. m.role = "user" /\ m.content = y
    BY <1>5, RoleAndContent
  <2>2. y \in Seq(BlockSet) /\ Only(y, {"call"}) = << >> /\ Only(y, {"result"}) = x /\ x # << >>
    <3>1. CASE y = x
      BY <3>1, ResultParts
    <3>2. CASE y = x \o << ReminderAt(n) >>
      <4>1. y \in Reminds(n)
        BY <3>2 DEF Reminds
      <4>2. y \in Seq(BlockSet) /\ Only(y, {"call"}) = << >>
        BY <4>1, RemindingParts
      <4>3. Only(y, {"result"}) = x \o << >>
        <5>1. PICK t \in Seq(BlockSet) : t = << ReminderAt(n) >> /\ Only(t, {"result"}) = << >>
          <6>1. \A b \in BlockSet : << b >> \in Seq(BlockSet)
            OBVIOUS
          <6> QED BY <6>1, ReminderTyped, OnlyOne
        <5>2. x \in Seq(BlockSet) /\ Only(x, {"result"}) = x
          BY ResultParts
        <5> QED BY <3>2, <5>1, <5>2, OnlyConcat
      <4>4. x \o << >> = x /\ x # << >>
        BY ResultParts, ConcatEmptySeq
      <4> QED BY <4>2, <4>3, <4>4
    <3> QED BY <1>5, <3>1, <3>2
  <2>3. Inward(c, m) = Tools(x)
    BY <1>5, <2>1, <2>2, FromAnthropicResults DEF Inward
  <2>4. ToolsFor(n, x, Inward(c, m))
    <3>1. CASE \E r \in Results(n) : x = << r >>
      BY <1>0, <2>3, <3>1, ToolsOne DEF ToolsFor
    <3>2. CASE \E r \in Results(n), s \in Results(n) : x = << r, s >>
      BY <1>0, <2>3, <3>2, ToolsTwo DEF ToolsFor
    <3> QED BY <3>1, <3>2 DEF Hands
  <2> QED BY <1>5, <2>1, <2>2, <2>4 DEF ResultsOnly
<1>6. ASSUME NEW n \in Odd, NEW x \in Hands(n), m = Message("user", x), c = "gemini"
      PROVE  ResultsOnly(m, n, x) /\ ToolsFor(n, x, Inward(c, m)) /\ m.content = x
  <2>1. m.role = "user" /\ m.content = x
    BY <1>6, RoleAndContent
  <2>2. x \in Seq(BlockSet) /\ Only(x, {"call"}) = << >> /\ Only(x, {"result"}) = x
    BY ResultParts
  <2>3. Inward(c, m) = Parts(x)
    BY <1>6, <2>1, FromGeminiResults DEF Inward
  <2>4. ToolsFor(n, x, Inward(c, m))
    <3>1. CASE \E r \in Results(n) : x = << r >>
      <4>1. PICK r \in Results(n) : x = << r >>
        BY <3>1
      <4>2. Inward(c, m) = << Tool(Again(r)) >>
        BY <1>0, <2>3, <4>1, PartsOne
      <4> QED BY <1>0, <4>1, <4>2 DEF ToolsFor
    <3>2. CASE \E r \in Results(n), s \in Results(n) : x = << r, s >>
      <4>1. PICK r \in Results(n), s \in Results(n) : x = << r, s >>
        BY <3>2
      <4>2. Inward(c, m) = << Tool(Again(r)), Tool(Again(s)) >>
        BY <1>0, <2>3, <4>1, PartsTwo
      <4> QED BY <1>0, <4>1, <4>2 DEF ToolsFor
    <3> QED BY <3>1, <3>2 DEF Hands
  <2> QED BY <2>1, <2>2, <2>4 DEF ResultsOnly
<1>7. CASE c = "openai"
  BY ZenonT(40), <1>1, <1>2, <1>4, <1>7 DEF FormsOf, OpenAIForms, Asking, Replying
<1>8. CASE c = "anthropic"
  <2>1. CASE \E x \in Asking : m = Message("user", x)
    BY <1>1, <2>1 DEF Asking
  <2>2. CASE \E x \in Replying : m = Message("assistant", x)
    BY <1>2, <1>8, <2>2 DEF Replying
  <2>3. CASE \E x \in Resulting : m = Message("user", x)
    BY <1>5, <1>8, <2>3 DEF Resulting
  <2>4. CASE \E y \in Reminding : m = Message("user", y)
    <3>0. PICK y \in Reminding : m = Message("user", y)
      BY <2>4
    <3>1. PICK n \in Odd : y \in Reminds(n)
      BY DEF Reminding
    <3>2. PICK x \in Hands(n) : y = x \o << ReminderAt(n) >>
      BY <3>1 DEF Reminds
    <3> QED BY <1>5, <1>8, <3>0, <3>2
  <2>5. m \in AnthropicForms
    BY <1>8 DEF FormsOf
  <2> QED BY <2>1, <2>2, <2>3, <2>4, <2>5 DEF AnthropicForms
<1>9. CASE c = "gemini"
  BY <1>1, <1>3, <1>6, <1>9 DEF FormsOf, GeminiForms, Asking, Replying, Resulting
<1> QED BY <1>7, <1>8, <1>9 DEF Speakers

SameAtoms(x, y) == ToSet(x) = ToSet(y) /\ Len(x) = Len(y) /\ \A i \in 1 .. Len(x) : y[i][1] = x[i][1]

LEMMA ContentsTwo ==
  ASSUME NEW f \in MessageSet, NEW g \in MessageSet
  PROVE  Contents(<< f, g >>) = Mapped(f.content, CarriedFn) \o Mapped(g.content, CarriedFn)
<1>1. PICK u \in Seq(MessageSet), v \in Seq(MessageSet) : u = << f >> /\ v = << g >> /\ << f, g >> = u \o v
  BY Pair
<1>2. Contents(u \o v) = Contents(u) \o Contents(v)
  BY ContentsConcat
<1> QED BY <1>1, <1>2, ContentsOne

LEMMA IdsTwo ==
  ASSUME NEW kind, NEW f \in MessageSet, NEW g \in MessageSet
  PROVE  IdsIn(<< f, g >>, kind) = IdsIn(<< f >>, kind) \cup IdsIn(<< g >>, kind)
<1>1. PICK u \in Seq(MessageSet), v \in Seq(MessageSet) : u = << f >> /\ v = << g >> /\ << f, g >> = u \o v
  BY Pair
<1>2. IdsIn(u \o v, kind) = IdsIn(u, kind) \cup IdsIn(v, kind)
  BY IdsConcat
<1> QED BY <1>1, <1>2

LEMMA SetOfOne == \A x : ToSet(<< x >>) = {x}
<1>1. \A x : DOMAIN << x >> = 1 .. 1 /\ << x >>[1] = x
  OBVIOUS
<1> QED BY <1>1 DEF ToSet

LEMMA SetOfTwo == \A x, y : ToSet(<< x, y >>) = {x, y}
<1>1. \A x, y : DOMAIN << x, y >> = 1 .. 2 /\ << x, y >>[1] = x /\ << x, y >>[2] = y
  OBVIOUS
<1> QED BY <1>1 DEF ToSet

LEMMA ToolIds ==
  ASSUME NEW n, NEW q \in Results(n)
  PROVE  /\ Tool(q) \in MessageSet /\ IdsIn(<< Tool(q) >>, "result") = {q.id} /\ IdsIn(<< Tool(q) >>, "call") = {}
         /\ Has(Tool(q), "result") /\ ~ Has(Tool(q), "call")
<1>1. Tool(q) \in MessageSet /\ Tool(q).content = << q >>
  BY ToolTyped, RoleAndContent DEF Results, Tool
<1>2. Only(<< q >>, {"result"}) = << q >> /\ Only(<< q >>, {"call"}) = << >> /\ << q >> # << >>
  BY PartsOfResult
<1>3. ToSet(<< q >>) = {q} /\ ToSet(<< >>) = {}
  BY SetOfOne DEF ToSet
<1>4. /\ IdsIn(<< Tool(q) >>, "call") = {b.id : b \in ToSet(Only(Tool(q).content, {"call"}))}
      /\ IdsIn(<< Tool(q) >>, "result") = {b.id : b \in ToSet(Only(Tool(q).content, {"result"}))}
  BY <1>1, IdsOne, Zenon
<1> QED BY <1>1, <1>2, <1>3, <1>4 DEF Has

LEMMA AskedIds ==
  ASSUME NEW n, NEW c \in Calls(n)
  PROVE  /\ Asked(c) \in MessageSet /\ IdsIn(<< Asked(c) >>, "call") = {FName} /\ IdsIn(<< Asked(c) >>, "result") = {}
         /\ Has(Asked(c), "call") /\ ~ Has(Asked(c), "result")
<1>1. PICK q \in Calls(n) : q = Renamed(c) /\ q.id = FName
  BY RenamedCall
<1>2. << q >> \in Seq(BlockSet)
  BY DEF Calls
<1>3. Asked(c) \in MessageSet /\ Asked(c).content = << q >>
  BY <1>1, <1>2, RoleAndContent DEF Asked, Message, MessageSet, Role
<1>4. Only(<< q >>, {"call"}) = << q >> /\ Only(<< q >>, {"result"}) = << >> /\ << q >> # << >>
  BY PartsOfCall
<1>5. ToSet(<< q >>) = {q} /\ ToSet(<< >>) = {}
  BY SetOfOne DEF ToSet
<1>6. /\ IdsIn(<< Asked(c) >>, "call") = {b.id : b \in ToSet(Only(Asked(c).content, {"call"}))}
      /\ IdsIn(<< Asked(c) >>, "result") = {b.id : b \in ToSet(Only(Asked(c).content, {"result"}))}
  BY <1>3, IdsOne, Zenon
<1> QED BY <1>1, <1>3, <1>4, <1>5, <1>6 DEF Has

LEMMA SaidIds ==
  ASSUME NEW n, NEW t \in Texts(n), NEW f, f = Message("assistant", << t >>)
  PROVE  /\ f \in MessageSet /\ IdsIn(<< f >>, "call") = {} /\ IdsIn(<< f >>, "result") = {}
         /\ ~ Has(f, "call") /\ ~ Has(f, "result")
<1>1. << t >> \in Seq(BlockSet)
  BY DEF Texts
<1>2. f \in MessageSet /\ f.content = << t >>
  BY <1>1, RoleAndContent DEF Message, MessageSet, Role
<1>3. Only(<< t >>, {"call"}) = << >> /\ Only(<< t >>, {"result"}) = << >>
  BY PartsOfText
<1>4. ToSet(<< >>) = {}
  BY DEF ToSet
<1>5. /\ IdsIn(<< f >>, "call") = {b.id : b \in ToSet(Only(f.content, {"call"}))}
      /\ IdsIn(<< f >>, "result") = {b.id : b \in ToSet(Only(f.content, {"result"}))}
  BY <1>2, IdsOne, Zenon
<1> QED BY <1>2, <1>3, <1>4, <1>5 DEF Has

LEMMA InOpenAIForm ==
  ASSUME NEW n
  PROVE  /\ n \in Odd => \A x \in Asks(n) : Message("user", x) \in OpenAIForms
         /\ n \in Even => \A x \in Replies(n) : Message("assistant", x) \in OpenAIForms
         /\ n \in Odd => \A r \in Results(n) : Tool(r) \in OpenAIForms
         /\ n \in Even => \A c \in Calls(n) : Asked(c) \in OpenAIForms
         /\ n \in Even => \A t \in Texts(n) : Message("assistant", << t >>) \in OpenAIForms
<1>1. \A c \in Calls(n) : << Renamed(c) >> \in Replies(n)
  BY RenamedCall DEF Replies
<1>2. \A t \in Texts(n) : << t >> \in Replies(n)
  BY DEF Replies
<1>3. n \in Even => \A x \in Replies(n) : Message("assistant", x) \in OpenAIForms
  BY DEF OpenAIForms, Replying
<1>4. n \in Odd => \A x \in Asks(n) : Message("user", x) \in OpenAIForms
  BY DEF OpenAIForms, Asking
<1>5. n \in Odd => \A r \in Results(n) : Tool(r) \in OpenAIForms
  BY DEF OpenAIForms, Tool
<1> QED BY <1>1, <1>2, <1>3, <1>4, <1>5 DEF Asked

LEMMA AtomsOfForm ==
  ASSUME NEW n \in Nat, NEW x \in Asks(n) \cup Replies(n) \cup Hands(n), NEW z, z = Mapped(x, CarriedFn)
  PROVE  z \in Seq(AtomsOf(n)) /\ z \in Seq(Atom) /\ z # << >> /\ Unreminded(z) = z
<1>1. z \in Seq(AtomsOf(n)) /\ z # << >>
  BY FormAtoms
<1>2. AtomsOf(n) \subseteq Atom /\ AtomsOf(n) \subseteq {a \in Atom : a[2] # Reminder}
  BY DEF AtomsOf
<1>3. z \in Seq(Atom) /\ z \in Seq({a \in Atom : a[2] # Reminder})
  BY <1>1, <1>2, SeqMonotonic
<1> QED BY <1>1, <1>3, UnremindedSame

LEMMA UnremindedResults ==
  ASSUME NEW n \in Odd, NEW m \in MessageSet, NEW x, ResultsOnly(m, n, x)
  PROVE  Unreminded(Contents(<< m >>)) = Mapped(x, CarriedFn)
<1> DEFINE z == Mapped(x, CarriedFn)
<1>1. n \in Nat /\ x \in Hands(n)
  BY DEF Odd, ResultsOnly
<1>2. z \in Seq(Atom) /\ Unreminded(z) = z
  BY <1>1, AtomsOfForm
<1>3. CASE m.content = x
  BY <1>2, <1>3, ContentsOne
<1>4. CASE m.content = x \o << ReminderAt(n) >>
  <2>1. Contents(<< m >>) = z \o << << n, Reminder >> >>
    BY <1>1, <1>4, ContentsOne, RemindedAtoms
  <2>2. << n, Reminder >> \in Atom
    BY <1>1 DEF Atom, Word, Reminder
  <2>3. PICK v \in Seq(Atom) : v = << << n, Reminder >> >>
    <3>1. \A a \in Atom : << a >> \in Seq(Atom)
      OBVIOUS
    <3> QED BY <2>2, <3>1
  <2>4. Mapped(v, UnremindedFn) = << >>
    <3>1. Mapped(v, UnremindedFn) = UnremindedFn[<< n, Reminder >>]
      BY <2>2, <2>3, UnremindedFnTyped, MappedOne
    <3> QED BY <2>2, <3>1 DEF UnremindedFn
  <2>5. Mapped(z \o v, UnremindedFn) = Mapped(z, UnremindedFn) \o Mapped(v, UnremindedFn)
    <3> HIDE DEF z
    <3> QED BY <1>2, UnremindedFnTyped, MappedConcat
  <2>6. z \o << >> = z
    BY <1>2, ConcatEmptySeq
  <2>7. Unreminded(Contents(<< m >>)) = Mapped(z \o v, UnremindedFn)
    BY <2>1, <2>3 DEF Unreminded
  <2>8. Mapped(z, UnremindedFn) = z
    BY <1>2 DEF Unreminded
  <2> QED
    <3> HIDE DEF z
    <3>1. Unreminded(Contents(<< m >>)) = z
      BY <2>4, <2>5, <2>6, <2>7, <2>8
    <3> USE DEF z
    <3> QED BY <3>1
<1> QED BY <1>3, <1>4 DEF ResultsOnly

LEMMA SameAtomsSelf == \A z : SameAtoms(z, z)
BY DEF SameAtoms

LEMMA ToolsAtoms ==
  ASSUME NEW n \in Odd, NEW x, NEW s, ToolsFor(n, x, s)
  PROVE  s \in Seq(OpenAIForms) /\ s # << >> /\ Contents(s) = Mapped(x, CarriedFn)
<1>1. \A q \in Results(n) : Tool(q) \in OpenAIForms /\ Tool(q) \in MessageSet /\ Tool(q).content = << q >>
  BY InOpenAIForm, ToolIds, RoleAndContent DEF Tool
<1>2. \A q \in Results(n) : q \in BlockSet /\ AtomOf(q) \in Atom /\ CarriedFn[q] = << AtomOf(q) >>
  BY PieceAtom DEF Results, Odd
<1>3. ASSUME NEW r \in Results(n), NEW q \in Results(n), Repeats(n, r, q), x = << r >>, s = << Tool(q) >>
      PROVE  s \in Seq(OpenAIForms) /\ s # << >> /\ Contents(s) = Mapped(x, CarriedFn)
  <2>1. Contents(s) = Mapped(<< q >>, CarriedFn)
    BY <1>1, <1>3, ContentsOne
  <2>2. Mapped(<< q >>, CarriedFn) = Mapped(<< r >>, CarriedFn)
    BY <1>2, <1>3, CarriedOne DEF Repeats
  <2>3. s \in Seq(OpenAIForms) /\ s # << >>
    BY <1>1, <1>3
  <2> QED BY <1>3, <2>1, <2>2, <2>3
<1>4. ASSUME NEW r \in Results(n), NEW q \in Results(n), NEW u \in Results(n), NEW v \in Results(n),
             Repeats(n, r, q), Repeats(n, u, v), x = << r, u >>, s = << Tool(q), Tool(v) >>
      PROVE  s \in Seq(OpenAIForms) /\ s # << >> /\ Contents(s) = Mapped(x, CarriedFn)
  <2>1. Contents(s) = Mapped(<< q >>, CarriedFn) \o Mapped(<< v >>, CarriedFn)
    BY <1>1, <1>4, ContentsTwo
  <2>2. Mapped(<< q >>, CarriedFn) = << AtomOf(r) >> /\ Mapped(<< v >>, CarriedFn) = << AtomOf(u) >>
    BY <1>2, <1>4, CarriedOne DEF Repeats
  <2>3. Mapped(<< r, u >>, CarriedFn) = << AtomOf(r), AtomOf(u) >>
    BY <1>2, CarriedTwo
  <2>4. << AtomOf(r) >> \o << AtomOf(u) >> = << AtomOf(r), AtomOf(u) >>
    BY Joining
  <2>5. s \in Seq(OpenAIForms) /\ s # << >>
    BY <1>1, <1>4
  <2> QED BY <1>4, <2>1, <2>2, <2>3, <2>4, <2>5
<1> QED BY <1>3, <1>4 DEF ToolsFor

LEMMA PartsAtoms ==
  ASSUME NEW n \in Even, NEW x, NEW s, PartsFor(n, x, s)
  PROVE  s \in Seq(OpenAIForms) /\ s # << >> /\ SameAtoms(Mapped(x, CarriedFn), Contents(s))
<1>1. \A c \in Calls(n) : /\ Asked(c) \in OpenAIForms /\ Asked(c) \in MessageSet
                          /\ Asked(c).content = << Renamed(c) >>
  BY InOpenAIForm, AskedIds, RoleAndContent DEF Asked
<1>2. \A t \in Texts(n) : /\ Message("assistant", << t >>) \in OpenAIForms /\ Message("assistant", << t >>) \in MessageSet
                          /\ Message("assistant", << t >>).content = << t >>
  BY InOpenAIForm, SaidIds, RoleAndContent
<1>3. \A b \in Calls(n) \cup Texts(n) :
        b \in BlockSet /\ AtomOf(b) \in Atom /\ CarriedFn[b] = << AtomOf(b) >> /\ AtomOf(b)[1] = n
  BY PieceAtom DEF Calls, Texts, Even
<1>4. \A c \in Calls(n) : Renamed(c) \in Calls(n) /\ Mapped(<< Renamed(c) >>, CarriedFn) = << AtomOf(c) >>
  <2> TAKE c \in Calls(n)
  <2>1. Renamed(c) \in Calls(n) /\ ContentOf(Renamed(c)) = ContentOf(c)
    BY RenamedCall
  <2>2. AtomOf(Renamed(c)) = AtomOf(c)
    BY <2>1 DEF AtomOf
  <2> QED BY <1>3, <2>1, <2>2, CarriedOne
<1>5. \A t \in Texts(n) : Mapped(<< t >>, CarriedFn) = << AtomOf(t) >>
  BY <1>3, CarriedOne
<1>6. ASSUME NEW t \in Texts(n), x = << t >>, s = << Message("assistant", << t >>) >>
      PROVE  s \in Seq(OpenAIForms) /\ s # << >> /\ SameAtoms(Mapped(x, CarriedFn), Contents(s))
  BY <1>2, <1>6, ContentsOne, SameAtomsSelf
<1>7. ASSUME NEW c \in Calls(n), x = << c >>, s = << Asked(c) >>
      PROVE  s \in Seq(OpenAIForms) /\ s # << >> /\ SameAtoms(Mapped(x, CarriedFn), Contents(s))
  <2>1. Contents(s) = << AtomOf(c) >>
    BY <1>1, <1>4, <1>7, ContentsOne
  <2>2. Mapped(x, CarriedFn) = << AtomOf(c) >>
    BY <1>3, <1>7, CarriedOne
  <2>3. s \in Seq(OpenAIForms) /\ s # << >>
    BY <1>1, <1>7
  <2> QED BY <2>1, <2>2, <2>3, SameAtomsSelf
<1>8. ASSUME NEW c \in Calls(n), NEW d \in Calls(n), x = << c, d >>, s = << Asked(c), Asked(d) >>
      PROVE  s \in Seq(OpenAIForms) /\ s # << >> /\ SameAtoms(Mapped(x, CarriedFn), Contents(s))
  <2>0. Contents(s) = Mapped(Asked(c).content, CarriedFn) \o Mapped(Asked(d).content, CarriedFn)
    BY <1>1, <1>8, ContentsTwo
  <2>1. Contents(s) = << AtomOf(c) >> \o << AtomOf(d) >>
    BY <1>1, <1>4, <2>0
  <2>2. Mapped(x, CarriedFn) = << AtomOf(c), AtomOf(d) >>
    BY <1>3, <1>8, CarriedTwo
  <2>3. s \in Seq(OpenAIForms) /\ s # << >>
    BY <1>1, <1>8
  <2> QED BY <2>1, <2>2, <2>3, SameAtomsSelf, Joining
<1>9. ASSUME NEW t \in Texts(n), NEW c \in Calls(n), x = << t, c >>, s = << Asked(c), Message("assistant", << t >>) >>
      PROVE  s \in Seq(OpenAIForms) /\ s # << >> /\ SameAtoms(Mapped(x, CarriedFn), Contents(s))
  <2>0. Contents(s) = Mapped(Asked(c).content, CarriedFn)
                      \o Mapped(Message("assistant", << t >>).content, CarriedFn)
    BY <1>1, <1>2, <1>9, ContentsTwo
  <2>1. Contents(s) = << AtomOf(c) >> \o << AtomOf(t) >>
    BY <1>1, <1>2, <1>4, <1>5, <2>0
  <2>2. Contents(s) = << AtomOf(c), AtomOf(t) >>
    BY <2>1, Joining
  <2>3. Mapped(x, CarriedFn) = << AtomOf(t), AtomOf(c) >>
    BY <1>3, <1>9, CarriedTwo
  <2>4. s \in Seq(OpenAIForms) /\ s # << >>
    BY <1>1, <1>2, <1>9
  <2>5. SameAtoms(<< AtomOf(t), AtomOf(c) >>, << AtomOf(c), AtomOf(t) >>)
    BY <1>3, SetOfTwo DEF SameAtoms
  <2> QED BY <2>2, <2>3, <2>4, <2>5
<1> QED BY <1>6, <1>7, <1>8, <1>9 DEF PartsFor

LEMMA InwardAtoms ==
  ASSUME NEW c \in Speakers, NEW m \in FormsOf(c), NEW s, s = Inward(c, m)
  PROVE  /\ m \in MessageSet /\ s \in Seq(OpenAIForms) /\ s # << >>
         /\ SameAtoms(Unreminded(Contents(<< m >>)), Contents(s))
<1>0. m \in MessageSet
  BY FormsTyped DEF FormsOf
<1>1. ASSUME NEW n \in Odd, m.content \in Asks(n), m = Message("user", m.content), s = << m >>
      PROVE  s \in Seq(OpenAIForms) /\ s # << >> /\ SameAtoms(Unreminded(Contents(<< m >>)), Contents(s))
  <2>1. n \in Nat /\ m \in OpenAIForms
    BY <1>1, InOpenAIForm DEF Odd
  <2>2. Unreminded(Contents(<< m >>)) = Contents(<< m >>)
    BY <1>0, <1>1, <2>1, ContentsOne, AtomsOfForm
  <2> QED BY <1>1, <2>1, <2>2, SameAtomsSelf
<1>2. ASSUME NEW n \in Even, m.content \in Replies(n), m = Message("assistant", m.content), s = << m >>
      PROVE  s \in Seq(OpenAIForms) /\ s # << >> /\ SameAtoms(Unreminded(Contents(<< m >>)), Contents(s))
  <2>1. n \in Nat /\ m \in OpenAIForms
    BY <1>2, InOpenAIForm DEF Even
  <2>2. Unreminded(Contents(<< m >>)) = Contents(<< m >>)
    BY <1>0, <1>2, <2>1, ContentsOne, AtomsOfForm
  <2> QED BY <1>2, <2>1, <2>2, SameAtomsSelf
<1>3. ASSUME NEW n \in Even, m.content \in Replies(n), PartsFor(n, m.content, s)
      PROVE  s \in Seq(OpenAIForms) /\ s # << >> /\ SameAtoms(Unreminded(Contents(<< m >>)), Contents(s))
  <2>1. n \in Nat
    BY DEF Even
  <2>2. Unreminded(Contents(<< m >>)) = Mapped(m.content, CarriedFn)
    BY <1>0, <1>3, <2>1, ContentsOne, AtomsOfForm
  <2> QED BY <1>3, <2>2, PartsAtoms
<1>4. ASSUME NEW n \in Odd, NEW x, ResultsOnly(m, n, x), ToolsFor(n, x, s)
      PROVE  s \in Seq(OpenAIForms) /\ s # << >> /\ SameAtoms(Unreminded(Contents(<< m >>)), Contents(s))
  BY <1>0, <1>4, UnremindedResults, ToolsAtoms, SameAtomsSelf
<1> QED BY <1>0, <1>1, <1>2, <1>3, <1>4, InwardCases

-----------------------------------------------------------------------------
(* Whole conversations: what they become in OpenAI's form, and what the    *)
(* provider gets of that.                                                  *)

LEMMA MappedNothing ==
  ASSUME NEW S, NEW V, NEW T, T \subseteq V, NEW f, Gives(f, V, S), \A a \in T : f[a] = << >>, NEW s \in Seq(T)
  PROVE  Mapped(s, f) = << >>
<1> DEFINE P(u) == Mapped(u, f) = << >>
           U == {u \in Seq(T) : P(u)}
<1>1. P(<< >>)
  BY MappedEmpty
<1>2. ASSUME NEW u \in Seq(T), NEW a \in T, P(u) PROVE P(Append(u, a))
  <2>1. PICK v \in Seq(V) : v = << a >>
    BY Single
  <2>2. u \in Seq(V) /\ Append(u, a) = u \o v
    BY <2>1, SeqMonotonic, AppendIsConcat
  <2>3. Mapped(u \o v, f) = Mapped(u, f) \o Mapped(v, f)
    BY <2>2, MappedConcat
  <2>4. Mapped(v, f) = << >>
    BY <2>1, MappedOne
  <2>5. << >> \o << >> = << >>
    OBVIOUS
  <2> QED BY <1>2, <2>2, <2>3, <2>4, <2>5
<1> HIDE DEF P
<1>3. << >> \in U /\ \A u \in Seq(T) : \A a \in T : u \in U => Append(u, a) \in U
  BY <1>1, <1>2, AppendProperties
<1>4. Seq(T) \subseteq U
  <2> HIDE DEF U
  <2> QED BY <1>3, SeqInduction
<1>5. P(s)
  BY <1>4
<1> QED BY <1>5 DEF P

(* A conversation in OpenAI's form, between the two conversions.           *)
InwardFn(c) == [m \in FormsOf(c) |-> Inward(c, m)]
Mid(c, h) == Mapped(h, InwardFn(c))

LEMMA InwardFnTyped == \A c \in Speakers : Gives(InwardFn(c), FormsOf(c), OpenAIForms)
BY InwardAtoms DEF InwardFn, Gives

LEMMA MidTyped == ASSUME NEW c \in Speakers, NEW h \in Seq(FormsOf(c)) PROVE Mid(c, h) \in Seq(OpenAIForms)
BY InwardFnTyped, MappedTyped DEF Mid

LEMMA MidConcat ==
  ASSUME NEW c \in Speakers, NEW h \in Seq(FormsOf(c)), NEW g \in Seq(FormsOf(c))
  PROVE  Mid(c, h \o g) = Mid(c, h) \o Mid(c, g)
BY InwardFnTyped, MappedConcat DEF Mid

LEMMA MidOne ==
  ASSUME NEW c \in Speakers, NEW m \in FormsOf(c) PROVE Mid(c, << m >>) = Inward(c, m)
BY InwardFnTyped, MappedOne DEF Mid, InwardFn

LEMMA MidEmpty == \A c : Mid(c, << >>) = << >>
BY MappedEmpty DEF Mid

(* An OpenAI client's messages are in that form already.                   *)
LEMMA MidSelf == ASSUME NEW h \in Seq(OpenAIForms) PROVE Mid("openai", h) = h
<1>1. FormsOf("openai") = OpenAIForms /\ "openai" \in Speakers
  BY DEF FormsOf, Speakers
<1>2. PICK T, f : T = OpenAIForms /\ f = InwardFn("openai")
  OBVIOUS
<1>3. Gives(f, T, T)
  BY <1>1, <1>2, InwardFnTyped
<1>4. \A m \in T : f[m] = << m >>
  BY <1>1, <1>2 DEF InwardFn, Inward
<1>5. Mapped(h, f) = h
  BY <1>2, <1>3, <1>4, MappedSelf
<1> QED BY <1>2, <1>5 DEF Mid

(* The conversation in the provider's form.                                *)
Sent(to, s) == [i \in 1 .. Len(s) |-> ForProvider(to, s[i])]

LEMMA SentTyped ==
  ASSUME NEW to \in Protocols, NEW s \in Seq(OpenAIForms)
  PROVE  Sent(to, s) \in Seq(MessageSet) /\ Len(Sent(to, s)) = Len(s)
<1>1. \A m \in OpenAIForms : ForProvider(to, m) \in MessageSet
  BY Forwarded
<1>2. Len(s) \in Nat /\ \A i \in 1 .. Len(s) : s[i] \in OpenAIForms
  BY LenProperties, ElementOfSeq
<1> QED BY <1>1, <1>2 DEF Sent

LEMMA SentSame ==
  ASSUME NEW to \in {"openai", "cohere"}, NEW s \in Seq(OpenAIForms) PROVE Sent(to, s) = s
<1>1. \A m : ForProvider(to, m) = m
  BY DEF ForProvider
<1>2. s = [i \in 1 .. Len(s) |-> s[i]]
  BY LenProperties
<1> QED BY <1>1, <1>2 DEF Sent

(* All but the system messages.                                            *)
Spoken == {m \in MessageSet : m.role # "system"}
OtherFn == [m \in MessageSet |-> IF ~ IsSystem(m) THEN << m >> ELSE << >>]
SystemFn == [m \in MessageSet |-> IF IsSystem(m) THEN << m >> ELSE << >>]
TextFn == [m \in MessageSet |-> TextOf(m.content)]

LEMMA SpokenFns ==
  /\ Gives(OtherFn, MessageSet, MessageSet) /\ Gives(SystemFn, MessageSet, MessageSet) /\ Gives(TextFn, MessageSet, Atom)
  /\ \A m \in Spoken : OtherFn[m] = << m >> /\ SystemFn[m] = << >>
  /\ \A m \in MessageSet \ Spoken : OtherFn[m] = << >> /\ SystemFn[m] = << m >>
<1>1. \A m \in MessageSet : TextOf(m.content) \in Seq(Atom)
  BY TextTyped DEF MessageSet
<1> QED BY <1>1 DEF OtherFn, SystemFn, TextFn, Gives, Spoken, IsSystem

LEMMA OthersIs == ASSUME NEW s \in Seq(MessageSet) PROVE Others(s) = Mapped(s, OtherFn)
<1>1. [i \in 1 .. Len(s) |-> IF ~ IsSystem(s[i]) THEN << s[i] >> ELSE << >>] = [i \in 1 .. Len(s) |-> OtherFn[s[i]]]
  BY ElementOfSeq DEF OtherFn
<1> QED BY <1>1 DEF Others, Keep, FlatMap, Mapped

LEMMA SystemTextIs ==
  ASSUME NEW s \in Seq(MessageSet) PROVE SystemText(s) = Mapped(Mapped(s, SystemFn), TextFn)
<1>1. [i \in 1 .. Len(s) |-> IF IsSystem(s[i]) THEN << s[i] >> ELSE << >>] = [i \in 1 .. Len(s) |-> SystemFn[s[i]]]
  BY ElementOfSeq DEF SystemFn
<1>2. PICK v \in Seq(MessageSet) : v = Mapped(s, SystemFn)
  BY SpokenFns, MappedTyped
<1>3. Keep(s, IsSystem) = v
  BY <1>1, <1>2 DEF Keep, FlatMap, Mapped
<1>4. [i \in 1 .. Len(v) |-> TextOf(v[i].content)] = [i \in 1 .. Len(v) |-> TextFn[v[i]]]
  BY ElementOfSeq DEF TextFn
<1> QED BY <1>2, <1>3, <1>4 DEF SystemText, FlatMap, Mapped

LEMMA SpokenAlone ==
  ASSUME NEW s \in Seq(Spoken)
  PROVE  s \in Seq(MessageSet) /\ Others(s) = s /\ Mapped(s, SystemFn) = << >> /\ SystemText(s) = << >>
<1>1. Spoken \subseteq MessageSet
  BY DEF Spoken
<1>2. s \in Seq(MessageSet)
  BY <1>1, SeqMonotonic
<1>3. Mapped(s, OtherFn) = s
  BY <1>1, SpokenFns, MappedSelf
<1>4. Mapped(s, SystemFn) = << >>
  BY <1>1, SpokenFns, MappedNothing
<1>5. SystemText(s) = << >>
  BY <1>2, <1>4, SystemTextIs, MappedEmpty
<1> QED BY <1>2, <1>3, <1>4, <1>5, OthersIs

LEMMA SystemBefore ==
  ASSUME NEW s \in Seq(Spoken), NEW m \in MessageSet \ Spoken
  PROVE  /\ << m >> \in Seq(MessageSet) /\ << m >> \o s \in Seq(MessageSet)
         /\ Others(<< m >> \o s) = s /\ SystemText(<< m >> \o s) = TextOf(m.content)
<1>1. PICK u \in Seq(MessageSet) : u = << m >>
  BY Single
<1>2. s \in Seq(MessageSet) /\ Others(s) = s /\ Mapped(s, SystemFn) = << >> /\ Mapped(s, OtherFn) = s
  BY SpokenAlone, OthersIs
<1>3. u \o s \in Seq(MessageSet)
  BY <1>2, ConcatProperties
<1>4. \A f : Gives(f, MessageSet, MessageSet) => Mapped(u \o s, f) = Mapped(u, f) \o Mapped(s, f)
  BY <1>2, MappedConcat
<1>5. Mapped(u, OtherFn) = << >> /\ Mapped(u, SystemFn) = u
  BY <1>1, SpokenFns, MappedOne
<1>6. << >> \o s = s /\ u \o << >> = u
  BY <1>2, ConcatEmptySeq
<1>7. Mapped(u, TextFn) = TextOf(m.content)
  BY <1>1, SpokenFns, MappedOne DEF TextFn
<1>8. Others(u \o s) = s
  BY <1>2, <1>3, <1>4, <1>5, <1>6, OthersIs, SpokenFns
<1>9. SystemText(u \o s) = TextOf(m.content)
  BY <1>2, <1>3, <1>4, <1>5, <1>6, <1>7, SystemTextIs, SpokenFns
<1> QED BY <1>1, <1>3, <1>8, <1>9

LEMMA FormsSpoken == ASSUME NEW c \in Speakers PROVE FormsOf(c) \subseteq Spoken /\ OpenAIForms \subseteq Spoken
<1>1. ASSUME NEW m \in OpenAIForms \cup AnthropicForms \cup GeminiForms PROVE m.role # "system"
  <2>1. PICK x, role : role \in {"user", "assistant", "tool", "model"} /\ m = Message(role, x)
    BY DEF OpenAIForms, AnthropicForms, GeminiForms
  <2> QED BY <2>1, RoleAndContent
<1> QED BY <1>1, FormsTyped DEF Spoken, FormsOf

LEMMA SentSpoken ==
  ASSUME NEW to \in Protocols, NEW s \in Seq(OpenAIForms) PROVE Sent(to, s) \in Seq(Spoken)
<1>1. ASSUME NEW m \in OpenAIForms PROVE ForProvider(to, m) \in Spoken
  <2>1. ForProvider(to, m) \in MessageSet
    BY Forwarded
  <2>2. m.role \in {"user", "assistant", "tool"}
    BY OpenAICases
  <2>3. ForProvider(to, m).role = (CASE to = "anthropic" -> IF m.role = "assistant" THEN "assistant" ELSE "user"
                                     [] to = "gemini" -> IF m.role = "assistant" THEN "model" ELSE "user"
                                     [] OTHER -> m.role)
    BY ForProviderIs, RoleAndContent
  <2>4. ForProvider(to, m).role # "system"
    BY <2>2, <2>3
  <2> QED BY <2>1, <2>4 DEF Spoken
<1>2. Len(s) \in Nat /\ \A i \in 1 .. Len(s) : s[i] \in OpenAIForms
  BY LenProperties, ElementOfSeq
<1> QED BY <1>1, <1>2 DEF Sent

-----------------------------------------------------------------------------
(* A request, by what the client holds.                                    *)

SystemOf(c) == IF c = "gemini" THEN Dump(System) ELSE System
SystemFor(c) == Message("system", TextBlock(SystemOf(c)))

LEMMA SystemIs ==
  ASSUME NEW c
  PROVE  /\ SystemOf(c) \in Seq(Atom) /\ SystemOf(c) # << >> /\ ToSet(SystemOf(c)) \ {Dumped} = ToSet(System)
         /\ SystemFor(c) \in MessageSet \ Spoken /\ SystemFor(c).content # << >>
         /\ SystemMessage(SystemOf(c)) = << SystemFor(c) >>
         /\ TextOf(SystemFor(c).content) = SystemOf(c) /\ ToOllamaMessage(SystemFor(c)) = SystemFor(c)
         /\ ~ Has(SystemFor(c), "call") /\ ~ Has(SystemFor(c), "result") /\ SystemFor(c).role = "system"
         /\ Contents(<< SystemFor(c) >>) = << >>
<1>1. << 0, "system" >> \in Atom /\ Dumped \in Atom /\ Dumped # << 0, "system" >>
  BY DEF Atom, Word, Dumped
<1>2. Dump(System) = << Dumped, << 0, "system" >> >> /\ System = << << 0, "system" >> >>
  BY Joining DEF Dump, System
<1>3. SystemOf(c) \in Seq(Atom) /\ SystemOf(c) # << >>
  <2>1. System \in Seq(Atom) /\ System # << >>
    BY <1>1, <1>2
  <2>2. Dump(System) \in Seq(Atom) /\ Dump(System) # << >>
    BY <1>1, <1>2, Pair
  <2> QED BY <2>1, <2>2 DEF SystemOf
<1>4. ToSet(SystemOf(c)) \ {Dumped} = ToSet(System)
  <2>1. ToSet(System) = {<< 0, "system" >>} /\ ToSet(Dump(System)) = {Dumped, << 0, "system" >>}
    BY <1>2, SetOfOne, SetOfTwo
  <2> QED BY <1>1, <2>1 DEF SystemOf
<1> DEFINE b == Block("text", NoId, SystemOf(c))
<1>5. b \in BlockSet /\ b.kind = "text" /\ b.of = SystemOf(c) /\ TextBlock(SystemOf(c)) = << b >>
  BY <1>3, NoIdTyped DEF Block, BlockSet, Kind, TextBlock
<1>6. /\ << b >> \in Seq(BlockSet) /\ << b >> # << >>
      /\ Only(<< b >>, {"call"}) = << >> /\ Only(<< b >>, {"result"}) = << >> /\ Only(<< b >>, {"image"}) = << >>
      /\ Only(<< b >>, {"call", "result"}) = << >> /\ TextOf(<< b >>) = SystemOf(c)
  BY <1>5, Single, OnlyOne, TextOne
<1>7. SystemFor(c).role = "system" /\ SystemFor(c).content = << b >> /\ SystemFor(c) = Message("system", << b >>)
  BY <1>5, RoleAndContent DEF SystemFor
<1>8. SystemFor(c) \in MessageSet \ Spoken
  BY <1>6, <1>7 DEF Message, MessageSet, Role, Spoken
<1>9. SystemMessage(SystemOf(c)) = << SystemFor(c) >>
  BY <1>3 DEF SystemMessage, SystemFor
<1>10. ToOllamaMessage(SystemFor(c)) = SystemFor(c)
  <2>1. Joined(<< b >>) = << b >> /\ << b >> \o << >> = << b >>
    BY <1>5, <1>6 DEF Joined
  <2> QED BY <1>6, <1>7, <2>1 DEF ToOllamaMessage
<1>11. Contents(<< SystemFor(c) >>) = << >>
  <2>1. \A a \in {Dumped, << 0, "system" >>} : a \in Atom /\ PositiveFn[a] = << >>
    BY <1>1 DEF PositiveFn, Dumped
  <2>2. SystemOf(c) \in Seq({Dumped, << 0, "system" >>})
    BY <1>2, Single, Pair DEF SystemOf
  <2>3. Mapped(SystemOf(c), PositiveFn) = << >>
    BY <2>1, <2>2, PositiveFnTyped, MappedNothing
  <2>4. CarriedFn[b] = << >>
    BY <1>5, <2>3, ContentOfIs DEF CarriedFn
  <2>5. Mapped(<< b >>, CarriedFn) = << >>
    BY <1>5, <2>4, CarriedFnTyped, MappedOne
  <2> QED BY <1>7, <1>8, <2>5, ContentsOne
<1> QED BY <1>3, <1>4, <1>6, <1>7, <1>8, <1>9, <1>10, <1>11 DEF Has

LEMMA SystemTyped == \A c : << SystemFor(c) >> \in Seq(MessageSet) /\ << >> \in Seq(MessageSet)
<1> TAKE c
<1>1. SystemFor(c) \in MessageSet
  BY SystemIs
<1> QED BY <1>1, Single

LEMMA MidIs ==
  ASSUME NEW h
  PROVE  /\ h \in Seq(AnthropicForms) => FlatMap(h, FromAnthropicMessage) = Mid("anthropic", h)
         /\ h \in Seq(GeminiForms) => FlatMap(h, FromGeminiContent) = Mid("gemini", h)
<1>1. ASSUME h \in Seq(AnthropicForms) PROVE FlatMap(h, FromAnthropicMessage) = Mid("anthropic", h)
  <2>1. [i \in 1 .. Len(h) |-> FromAnthropicMessage(h[i])] = [i \in 1 .. Len(h) |-> InwardFn("anthropic")[h[i]]]
    BY <1>1, ElementOfSeq DEF InwardFn, FormsOf, Inward
  <2> QED BY <2>1 DEF FlatMap, Mid, Mapped
<1>2. ASSUME h \in Seq(GeminiForms) PROVE FlatMap(h, FromGeminiContent) = Mid("gemini", h)
  <2>1. [i \in 1 .. Len(h) |-> FromGeminiContent(h[i])] = [i \in 1 .. Len(h) |-> InwardFn("gemini")[h[i]]]
    BY <1>2, ElementOfSeq DEF InwardFn, FormsOf, Inward
  <2> QED BY <2>1 DEF FlatMap, Mid, Mapped
<1> QED BY <1>1, <1>2

Shared == {"temperature", "top_p", "max_tokens", "tools", "stream"}

(* The client's request in OpenAI's form.                                  *)
LEMMA OwnIs ==
  ASSUME client \in Speakers, history \in Seq(FormsOf(client)), params \subseteq Parameters,
         NEW own, own = ToOpenAI(client, ClientBody)
  PROVE  /\ own.messages = << SystemFor(client) >> \o Mid(client, history)
         /\ own.system = << >> /\ params \cap Shared \subseteq own.params
<1>1. CASE client = "openai"
  <2>1. own = [Empty EXCEPT !.messages = SystemMessage(System) \o history, !.params = params]
    BY <1>1 DEF ToOpenAI, ClientBody
  <2>2. own.messages = SystemMessage(System) \o history /\ own.system = << >> /\ own.params = params
    BY <2>1 DEF Empty
  <2>3. SystemMessage(System) = << SystemFor(client) >>
    BY <1>1, SystemIs DEF SystemOf
  <2>4. Mid(client, history) = history
    BY <1>1, MidSelf DEF FormsOf
  <2> QED BY <2>2, <2>3, <2>4
<1>2. CASE client = "anthropic"
  <2>1. own = [Empty EXCEPT
                 !.messages = SystemMessage(System) \o FlatMap(history, FromAnthropicMessage),
                 !.params = {IF p = "tool_choice" THEN "other_choice" ELSE p : p \in params}]
    BY <1>2 DEF ToOpenAI, ClientBody, AnthropicToOpenAI, Empty
  <2>2. /\ own.messages = SystemMessage(System) \o FlatMap(history, FromAnthropicMessage) /\ own.system = << >>
        /\ own.params = {IF p = "tool_choice" THEN "other_choice" ELSE p : p \in params}
    BY <2>1 DEF Empty
  <2>3. SystemMessage(System) = << SystemFor(client) >>
    BY <1>2, SystemIs DEF SystemOf
  <2>4. FlatMap(history, FromAnthropicMessage) = Mid(client, history)
    BY <1>2, MidIs DEF FormsOf
  <2> QED BY <2>2, <2>3, <2>4 DEF Shared
<1>3. CASE client = "gemini"
  <2>0. System # << >>
    BY Joining DEF System
  <2>1. own = [Empty EXCEPT
                 !.messages = SystemMessage(Dump(System)) \o FlatMap(history, FromGeminiContent),
                 !.params = params \cap Shared]
    BY <1>3, <2>0 DEF ToOpenAI, ClientBody, GeminiToOpenAI, Empty, Shared
  <2>2. /\ own.messages = SystemMessage(Dump(System)) \o FlatMap(history, FromGeminiContent) /\ own.system = << >>
        /\ own.params = params \cap Shared
    BY <2>1 DEF Empty
  <2>3. SystemMessage(Dump(System)) = << SystemFor(client) >>
    BY <1>3, SystemIs DEF SystemOf
  <2>4. FlatMap(history, FromGeminiContent) = Mid(client, history)
    BY <1>3, MidIs DEF FormsOf
  <2> QED BY <2>2, <2>3, <2>4
<1> QED BY <1>1, <1>2, <1>3 DEF Speakers

(* The system message and the conversation, in the provider's form.        *)
Framed(own, m, s) ==
  /\ m \in MessageSet \ Spoken /\ s \in Seq(OpenAIForms) /\ ToOllamaMessage(m) = m
  /\ own.messages = << m >> \o s /\ own.system = << >>

Forwards(body, to, own, m, s) ==
  /\ body.messages = (IF to \in {"anthropic", "gemini"} THEN << >> ELSE << m >>) \o Sent(to, s)
  /\ body.system \o SystemText(body.messages) = TextOf(m.content)
  /\ own.params \cap Shared \subseteq body.params

LEMMA ForwardIs ==
  ASSUME NEW to \in Protocols, NEW own, NEW m, NEW s, Framed(own, m, s)
  PROVE  Forwards(FromOpenAI(to, own), to, own, m, s)
<1> USE DEF Forwards
<1>a. /\ m \in MessageSet \ Spoken /\ s \in Seq(OpenAIForms) /\ ToOllamaMessage(m) = m
      /\ own.messages = << m >> \o s /\ own.system = << >>
  BY DEF Framed
<1>b. PICK body : body = FromOpenAI(to, own)
  OBVIOUS
<1>0. PICK u \in Seq(MessageSet) : u = << m >>
  BY <1>a, Single
<1>1. /\ s \in Seq(Spoken) /\ s \in Seq(MessageSet) /\ Sent(to, s) \in Seq(Spoken)
      /\ Len(s) \in Nat /\ Len(Sent(to, s)) = Len(s)
  <2>1. "openai" \in Speakers
    BY DEF Speakers
  <2>2. s \in Seq(Spoken)
    BY <1>a, <2>1, FormsSpoken, SeqMonotonic
  <2> QED BY <1>a, <2>2, SentSpoken, SentTyped, SpokenAlone, LenProperties
<1>2. Others(own.messages) = s /\ SystemText(own.messages) = TextOf(m.content)
  BY <1>a, <1>1, SystemBefore
<1>3. TextOf(m.content) \in Seq(Atom)
  BY <1>a, TextTyped DEF MessageSet
<1>4. SystemText(Sent(to, s)) = << >> /\ << >> \o Sent(to, s) = Sent(to, s)
  BY <1>1, SpokenAlone, ConcatEmptySeq
<1>5. SystemText(<< m >> \o Sent(to, s)) = TextOf(m.content)
  BY <1>a, <1>1, SystemBefore
<1>6. TextOf(m.content) \o << >> = TextOf(m.content) /\ << >> \o TextOf(m.content) = TextOf(m.content)
  BY <1>3, ConcatEmptySeq
<1>7. DOMAIN s = 1 .. Len(s)
  BY <1>1, LenProperties
<1>8. CASE to = "anthropic"
  <2>1. Sent(to, s) = [i \in DOMAIN s |-> ToAnthropicMessage(s[i])]
    BY <1>7, <1>8 DEF Sent, ForProvider
  <2>2. /\ body.messages = Sent(to, s) /\ body.system = TextOf(m.content)
        /\ body.params = own.params \cup {"max_tokens"}
    BY <1>a, <1>b, <1>2, <1>8, <2>1 DEF FromOpenAI, OpenAIToAnthropic, Empty
  <2> QED BY <1>b, <1>4, <1>6, <1>8, <2>2
<1>9. CASE to = "gemini"
  <2>1. Sent(to, s) = [i \in DOMAIN s |-> ToGeminiMessage(s[i])]
    BY <1>7, <1>9 DEF Sent, ForProvider
  <2>2. /\ body.messages = Sent(to, s) /\ body.system = TextOf(m.content)
        /\ body.params = own.params \cap Shared
    BY <1>a, <1>b, <1>2, <1>9, <2>1 DEF FromOpenAI, OpenAIToGemini, Empty, Shared
  <2> QED BY <1>b, <1>4, <1>6, <1>9, <2>2
<1>10. CASE to = "cohere"
  <2>1. Sent(to, s) = s
    BY <1>a, <1>10, SentSame
  <2>2. body.messages = own.messages /\ body.system = << >> /\ body.params = own.params \ {"other_choice"}
    BY <1>a, <1>b, <1>10 DEF FromOpenAI, OpenAIToCohere, Empty
  <2> QED BY <1>a, <1>b, <1>2, <1>6, <1>10, <2>1, <2>2 DEF Shared
<1>11. CASE to = "openai"
  <2>1. Sent(to, s) = s
    BY <1>a, <1>11, SentSame
  <2>2. body = own
    BY <1>a, <1>b, <1>11 DEF FromOpenAI
  <2> QED BY <1>a, <1>b, <1>2, <1>6, <1>11, <2>1, <2>2
<1>12. CASE to = "ollama"
  <2> DEFINE q == << m >> \o s
             f == [i \in DOMAIN q |-> ToOllamaMessage(q[i])]
             g == << m >> \o Sent(to, s)
  <2>1. body.messages = f /\ body.system = << >> /\ body.params = own.params \cap Shared
    BY <1>a, <1>b, <1>12 DEF FromOpenAI, OpenAIToOllama, Empty, Shared
  <2>2. /\ q \in Seq(MessageSet) /\ Len(q) = 1 + Len(s)
        /\ \A i \in 1 .. 1 + Len(s) : q[i] = IF i <= 1 THEN u[i] ELSE s[i - 1]
    <3>1. Len(u) = 1
      BY <1>0
    <3> QED BY <1>a, <1>0, <1>1, <3>1, ConcatProperties
  <2>3. /\ g \in Seq(MessageSet) /\ Len(g) = 1 + Len(s)
        /\ \A i \in 1 .. 1 + Len(s) : g[i] = IF i <= 1 THEN u[i] ELSE Sent(to, s)[i - 1]
    <3>1. Len(u) = 1 /\ Sent(to, s) \in Seq(MessageSet)
      BY <1>0, <1>1, SpokenAlone
    <3>2. PICK v \in Seq(MessageSet) : v = Sent(to, s) /\ Len(v) = Len(s)
      BY <1>1, <3>1
    <3> QED BY <1>0, <3>1, <3>2, ConcatProperties
  <2>4. DOMAIN q = 1 .. 1 + Len(s) /\ DOMAIN g = 1 .. 1 + Len(s)
    BY <2>2, <2>3, LenProperties
  <2>5. ASSUME NEW i \in 1 .. 1 + Len(s) PROVE ToOllamaMessage(q[i]) = g[i]
    <3>1. CASE i = 1
      BY <1>a, <1>0, <2>2, <2>3, <3>1
    <3>2. CASE i # 1
      <4>1. i - 1 \in 1 .. Len(s) /\ ~ (i <= 1)
        BY <1>1, <3>2
      <4>2. Sent(to, s)[i - 1] = ToOllamaMessage(s[i - 1])
        BY <1>12, <4>1 DEF Sent, ForProvider
      <4> QED BY <2>2, <2>3, <4>1, <4>2
    <3> QED BY <3>1, <3>2
  <2>6. g = [i \in 1 .. 1 + Len(s) |-> g[i]]
    BY <2>3, <2>4
  <2>7. f = g
    <3> HIDE DEF q, g
    <3> QED BY <2>4, <2>5, <2>6
  <2> HIDE DEF f
  <2> QED BY <1>b, <1>5, <1>6, <1>12, <2>1, <2>7
<1> QED BY <1>8, <1>9, <1>10, <1>11, <1>12 DEF Protocols

(* What goes upstream: the client's own messages, or their translation,    *)
(* behind at most one system message.                                      *)
LEMMA RequestIs ==
  ASSUME client \in Speakers, history \in Seq(FormsOf(client)), params \subseteq Parameters,
         NEW to \in Protocols, to = Normalize(provider),
         NEW body, body = TranslateRequest(client, provider, ClientBody)
  PROVE  /\ \E pre \in {<< >>, << SystemFor(client) >>} :
              /\ pre # << >> => to \notin {"anthropic", "gemini"}
              /\ body.messages = pre \o (IF client = to THEN history ELSE Sent(to, Mid(client, history)))
         /\ body.system \o SystemText(body.messages) = (IF client = to THEN System ELSE SystemOf(client))
         /\ params \cap Shared \subseteq body.params
<1>1. Normalize(client) = client
  BY DEF Speakers, Normalize
<1>2. history \in Seq(Spoken) /\ SystemText(history) = << >>
  <2>1. history \in Seq(Spoken)
    BY FormsSpoken, SeqMonotonic
  <2> QED BY <2>1, SpokenAlone
<1>3. CASE client = to
  <2>1. body = ClientBody
    BY <1>1, <1>3 DEF TranslateRequest
  <2>2. System \in Seq(Atom) /\ << 0, "system" >> \in Atom
    <3>1. << 0, "system" >> \in Atom
      BY DEF Atom, Word
    <3> QED BY <3>1 DEF System
  <2>3. System \o << >> = System /\ << >> \o System = System
    BY <2>2, ConcatEmptySeq
  <2>4. CASE client = "openai"
    <3>1. body.messages = SystemMessage(System) \o history /\ body.system = << >> /\ body.params = params
      BY <2>1, <2>4 DEF ClientBody, Empty
    <3>2. SystemMessage(System) = << SystemFor(client) >> /\ TextOf(SystemFor(client).content) = System
          /\ SystemFor(client) \in MessageSet \ Spoken
      BY <2>4, SystemIs DEF SystemOf
    <3>3. SystemText(body.messages) = System
      BY <1>2, <3>1, <3>2, SystemBefore
    <3>4. to \notin {"anthropic", "gemini"}
      BY <1>3, <2>4
    <3>5. PICK pre \in {<< >>, << SystemFor(client) >>} : pre = << SystemFor(client) >>
      OBVIOUS
    <3>6. body.messages = pre \o history
      BY <3>1, <3>2, <3>5
    <3>7. body.system \o SystemText(body.messages) = System
      BY <2>3, <3>1, <3>3
    <3> QED BY <1>3, <3>1, <3>4, <3>5, <3>6, <3>7
  <2>5. CASE client # "openai"
    <3>1. body.messages = history /\ body.system = System /\ body.params = params
      BY <2>1, <2>5 DEF ClientBody, Empty
    <3>2. << >> \o history = history
      BY ConcatEmptySeq
    <3> QED BY <1>2, <1>3, <2>3, <3>1, <3>2
  <2> QED BY <2>4, <2>5
<1>4. CASE client # to
  <2>1. PICK own : own = ToOpenAI(client, ClientBody)
    OBVIOUS
  <2>2. body = FromOpenAI(to, own)
    BY <1>1, <1>4, <2>1 DEF TranslateRequest
  <2>3. PICK m \in MessageSet \ Spoken, s \in Seq(OpenAIForms) :
          m = SystemFor(client) /\ s = Mid(client, history) /\ ToOllamaMessage(m) = m /\ TextOf(m.content) = SystemOf(client)
    BY SystemIs, MidTyped
  <2>4. own.messages = << m >> \o s /\ own.system = << >> /\ params \cap Shared \subseteq own.params
    BY <2>1, <2>3, OwnIs
  <2>5. Framed(own, m, s)
    BY <2>3, <2>4 DEF Framed
  <2>6. Forwards(body, to, own, m, s)
    BY <2>2, <2>5, ForwardIs
  <2> QED BY <1>4, <2>3, <2>4, <2>6 DEF Forwards
<1> QED BY <1>3, <1>4

-----------------------------------------------------------------------------
(* The atoms of whole conversations.                                       *)

LEMMA SameAtomsConcat ==
  ASSUME NEW x \in Seq(Atom), NEW y \in Seq(Atom), NEW u \in Seq(Atom), NEW v \in Seq(Atom),
         SameAtoms(x, y), SameAtoms(u, v)
  PROVE  SameAtoms(x \o u, y \o v)
<1>1. ToSet(x \o u) = ToSet(x) \cup ToSet(u) /\ ToSet(y \o v) = ToSet(y) \cup ToSet(v)
  BY ToSetConcat
<1>2. /\ Len(x \o u) = Len(x) + Len(u) /\ Len(x) \in Nat /\ Len(u) \in Nat
      /\ \A i \in 1 .. Len(x) + Len(u) : (x \o u)[i] = IF i <= Len(x) THEN x[i] ELSE u[i - Len(x)]
  BY ConcatProperties, LenProperties
<1>3. /\ Len(y \o v) = Len(y) + Len(v) /\ Len(y) \in Nat /\ Len(v) \in Nat
      /\ \A i \in 1 .. Len(y) + Len(v) : (y \o v)[i] = IF i <= Len(y) THEN y[i] ELSE v[i - Len(y)]
  BY ConcatProperties, LenProperties
<1>4. /\ ToSet(x) = ToSet(y) /\ Len(x) = Len(y) /\ \A i \in 1 .. Len(x) : y[i][1] = x[i][1]
      /\ ToSet(u) = ToSet(v) /\ Len(u) = Len(v) /\ \A i \in 1 .. Len(u) : v[i][1] = u[i][1]
  BY DEF SameAtoms
<1>5. ASSUME NEW i \in 1 .. Len(x) + Len(u) PROVE (y \o v)[i][1] = (x \o u)[i][1]
  <2>1. CASE i <= Len(x)
    <3>1. i \in 1 .. Len(x)
      BY <1>2, <2>1
    <3> QED BY <1>2, <1>3, <1>4, <2>1, <3>1
  <2>2. CASE ~ (i <= Len(x))
    <3>1. i - Len(x) \in 1 .. Len(u)
      BY <1>2, <2>2
    <3>2. (x \o u)[i] = u[i - Len(x)]
      BY <1>2, <2>2
    <3>3. (y \o v)[i] = v[i - Len(x)]
      BY <1>3, <1>4, <2>2
    <3> QED BY <1>4, <3>1, <3>2, <3>3
  <2> QED BY <2>1, <2>2
<1> QED BY <1>1, <1>2, <1>3, <1>4, <1>5 DEF SameAtoms

LEMMA UnremindedTyped == ASSUME NEW z \in Seq(Atom) PROVE Unreminded(z) \in Seq(Atom)
BY UnremindedFnTyped, MappedTyped DEF Unreminded

LEMMA UnremindedConcat ==
  ASSUME NEW z \in Seq(Atom), NEW y \in Seq(Atom) PROVE Unreminded(z \o y) = Unreminded(z) \o Unreminded(y)
BY UnremindedFnTyped, MappedConcat DEF Unreminded

(* Into OpenAI's form everything comes but the reminders.                  *)
LEMMA MidAtoms ==
  ASSUME NEW c \in Speakers, NEW h \in Seq(FormsOf(c)) PROVE SameAtoms(Unreminded(Contents(h)), Contents(Mid(c, h)))
<1> DEFINE P(g) == SameAtoms(Unreminded(Contents(g)), Contents(Mid(c, g)))
           T == {g \in Seq(FormsOf(c)) : P(g)}
<1>1. P(<< >>)
  BY ContentsEmpty, MidEmpty, MappedEmpty, SameAtomsSelf DEF Unreminded
<1>2. ASSUME NEW g \in Seq(FormsOf(c)), NEW m \in FormsOf(c), P(g) PROVE P(Append(g, m))
  <2>1. PICK v \in Seq(FormsOf(c)) : v = << m >>
    BY Single
  <2>2. Append(g, m) = g \o v
    BY <2>1, AppendIsConcat
  <2>3. /\ FormsOf(c) \subseteq MessageSet /\ OpenAIForms \subseteq MessageSet
        /\ g \in Seq(MessageSet) /\ v \in Seq(MessageSet)
        /\ Mid(c, g) \in Seq(MessageSet) /\ Mid(c, v) \in Seq(MessageSet)
    <3>1. FormsOf(c) \subseteq MessageSet /\ OpenAIForms \subseteq MessageSet
      BY FormsTyped DEF FormsOf
    <3>2. Mid(c, g) \in Seq(OpenAIForms) /\ Mid(c, v) \in Seq(OpenAIForms)
      BY MidTyped
    <3> QED BY <3>1, <3>2, SeqMonotonic
  <2>4. Contents(g \o v) = Contents(g) \o Contents(v)
    BY <2>3, ContentsConcat
  <2>5. Contents(Mid(c, g) \o Mid(c, v)) = Contents(Mid(c, g)) \o Contents(Mid(c, v))
    BY <2>3, ContentsConcat
  <2>6. Mid(c, g \o v) = Mid(c, g) \o Mid(c, v)
    BY MidConcat
  <2>7. /\ Contents(g) \in Seq(Atom) /\ Contents(v) \in Seq(Atom)
        /\ Contents(Mid(c, g)) \in Seq(Atom) /\ Contents(Mid(c, v)) \in Seq(Atom)
    BY <2>3, ContentsTyped
  <2>8. Unreminded(Contents(g) \o Contents(v)) = Unreminded(Contents(g)) \o Unreminded(Contents(v))
    BY <2>7, UnremindedConcat
  <2>9. SameAtoms(Unreminded(Contents(v)), Contents(Mid(c, v)))
    BY <2>1, MidOne, InwardAtoms
  <2>10. SameAtoms(Unreminded(Contents(g)) \o Unreminded(Contents(v)), Contents(Mid(c, g)) \o Contents(Mid(c, v)))
    <3>1. Unreminded(Contents(g)) \in Seq(Atom) /\ Unreminded(Contents(v)) \in Seq(Atom)
      BY <2>7, UnremindedTyped
    <3> QED BY <1>2, <2>7, <2>9, <3>1, SameAtomsConcat
  <2> QED BY <2>2, <2>4, <2>5, <2>6, <2>8, <2>10
<1> HIDE DEF P
<1>3. << >> \in T /\ \A g \in Seq(FormsOf(c)) : \A m \in FormsOf(c) : g \in T => Append(g, m) \in T
  BY <1>1, <1>2, AppendProperties
<1>4. Seq(FormsOf(c)) \subseteq T
  <2> HIDE DEF T
  <2> QED BY <1>3, SeqInduction
<1>5. P(h)
  BY <1>4
<1> QED BY <1>5 DEF P

LEMMA SentOne == \A to, m : Sent(to, << m >>) = << ForProvider(to, m) >>
BY DEF Sent

LEMMA SentConcat ==
  ASSUME NEW to \in Protocols, NEW s \in Seq(OpenAIForms), NEW t \in Seq(OpenAIForms)
  PROVE  Sent(to, s \o t) = Sent(to, s) \o Sent(to, t)
<1>1. /\ s \o t \in Seq(OpenAIForms) /\ Len(s \o t) = Len(s) + Len(t) /\ Len(s) \in Nat /\ Len(t) \in Nat
      /\ \A i \in 1 .. Len(s) + Len(t) : (s \o t)[i] = IF i <= Len(s) THEN s[i] ELSE t[i - Len(s)]
  BY ConcatProperties, LenProperties
<1>2. PICK u \in Seq(MessageSet), v \in Seq(MessageSet), w \in Seq(MessageSet) :
        /\ u = Sent(to, s) /\ v = Sent(to, t) /\ w = Sent(to, s \o t)
        /\ Len(u) = Len(s) /\ Len(v) = Len(t) /\ Len(w) = Len(s) + Len(t)
  <2>1. Sent(to, s \o t) \in Seq(MessageSet) /\ Len(Sent(to, s \o t)) = Len(s) + Len(t)
    BY <1>1, SentTyped
  <2> QED BY <2>1, SentTyped
<1>3. /\ \A i \in 1 .. Len(s) : u[i] = ForProvider(to, s[i])
      /\ \A i \in 1 .. Len(t) : v[i] = ForProvider(to, t[i])
      /\ \A i \in 1 .. Len(s) + Len(t) : w[i] = ForProvider(to, (s \o t)[i])
  BY <1>1, <1>2 DEF Sent
<1>4. /\ u \o v \in Seq(MessageSet) /\ Len(u \o v) = Len(s) + Len(t)
      /\ \A i \in 1 .. Len(s) + Len(t) : (u \o v)[i] = IF i <= Len(s) THEN u[i] ELSE v[i - Len(s)]
  BY <1>2, ConcatProperties
<1>5. ASSUME NEW i \in 1 .. Len(s) + Len(t) PROVE w[i] = (u \o v)[i]
  <2>1. CASE i <= Len(s)
    BY <1>1, <1>3, <1>4, <2>1
  <2>2. CASE ~ (i <= Len(s))
    <3>1. i - Len(s) \in 1 .. Len(t)
      BY <1>1, <2>2
    <3> QED BY <1>1, <1>3, <1>4, <2>2, <3>1
  <2> QED BY <2>1, <2>2
<1>6. w = u \o v
  BY <1>2, <1>4, <1>5, SeqEqual
<1> QED BY <1>2, <1>6

(* And to the provider everything goes as it is.                           *)
LEMMA SentAtoms ==
  ASSUME NEW to \in Protocols, NEW s \in Seq(OpenAIForms) PROVE Contents(Sent(to, s)) = Contents(s)
<1> DEFINE P(g) == Contents(Sent(to, g)) = Contents(g)
           T == {g \in Seq(OpenAIForms) : P(g)}
<1>1. P(<< >>)
  <2>1. Sent(to, << >>) = << >>
    BY DEF Sent
  <2> QED BY <2>1
<1>2. ASSUME NEW g \in Seq(OpenAIForms), NEW m \in OpenAIForms, P(g) PROVE P(Append(g, m))
  <2>1. PICK v \in Seq(OpenAIForms) : v = << m >>
    BY Single
  <2>2. Append(g, m) = g \o v
    BY <2>1, AppendIsConcat
  <2>3. g \in Seq(MessageSet) /\ v \in Seq(MessageSet)
    <3>1. OpenAIForms \subseteq MessageSet
      BY FormsTyped
    <3> QED BY <3>1, SeqMonotonic
  <2>4. Contents(g \o v) = Contents(g) \o Contents(v)
    BY <2>3, ContentsConcat
  <2>5. Sent(to, g \o v) = Sent(to, g) \o Sent(to, v)
    BY SentConcat
  <2>6. Contents(Sent(to, g) \o Sent(to, v)) = Contents(Sent(to, g)) \o Contents(Sent(to, v))
    BY SentTyped, ContentsConcat
  <2>7. Contents(Sent(to, v)) = Contents(v)
    BY <2>1, SentOne, Forwarded
  <2> QED BY <1>2, <2>2, <2>4, <2>5, <2>6, <2>7
<1> HIDE DEF P
<1>3. << >> \in T /\ \A g \in Seq(OpenAIForms) : \A m \in OpenAIForms : g \in T => Append(g, m) \in T
  BY <1>1, <1>2, AppendProperties
<1>4. Seq(OpenAIForms) \subseteq T
  <2> HIDE DEF T
  <2> QED BY <1>3, SeqInduction
<1>5. P(s)
  BY <1>4
<1> QED BY <1>5 DEF P

(* Who said what is told by the numbers of the atoms.                      *)
LEMMA FormSides ==
  ASSUME NEW c \in Speakers, NEW m \in FormsOf(c), NEW a \in ToSet(Contents(<< m >>))
  PROVE  m.role \in ClientSide <=> a[1] % 2 = 1
<1>1. m \in MessageSet /\ Contents(<< m >>) = Mapped(m.content, CarriedFn)
  BY FormsTyped, ContentsOne DEF FormsOf
<1>2. \A n, s : s \in Seq(AtomsOf(n)) => \A e \in ToSet(s) : e[1] = n
  BY ElementOfSeq, LenProperties DEF AtomsOf, ToSet
<1>3. ASSUME NEW n \in Nat, m.content \in Asks(n) \cup Replies(n) \cup Hands(n) PROVE a[1] = n
  BY <1>1, <1>2, <1>3, FormAtoms
<1>4. ASSUME NEW n \in Odd, m.role \in {"user", "tool"}, m.content \in Asks(n) \cup Hands(n)
      PROVE  m.role \in ClientSide <=> a[1] % 2 = 1
  BY <1>3, <1>4 DEF Odd, ClientSide
<1>5. ASSUME NEW n \in Even, m.role \in {"assistant", "model"}, m.content \in Replies(n)
      PROVE  m.role \in ClientSide <=> a[1] % 2 = 1
  BY <1>3, <1>5 DEF Even, ClientSide
<1>6. ASSUME NEW n \in Odd, NEW x \in Hands(n), m.role \in {"user", "tool"}, m.content = x \o << ReminderAt(n) >>
      PROVE  m.role \in ClientSide <=> a[1] % 2 = 1
  <2>1. PICK z \in Seq(Atom) : z = Mapped(x, CarriedFn) /\ z \in Seq(AtomsOf(n))
    BY FormAtoms, AtomsOfForm DEF Odd
  <2>2. PICK v \in Seq(Atom) : v = << << n, Reminder >> >>
    <3>1. << n, Reminder >> \in Atom
      BY DEF Odd, Atom, Word, Reminder
    <3> QED BY <3>1, Single
  <2>3. Contents(<< m >>) = z \o v
    BY <1>1, <1>6, <2>1, <2>2, RemindedAtoms
  <2>4. a \in ToSet(z) \/ a \in ToSet(v)
    <3>1. ToSet(z \o v) = ToSet(z) \cup ToSet(v)
      BY <2>1, <2>2, ToSetConcat
    <3> QED BY <2>3, <3>1
  <2>5. a[1] = n
    BY <1>2, <2>1, <2>2, <2>4, SetOfOne
  <2> QED BY <1>6, <2>5 DEF Odd, ClientSide
<1> QED BY <1>4, <1>5, <1>6, InwardCases DEF RoleOf, ResultsOnly

-----------------------------------------------------------------------------
(* What is lost on the way are the reminders.                              *)

(* The content that is lost.                                               *)
Reminders(s) == {a \in ToSet(s) : a[2] = Reminder}
BesideIn(h) ==
  UNION {Atoms(<< Message("user", Only(h[i].content, {"text", "image"})) >>) : i \in {j \in DOMAIN h : Has(h[j], "result")}}

LEMMA NoReminders == ASSUME NEW n, NEW s \in Seq(AtomsOf(n)) PROVE Reminders(s) = {}
BY ElementOfSeq, LenProperties DEF AtomsOf, ToSet, Reminders

LEMMA FormReminders ==
  ASSUME NEW c \in Speakers, NEW m \in FormsOf(c), NEW lost, lost = Reminders(Contents(<< m >>))
  PROVE  /\ c # "anthropic" \/ ~ Has(m, "result") => lost = {}
         /\ Has(m, "result") => lost = Atoms(<< Message("user", Only(m.content, {"text", "image"})) >>)
<1> DEFINE beside == Atoms(<< Message("user", Only(m.content, {"text", "image"})) >>)
<1>1. m \in MessageSet /\ Contents(<< m >>) = Mapped(m.content, CarriedFn)
  BY FormsTyped, ContentsOne DEF FormsOf
<1>2. ASSUME NEW n \in Nat, m.content \in Asks(n) \cup Replies(n) PROVE lost = {} /\ ~ Has(m, "result")
  <2>1. Only(m.content, {"result"}) = << >>
    BY <1>2, AskParts, ReplyParts
  <2> QED BY <1>1, <1>2, <2>1, FormAtoms, NoReminders DEF Has
<1>3. \A y \in Seq(BlockSet) : Atoms(<< Message("user", y) >>) = ToSet(Mapped(y, CarriedFn))
  <2> TAKE y \in Seq(BlockSet)
  <2>1. Message("user", y) \in MessageSet /\ Message("user", y).content = y
    BY RoleAndContent DEF Message, MessageSet, Role
  <2> QED BY <2>1, ContentsOne DEF Atoms
<1>4. ASSUME NEW n \in Nat, m.content \in Hands(n) PROVE lost = {} /\ Has(m, "result") /\ beside = {}
  <2>1. Only(m.content, {"result"}) # << >> /\ Only(m.content, {"text", "image"}) = << >>
    BY <1>4, ResultParts
  <2>2. << >> \in Seq(BlockSet) /\ ToSet(<< >>) = {}
    BY DEF ToSet
  <2>3. beside = {}
    BY <1>3, <2>1, <2>2, MappedEmpty
  <2> QED BY <1>1, <1>4, <2>1, <2>3, FormAtoms, NoReminders DEF Has
<1>5. ASSUME NEW n \in Odd, NEW x \in Hands(n), m.content = x \o << ReminderAt(n) >>
      PROVE  lost = beside /\ Has(m, "result")
  <2>1. PICK z \in Seq(Atom) : z = Mapped(x, CarriedFn) /\ z \in Seq(AtomsOf(n))
    BY FormAtoms, AtomsOfForm DEF Odd
  <2>2. PICK v \in Seq(Atom) : v = << << n, Reminder >> >>
    <3>1. << n, Reminder >> \in Atom
      BY DEF Odd, Atom, Word, Reminder
    <3> QED BY <3>1, Single
  <2>3. Contents(<< m >>) = z \o v
    BY <1>1, <1>5, <2>1, <2>2, RemindedAtoms
  <2>4. ToSet(z \o v) = ToSet(z) \cup ToSet(v)
    BY <2>1, <2>2, ToSetConcat
  <2>5. ToSet(v) = {<< n, Reminder >>} /\ Reminders(z) = {}
    BY <2>1, <2>2, SetOfOne, NoReminders
  <2>6. lost = {<< n, Reminder >>}
    <3>1. \A a : a \in lost <=> (a \in ToSet(z) \/ a = << n, Reminder >>) /\ a[2] = Reminder
      BY <2>3, <2>4, <2>5 DEF Reminders
    <3>2. \A a \in ToSet(z) : a[2] # Reminder
      BY <2>5 DEF Reminders
    <3>3. << n, Reminder >>[2] = Reminder
      OBVIOUS
    <3> QED BY <3>1, <3>2, <3>3
  <2>7. m.content \in Reminds(n)
    BY <1>5 DEF Reminds
  <2>8. /\ Only(m.content, {"text", "image"}) = << ReminderAt(n) >>
        /\ Only(m.content, {"result"}) # << >>
    <3>1. PICK y \in Hands(n) : /\ m.content = y \o << ReminderAt(n) >> /\ Only(m.content, {"call"}) = << >>
                                 /\ Only(m.content, {"result"}) = y
                                 /\ Only(m.content, {"text", "image"}) = << ReminderAt(n) >>
      BY <2>7, RemindingParts
    <3> QED BY <3>1, ResultParts
  <2>9. beside = ToSet(Mapped(<< ReminderAt(n) >>, CarriedFn))
    BY <1>3, <2>8, ReminderTyped, Single
  <2> QED BY <2>5, <2>6, <2>8, <2>9, <2>2, ReminderAtom DEF Has
<1>6. \A n : n \in Odd \cup Even => n \in Nat
  BY DEF Odd, Even
<1> HIDE DEF beside
<1>7. Has(m, "result") => lost = beside
  BY <1>2, <1>4, <1>5, <1>6, InwardCases DEF ResultsOnly
<1>8. c # "anthropic" \/ ~ Has(m, "result") => lost = {}
  BY <1>2, <1>4, <1>5, <1>6, InwardCases DEF ResultsOnly
<1> QED BY <1>7, <1>8 DEF beside

LEMMA ContentsElement ==
  ASSUME NEW h \in Seq(MessageSet), NEW a \in ToSet(Contents(h))
  PROVE  \E i \in 1 .. Len(h) : a \in ToSet(Contents(<< h[i] >>))
<1> DEFINE P(g) == \A e \in ToSet(Contents(g)) : \E i \in 1 .. Len(g) : e \in ToSet(Contents(<< g[i] >>))
           T == {g \in Seq(MessageSet) : P(g)}
<1>1. P(<< >>)
  BY ContentsEmpty DEF ToSet
<1>2. ASSUME NEW g \in Seq(MessageSet), NEW m \in MessageSet, P(g) PROVE P(Append(g, m))
  <2>1. PICK v \in Seq(MessageSet) : v = << m >>
    BY Single
  <2>2. Append(g, m) = g \o v
    BY <2>1, AppendIsConcat
  <2>3. Contents(g \o v) = Contents(g) \o Contents(v) /\ Contents(g) \in Seq(Atom) /\ Contents(v) \in Seq(Atom)
    BY ContentsConcat, ContentsTyped
  <2>4. ToSet(Contents(g) \o Contents(v)) = ToSet(Contents(g)) \cup ToSet(Contents(v))
    BY <2>3, ToSetConcat
  <2>5. /\ Len(Append(g, m)) = Len(g) + 1 /\ Len(g) \in Nat /\ Append(g, m)[Len(g) + 1] = m
        /\ \A i \in 1 .. Len(g) : Append(g, m)[i] = g[i]
    BY AppendProperties, LenProperties
  <2>6. PICK n, w : n \in Nat /\ w = Append(g, m) /\ n = Len(g)
    BY <2>5
  <2>7. Len(w) = n + 1 /\ w[n + 1] = m /\ \A i \in 1 .. n : w[i] = g[i] /\ i \in 1 .. n + 1
    BY <2>5, <2>6
  <2>8. ASSUME NEW e \in ToSet(Contents(w)) PROVE \E i \in 1 .. Len(w) : e \in ToSet(Contents(<< w[i] >>))
    <3>1. CASE e \in ToSet(Contents(g))
      <4>1. PICK i \in 1 .. n : e \in ToSet(Contents(<< g[i] >>))
        BY <1>2, <2>6, <3>1
      <4> QED BY <2>7, <4>1
    <3>2. CASE e \in ToSet(Contents(v))
      <4>1. n + 1 \in 1 .. Len(w) /\ e \in ToSet(Contents(<< w[n + 1] >>))
        BY <2>1, <2>6, <2>7, <3>2
      <4> QED BY <4>1
    <3> QED BY <2>2, <2>3, <2>4, <2>6, <3>1, <3>2
  <2> QED BY <2>6, <2>8
<1> HIDE DEF P
<1>3. << >> \in T /\ \A g \in Seq(MessageSet) : \A m \in MessageSet : g \in T => Append(g, m) \in T
  BY <1>1, <1>2, AppendProperties
<1>4. Seq(MessageSet) \subseteq T
  <2> HIDE DEF T
  <2> QED BY <1>3, SeqInduction
<1>5. P(h)
  BY <1>4
<1> QED BY <1>5 DEF P

LostFrom(c, h) == IF c = "anthropic" THEN BesideIn(h) ELSE {}

LEMMA LostIs ==
  ASSUME NEW c \in Speakers, NEW h \in Seq(FormsOf(c)), NEW a \in ToSet(Contents(h))
  PROVE  a \in LostFrom(c, h) <=> a[2] = Reminder
<1>1. h \in Seq(MessageSet) /\ DOMAIN h = 1 .. Len(h) /\ \A i \in 1 .. Len(h) : h[i] \in FormsOf(c)
  <2>1. FormsOf(c) \subseteq MessageSet
    BY FormsTyped DEF FormsOf
  <2> QED BY <2>1, SeqMonotonic, LenProperties, ElementOfSeq
<1>2. ASSUME a[2] = Reminder PROVE a \in LostFrom(c, h)
  <2>1. PICK i \in 1 .. Len(h) : a \in ToSet(Contents(<< h[i] >>))
    BY <1>1, ContentsElement
  <2>2. a \in Reminders(Contents(<< h[i] >>))
    BY <1>2, <2>1 DEF Reminders
  <2>3. /\ c = "anthropic" /\ Has(h[i], "result")
        /\ a \in Atoms(<< Message("user", Only(h[i].content, {"text", "image"})) >>)
    BY <1>1, <2>1, <2>2, FormReminders
  <2> QED BY <1>1, <2>1, <2>3 DEF LostFrom, BesideIn
<1>3. ASSUME a \in LostFrom(c, h) PROVE a[2] = Reminder
  <2>1. PICK i \in 1 .. Len(h) : /\ Has(h[i], "result")
                                 /\ a \in Atoms(<< Message("user", Only(h[i].content, {"text", "image"})) >>)
    BY <1>1, <1>3 DEF LostFrom, BesideIn
  <2>2. a \in Reminders(Contents(<< h[i] >>))
    BY <1>1, <2>1, FormReminders
  <2> QED BY <2>2 DEF Reminders
<1> QED BY <1>2, <1>3

Without(z, lost) == Keep(z, LAMBDA a : a \notin lost)

LEMMA HeldIs ==
  ASSUME NEW c \in Speakers, NEW h \in Seq(FormsOf(c)), NEW z, z = Contents(h), NEW lost
  PROVE  /\ lost = LostFrom(c, h) => Without(z, lost) = Unreminded(z)
         /\ lost = {} => Without(z, lost) = z
<1>1. z \in Seq(Atom) /\ DOMAIN z = 1 .. Len(z) /\ \A i \in 1 .. Len(z) : z[i] \in Atom /\ z[i] \in ToSet(z)
  <2>1. h \in Seq(MessageSet)
    <3>1. FormsOf(c) \subseteq MessageSet
      BY FormsTyped DEF FormsOf
    <3> QED BY <3>1, SeqMonotonic
  <2>2. z \in Seq(Atom)
    BY <2>1, ContentsTyped
  <2> QED BY <2>2, LenProperties, ElementOfSeq DEF ToSet
<1>2. ASSUME lost = LostFrom(c, h) PROVE Without(z, lost) = Unreminded(z)
  <2>1. \A i \in 1 .. Len(z) : z[i] \in lost <=> z[i][2] = Reminder
    BY <1>1, <1>2, LostIs
  <2>2. [i \in 1 .. Len(z) |-> IF z[i] \notin lost THEN << z[i] >> ELSE << >>] = [i \in 1 .. Len(z) |-> UnremindedFn[z[i]]]
    BY <1>1, <2>1 DEF UnremindedFn
  <2> QED BY <2>2 DEF Without, Keep, FlatMap, Unreminded, Mapped
<1>3. ASSUME lost = {} PROVE Without(z, lost) = z
  <2>1. PICK f : f = [a \in Atom |-> << a >>]
    OBVIOUS
  <2>2. Gives(f, Atom, Atom) /\ \A a \in Atom : f[a] = << a >>
    BY <2>1 DEF Gives
  <2>3. Mapped(z, f) = z
    BY <1>1, <2>2, MappedSelf
  <2>4. [i \in 1 .. Len(z) |-> IF z[i] \notin lost THEN << z[i] >> ELSE << >>] = [i \in 1 .. Len(z) |-> f[z[i]]]
    BY <1>1, <1>3, <2>2
  <2> QED BY <2>3, <2>4 DEF Without, Keep, FlatMap, Mapped
<1> QED BY <1>2, <1>3

(* The hypotheses under which a request is what the properties say.        *)
Held == client \in Speakers /\ history \in Seq(FormsOf(client)) /\ params \subseteq Parameters
Underway ==
  upstream # Idle =>
    /\ upstream.to = Normalize(provider) /\ upstream.to \in Protocols
    /\ upstream.body = TranslateRequest(client, provider, ClientBody)

(* The messages that go upstream.                                          *)
Going == IF client = upstream.to THEN history ELSE Sent(upstream.to, Mid(client, history))

LEMMA GoingIs ==
  ASSUME Held, Underway, upstream # Idle
  PROVE  /\ \E pre \in {<< >>, << SystemFor(client) >>} :
              /\ pre # << >> => upstream.to \notin {"anthropic", "gemini"}
              /\ upstream.body.messages = pre \o Going
         /\ Going \in Seq(MessageSet) /\ history \in Seq(MessageSet) /\ Mid(client, history) \in Seq(OpenAIForms)
         /\ upstream.body.system \o SystemText(upstream.body.messages)
              = (IF client = upstream.to THEN System ELSE SystemOf(client))
         /\ params \cap Shared \subseteq upstream.body.params
<1>1. PICK to, body : /\ to \in Protocols /\ to = upstream.to /\ body = upstream.body /\ to = Normalize(provider)
                                    /\ body = TranslateRequest(client, provider, ClientBody)
  BY DEF Underway
<1>2. /\ \E pre \in {<< >>, << SystemFor(client) >>} :
           /\ pre # << >> => to \notin {"anthropic", "gemini"}
           /\ body.messages = pre \o (IF client = to THEN history ELSE Sent(to, Mid(client, history)))
      /\ body.system \o SystemText(body.messages) = (IF client = to THEN System ELSE SystemOf(client))
      /\ params \cap Shared \subseteq body.params
  BY <1>1, RequestIs DEF Held
<1>3. history \in Seq(MessageSet)
  <2>1. FormsOf(client) \subseteq MessageSet
    BY FormsTyped DEF FormsOf
  <2> QED BY <2>1, SeqMonotonic DEF Held
<1>4. Mid(client, history) \in Seq(OpenAIForms)
  BY MidTyped DEF Held
<1>5. Sent(to, Mid(client, history)) \in Seq(MessageSet)
  BY <1>1, <1>4, SentTyped
<1> QED BY <1>1, <1>2, <1>3, <1>4, <1>5 DEF Going

LEMMA GoingAtoms ==
  ASSUME Held, Underway, upstream # Idle
  PROVE  Contents(upstream.body.messages) = Contents(Going)
<1>1. PICK pre \in {<< >>, << SystemFor(client) >>} : upstream.body.messages = pre \o Going
  BY GoingIs
<1>2. Going \in Seq(MessageSet) /\ pre \in Seq(MessageSet) /\ Contents(pre) = << >>
  <2>1. << SystemFor(client) >> \in Seq(MessageSet) /\ << >> \in Seq(MessageSet)
    BY SystemTyped
  <2> QED BY <2>1, GoingIs, SystemIs, ContentsEmpty
<1>3. Contents(pre \o Going) = Contents(pre) \o Contents(Going) /\ Contents(Going) \in Seq(Atom)
  BY <1>2, ContentsConcat, ContentsTyped
<1> QED BY <1>1, <1>2, <1>3, ConcatEmptySeq

LEMMA MessagesGoing ==
  ASSUME Held, Underway, upstream # Idle, NEW messages, messages = upstream.body.messages, NEW i \in DOMAIN messages
  PROVE  \/ messages[i] = SystemFor(client) /\ upstream.to \notin {"anthropic", "gemini"}
         \/ \E j \in 1 .. Len(Going) : messages[i] = Going[j]
<1>1. PICK pre \in {<< >>, << SystemFor(client) >>} :
        messages = pre \o Going /\ (pre # << >> => upstream.to \notin {"anthropic", "gemini"})
  BY GoingIs
<1>2. Going \in Seq(MessageSet) /\ pre \in Seq(MessageSet) /\ \A k \in 1 .. Len(pre) : pre[k] = SystemFor(client)
  <2>1. << SystemFor(client) >> \in Seq(MessageSet) /\ << >> \in Seq(MessageSet)
    BY SystemTyped
  <2>2. \A k \in 1 .. Len(<< SystemFor(client) >>) : << SystemFor(client) >>[k] = SystemFor(client)
    OBVIOUS
  <2>3. \A k \in 1 .. Len(<< >>) : << >>[k] = SystemFor(client)
    OBVIOUS
  <2> QED BY <2>1, <2>2, <2>3, GoingIs
<1>3. /\ messages \in Seq(MessageSet) /\ Len(messages) = Len(pre) + Len(Going) /\ Len(pre) \in Nat /\ Len(Going) \in Nat
      /\ \A k \in 1 .. Len(pre) + Len(Going) : messages[k] = IF k <= Len(pre) THEN pre[k] ELSE Going[k - Len(pre)]
  BY <1>1, <1>2, ConcatProperties, LenProperties
<1>4. i \in 1 .. Len(pre) + Len(Going)
  BY <1>3, LenProperties
<1>5. CASE i <= Len(pre)
  <2>1. i \in 1 .. Len(pre) /\ pre # << >>
    BY <1>3, <1>4, <1>5, EmptySeq
  <2> QED BY <1>1, <1>2, <1>3, <1>4, <1>5, <2>1
<1>6. CASE ~ (i <= Len(pre))
  <2>1. i - Len(pre) \in 1 .. Len(Going)
    BY <1>3, <1>4, <1>6
  <2> QED BY <1>3, <1>4, <1>6, <2>1
<1> QED BY <1>5, <1>6

(* Each of them is a message of the client, or OpenAI's form of one in the *)
(* provider's.                                                             *)
LEMMA GoingForms ==
  ASSUME Held, Underway, upstream # Idle, NEW j \in 1 .. Len(Going)
  PROVE  \/ client = upstream.to /\ Going[j] \in FormsOf(client)
         \/ client # upstream.to /\ \E m \in OpenAIForms : Going[j] = ForProvider(upstream.to, m)
<1>1. CASE client = upstream.to
  BY <1>1, ElementOfSeq DEF Going, Held
<1>2. CASE client # upstream.to
  <2>1. PICK s \in Seq(OpenAIForms) : s = Mid(client, history)
    BY GoingIs
  <2>2. Going = Sent(upstream.to, s) /\ Len(Going) = Len(s)
    BY <1>2, <2>1, SentTyped DEF Going, Underway
  <2>3. Going[j] = ForProvider(upstream.to, s[j]) /\ s[j] \in OpenAIForms
    BY <2>2, ElementOfSeq DEF Sent
  <2> QED BY <1>2, <2>3
<1> QED BY <1>1, <1>2

LEMMA SidesGoing ==
  ASSUME Held, Underway, upstream # Idle, NEW j \in 1 .. Len(Going), NEW a \in ToSet(Contents(<< Going[j] >>))
  PROVE  Going[j].role \in ClientSide <=> a[1] % 2 = 1
<1>1. CASE client = upstream.to /\ Going[j] \in FormsOf(client)
  BY <1>1, FormSides DEF Held
<1>2. CASE \E m \in OpenAIForms : Going[j] = ForProvider(upstream.to, m)
  <2>1. PICK m \in OpenAIForms : Going[j] = ForProvider(upstream.to, m)
    BY <1>2
  <2>2. Contents(<< Going[j] >>) = Contents(<< m >>) /\ (Going[j].role \in ClientSide <=> m.role \in ClientSide)
    BY <2>1, Forwarded DEF Underway
  <2>3. m \in FormsOf("openai") /\ "openai" \in Speakers
    BY DEF FormsOf, Speakers
  <2> QED BY <2>2, <2>3, FormSides
<1> QED BY <1>1, <1>2, GoingForms

LEMMA RequestHolds == ASSUME Held, Underway PROVE RequestArrives
<1> SUFFICES ASSUME upstream # Idle PROVE RequestArrives
  BY DEF RequestArrives
<1> DEFINE messages == upstream.body.messages
           lost == IF client = "anthropic" /\ upstream.to # "anthropic" THEN BesideResults ELSE {}
           held == Without(Contents(history), lost)
<1>1. Contents(messages) = Contents(Going)
  BY GoingAtoms
<1>2. SameAtoms(held, Contents(messages)) /\ held \in Seq(Atom)
  <2>1. history \in Seq(MessageSet) /\ Contents(history) \in Seq(Atom)
    BY GoingIs, ContentsTyped
  <2>2. CASE client = upstream.to
    <3>1. lost = {}
      BY <2>2
    <3>2. held = Contents(history)
      <4> HIDE DEF lost
      <4> QED BY <3>1, HeldIs DEF Held
    <3> HIDE DEF held
    <3> QED BY <1>1, <2>1, <2>2, <3>2, SameAtomsSelf DEF Going
  <2>3. CASE client # upstream.to
    <3>1. lost = LostFrom(client, history)
      BY <2>3 DEF LostFrom, BesideResults, BesideIn
    <3>2. held = Unreminded(Contents(history))
      <4> HIDE DEF lost
      <4> QED BY <3>1, HeldIs DEF Held
    <3>3. SameAtoms(Unreminded(Contents(history)), Contents(Mid(client, history)))
      BY MidAtoms DEF Held
    <3>4. Contents(Sent(upstream.to, Mid(client, history))) = Contents(Mid(client, history))
      BY GoingIs, SentAtoms DEF Underway
    <3> HIDE DEF held
    <3> QED BY <1>1, <2>1, <2>3, <3>2, <3>3, <3>4, UnremindedTyped DEF Going
  <2> QED BY <2>2, <2>3
<1>3. /\ ToSet(Contents(messages)) = ToSet(held) /\ Len(Contents(messages)) = Len(held)
      /\ \A i \in DOMAIN held : Contents(messages)[i][1] = held[i][1]
  <2> HIDE DEF held, messages
  <2>1. DOMAIN held = 1 .. Len(held)
    BY <1>2, LenProperties
  <2> QED BY <1>2, <2>1 DEF SameAtoms
<1>4. ASSUME NEW i \in DOMAIN messages, NEW a \in Atoms(<< messages[i] >>)
      PROVE  messages[i].role \in ClientSide <=> a[1] % 2 = 1
  <2>1. CASE messages[i] = SystemFor(client)
    <3>1. Contents(<< messages[i] >>) = << >>
      BY <2>1, SystemIs
    <3> QED BY <1>4, <3>1 DEF Atoms, ToSet
  <2>2. CASE \E j \in 1 .. Len(Going) : messages[i] = Going[j]
    BY <1>4, <2>2, SidesGoing DEF Atoms
  <2> QED BY <1>4, <2>1, <2>2, MessagesGoing
<1>5. ToSet(SystemIn(upstream.body)) \ {Dumped} = ToSet(System)
  <2>1. SystemIn(upstream.body) = System \/ SystemIn(upstream.body) = SystemOf(client)
    BY GoingIs DEF SystemIn
  <2>2. ToSet(SystemOf("openai")) \ {Dumped} = ToSet(System) /\ SystemOf("openai") = System
    BY SystemIs DEF SystemOf
  <2>3. ToSet(SystemOf(client)) \ {Dumped} = ToSet(System)
    BY SystemIs
  <2> QED BY <2>1, <2>2, <2>3
<1>6. params \cap {"temperature", "top_p", "max_tokens", "tools", "stream"} \subseteq upstream.body.params
  BY GoingIs DEF Shared
<1> HIDE DEF held, lost
<1> QED BY <1>3, <1>4, <1>5, <1>6 DEF RequestArrives, held, lost, Without

-----------------------------------------------------------------------------
(* What goes upstream is well formed.                                      *)

LEMMA WellFormedForm ==
  ASSUME NEW c \in Speakers, NEW m \in FormsOf(c)
  PROVE  /\ m.role \in RolesOf[c] /\ m.content # << >>
         /\ Has(m, "call") => m.role \in {"assistant", "model"}
         /\ Has(m, "result") => m.role = (IF "tool" \in RolesOf[c] THEN "tool" ELSE "user")
<1>1. CASE c = "openai"
  <2>1. m \in OpenAIForms /\ "openai" \in Protocols
    BY <1>1 DEF FormsOf, Protocols
  <2>2. ForProvider("openai", m) = m
    BY DEF ForProvider
  <2> QED BY <1>1, <2>1, <2>2, Forwarded
<1>2. CASE c # "openai"
  <2>1. m.role \in {"user", RoleOf(c)} /\ m.role \in RolesOf[c]
    <3>1. PICK x, role : role \in {"user", RoleOf(c)} /\ m = Message(role, x)
      BY <1>2 DEF Speakers, FormsOf, AnthropicForms, GeminiForms, RoleOf
    <3>2. m.role = role
      BY <3>1, RoleAndContent
    <3> QED BY <1>2, <3>1, <3>2 DEF Speakers, RolesOf, RoleOf
  <2>2. RoleOf(c) \in {"assistant", "model"} /\ "tool" \notin RolesOf[c]
    BY <1>2 DEF Speakers, RolesOf, RoleOf
  <2>3. ASSUME NEW n, m.content \in Asks(n)
        PROVE  m.content # << >> /\ ~ Has(m, "call") /\ ~ Has(m, "result")
    BY <2>3, AskParts DEF Has
  <2>4. ASSUME NEW n, m.content \in Replies(n) PROVE m.content # << >> /\ ~ Has(m, "result")
    BY <2>4, ReplyParts DEF Has
  <2>5. ASSUME NEW n \in Odd, NEW x, ResultsOnly(m, n, x) PROVE m.content # << >> /\ ~ Has(m, "call")
    <3>1. x # << >> /\ Only(<< >>, {"result"}) = << >>
      BY <2>5, ResultParts, OnlyEmpty DEF ResultsOnly
    <3> QED BY <2>5, <3>1 DEF ResultsOnly, Has
  <2> QED BY <2>1, <2>2, <2>3, <2>4, <2>5, InwardCases DEF ResultsOnly, RoleOf
<1> QED BY <1>1, <1>2

LEMMA RequestWellFormed ==
  ASSUME Held, Underway, upstream # Idle
  PROVE  upstream.to \in DOMAIN RolesOf /\ WellFormed(upstream.to, upstream.body)
<1> DEFINE messages == upstream.body.messages
           Good(m) == /\ m.role \in RolesOf[upstream.to] /\ m.content # << >>
                      /\ Has(m, "call") => m.role \in {"assistant", "model"}
                      /\ Has(m, "result") => m.role = (IF "tool" \in RolesOf[upstream.to] THEN "tool" ELSE "user")
<1>1. upstream.to \in DOMAIN RolesOf
  BY DEF Underway, Protocols, RolesOf
<1>2. ASSUME NEW j \in 1 .. Len(Going) PROVE Good(Going[j])
  <2>1. CASE client = upstream.to /\ Going[j] \in FormsOf(client)
    BY <2>1, WellFormedForm DEF Held
  <2>2. CASE \E m \in OpenAIForms : Going[j] = ForProvider(upstream.to, m)
    BY <2>2, Forwarded DEF Underway
  <2> QED BY <2>1, <2>2, GoingForms
<1>3. upstream.to \notin {"anthropic", "gemini"} => Good(SystemFor(client))
  <2>1. /\ SystemFor(client).role = "system" /\ SystemFor(client).content # << >>
        /\ ~ Has(SystemFor(client), "call") /\ ~ Has(SystemFor(client), "result")
    BY SystemIs
  <2>2. upstream.to \in {"openai", "cohere", "ollama"} => "system" \in RolesOf[upstream.to]
    BY DEF RolesOf
  <2> QED BY <2>1, <2>2 DEF Underway, Protocols
<1>4. \A i \in DOMAIN messages : Good(messages[i])
  BY <1>2, <1>3, MessagesGoing
<1> QED BY <1>1, <1>4 DEF WellFormed

-----------------------------------------------------------------------------
(* The ids of calls and results, message by message.                       *)

LEMMA AppendIs ==
  ASSUME NEW S, NEW g \in Seq(S), NEW m \in S
  PROVE  /\ << m >> \in Seq(S) /\ Append(g, m) = g \o << m >> /\ Append(g, m) \in Seq(S)
         /\ Len(g) \in Nat /\ Len(Append(g, m)) = Len(g) + 1 /\ Append(g, m)[Len(g) + 1] = m
         /\ \A i \in 1 .. Len(g) : Append(g, m)[i] = g[i]
BY Single, AppendIsConcat, AppendProperties, LenProperties

LEMMA IdsElement ==
  ASSUME NEW kind, NEW s \in Seq(MessageSet), NEW id
  PROVE  id \in IdsIn(s, kind) <=> \E i \in 1 .. Len(s) : id \in IdsIn(<< s[i] >>, kind)
<1> DEFINE P(g) == id \in IdsIn(g, kind) <=> \E i \in 1 .. Len(g) : id \in IdsIn(<< g[i] >>, kind)
           T == {g \in Seq(MessageSet) : P(g)}
<1>1. P(<< >>)
  BY IdsEmpty
<1>2. ASSUME NEW g \in Seq(MessageSet), NEW m \in MessageSet, P(g) PROVE P(Append(g, m))
  <2>1. PICK w : w = Append(g, m)
    OBVIOUS
  <2>2. PICK v \in Seq(MessageSet) : v = << m >>
    BY Single
  <2>3. /\ w = g \o v /\ Len(g) \in Nat /\ Len(w) = Len(g) + 1 /\ w[Len(g) + 1] = m
        /\ \A i \in 1 .. Len(g) : w[i] = g[i]
    BY <2>1, <2>2, AppendIs
  <2>4. IdsIn(g \o v, kind) = IdsIn(g, kind) \cup IdsIn(v, kind)
    BY IdsConcat
  <2>5. PICK n \in Nat : n = Len(g)
    BY <2>3
  <2>6. id \in IdsIn(w, kind) <=> (\E i \in 1 .. n : id \in IdsIn(<< g[i] >>, kind)) \/ id \in IdsIn(<< m >>, kind)
    BY <1>2, <2>2, <2>3, <2>4, <2>5
  <2>7. (\E i \in 1 .. n + 1 : id \in IdsIn(<< w[i] >>, kind)) <=>
          (\E i \in 1 .. n : id \in IdsIn(<< g[i] >>, kind)) \/ id \in IdsIn(<< m >>, kind)
    <3>1. \A i \in 1 .. n + 1 : i \in 1 .. n \/ i = n + 1
      OBVIOUS
    <3>2. \A i \in 1 .. n : i \in 1 .. n + 1 /\ w[i] = g[i]
      BY <2>3, <2>5
    <3>3. n + 1 \in 1 .. n + 1 /\ w[n + 1] = m
      BY <2>3, <2>5
    <3> QED BY <3>1, <3>2, <3>3, Zenon
  <2>8. P(w)
    BY <2>3, <2>5, <2>6, <2>7
  <2> QED BY <2>1, <2>8
<1> HIDE DEF P
<1>3. << >> \in T /\ \A g \in Seq(MessageSet) : \A m \in MessageSet : g \in T => Append(g, m) \in T
  BY <1>1, <1>2, AppendProperties
<1>4. Seq(MessageSet) \subseteq T
  <2> HIDE DEF T
  <2> QED BY <1>3, SeqInduction
<1>5. P(s)
  BY <1>4
<1> QED BY <1>5 DEF P

(* Every result names a call before it.                                    *)
Names(s) ==
  \A i \in 1 .. Len(s) : \A id \in IdsIn(<< s[i] >>, "result") : \E j \in 1 .. i - 1 : id \in IdsIn(<< s[j] >>, "call")

LEMMA NamesIs ==
  ASSUME NEW s \in Seq(MessageSet), NEW i \in 1 .. Len(s), NEW id
  PROVE  id \in IdsIn(SubSeq(s, 1, i - 1), "call") <=> \E j \in 1 .. i - 1 : id \in IdsIn(<< s[j] >>, "call")
<1>1. /\ SubSeq(s, 1, i - 1) \in Seq(MessageSet) /\ Len(SubSeq(s, 1, i - 1)) = i - 1
      /\ \A j \in 1 .. i - 1 : SubSeq(s, 1, i - 1)[j] = s[j]
  <2>1. i - 1 \in Nat /\ i - 1 <= Len(s) /\ Len(s) \in Nat
    BY LenProperties
  <2> QED BY <2>1, SubSeqProperties
<1>2. PICK t \in Seq(MessageSet) : t = SubSeq(s, 1, i - 1)
  BY <1>1
<1>3. Len(t) = i - 1 /\ \A j \in 1 .. i - 1 : t[j] = s[j]
  BY <1>1, <1>2
<1>4. id \in IdsIn(t, "call") <=> \E j \in 1 .. Len(t) : id \in IdsIn(<< t[j] >>, "call")
  BY IdsElement
<1> QED BY <1>2, <1>3, <1>4

LEMMA NamesExtend ==
  ASSUME NEW s \in Seq(MessageSet), NEW t \in Seq(MessageSet), Names(s),
         \A i \in 1 .. Len(t) : IdsIn(<< t[i] >>, "result") \subseteq IdsIn(s, "call")
  PROVE  Names(s \o t)
<1>1. /\ Len(s \o t) = Len(s) + Len(t) /\ Len(s) \in Nat /\ Len(t) \in Nat
      /\ \A i \in 1 .. Len(s) + Len(t) : (s \o t)[i] = IF i <= Len(s) THEN s[i] ELSE t[i - Len(s)]
  BY ConcatProperties, LenProperties
<1>2. PICK n \in Nat : n = Len(s) /\ \A i \in 1 .. n : (s \o t)[i] = s[i]
  BY <1>1
<1> DEFINE w == s \o t
<1>0. w = s \o t
  OBVIOUS
<1> HIDE DEF w
<1>3. ASSUME NEW i \in 1 .. Len(w), NEW id \in IdsIn(<< w[i] >>, "result")
      PROVE  \E j \in 1 .. i - 1 : id \in IdsIn(<< w[j] >>, "call")
  <2>1. CASE i <= n
    <3>1. i \in 1 .. n /\ w[i] = s[i]
      BY <1>0, <1>1, <1>2, <2>1
    <3>2. PICK j \in 1 .. i - 1 : id \in IdsIn(<< s[j] >>, "call")
      BY <1>0, <1>2, <1>3, <3>1 DEF Names
    <3>3. j \in 1 .. n
      BY <3>1
    <3> QED BY <1>0, <1>2, <3>2, <3>3
  <2>2. CASE ~ (i <= n)
    <3>1. i - n \in 1 .. Len(t) /\ w[i] = t[i - n]
      BY <1>0, <1>1, <1>2, <2>2
    <3>2. id \in IdsIn(s, "call")
      BY <1>3, <3>1
    <3>3. PICK j \in 1 .. n : id \in IdsIn(<< s[j] >>, "call")
      BY <1>0, <1>2, <3>2, IdsElement
    <3>4. j \in 1 .. i - 1
      BY <1>0, <1>1, <1>2, <2>2
    <3> QED BY <1>0, <1>2, <3>3, <3>4
  <2> QED BY <2>1, <2>2
<1> QED BY <1>0, <1>2, <1>3 DEF Names

LEMMA NamesFront ==
  ASSUME NEW g \in Seq(MessageSet), NEW m \in MessageSet, Names(Append(g, m))
  PROVE  Names(g) /\ IdsIn(<< m >>, "result") \subseteq IdsIn(g, "call")
<1>0. PICK n \in Nat : n = Len(g)
  BY AppendIs
<1>a. PICK w : w = Append(g, m)
  OBVIOUS
<1>1. n = Len(g) /\ w = Append(g, m) /\ Len(w) = n + 1 /\ w[n + 1] = m /\ \A i \in 1 .. n : w[i] = g[i]
  BY <1>0, <1>a, AppendIs
<1>2. \A i \in 1 .. n + 1 : \A id \in IdsIn(<< w[i] >>, "result") : \E j \in 1 .. i - 1 : id \in IdsIn(<< w[j] >>, "call")
  BY <1>1 DEF Names
<1>3. Names(g)
  <2> SUFFICES ASSUME NEW i \in 1 .. n, NEW id \in IdsIn(<< g[i] >>, "result")
               PROVE  \E j \in 1 .. i - 1 : id \in IdsIn(<< g[j] >>, "call")
    BY <1>1 DEF Names
  <2>1. i \in 1 .. n + 1 /\ w[i] = g[i] /\ \A j \in 1 .. i - 1 : j \in 1 .. n
    BY <1>1
  <2>2. PICK j \in 1 .. i - 1 : id \in IdsIn(<< w[j] >>, "call")
    BY <1>2, <2>1
  <2> QED BY <1>1, <2>1, <2>2
<1>4. ASSUME NEW id \in IdsIn(<< m >>, "result") PROVE id \in IdsIn(g, "call")
  <2>1. n + 1 \in 1 .. n + 1 /\ (n + 1) - 1 = n
    BY <1>1
  <2>2. PICK j \in 1 .. n : id \in IdsIn(<< w[j] >>, "call")
    BY <1>1, <1>2, <1>4, <2>1
  <2> QED BY <1>1, <2>2, IdsElement
<1> QED BY <1>3, <1>4

(* What becomes of the calls and results of one message.                   *)
LEMMA InwardIds ==
  ASSUME NEW c \in Speakers, NEW m \in FormsOf(c), NEW s, s = Inward(c, m)
  PROVE  /\ \A j \in 1 .. Len(s) : IdsIn(<< s[j] >>, "result") \subseteq IdsIn(<< m >>, "result")
         /\ c # "gemini" \/ CallsNamed(m.content) => IdsIn(<< m >>, "call") \subseteq IdsIn(s, "call")
         /\ c # "gemini" => IdsIn(s, "call") \subseteq IdsIn(<< m >>, "call")
<1>0. m \in MessageSet
  BY FormsTyped DEF FormsOf
<1>1. CASE s = << m >>
  BY <1>1
<1>2. ASSUME NEW n \in Even, c = "gemini", m.content \in Replies(n), PartsFor(n, m.content, s)
      PROVE  /\ \A j \in 1 .. Len(s) : IdsIn(<< s[j] >>, "result") = {}
             /\ CallsNamed(m.content) => IdsIn(<< m >>, "call") \subseteq IdsIn(s, "call")
  <2>1. IdsIn(<< m >>, "call") = {b.id : b \in ToSet(Only(m.content, {"call"}))}
    BY <1>0, IdsOne, Zenon
  <2>2. CallsNamed(m.content) => IdsIn(<< m >>, "call") \subseteq {FName}
    BY <2>1 DEF CallsNamed
  <2>3. ASSUME NEW t \in Texts(n), m.content = << t >>, s = << Message("assistant", << t >>) >>
        PROVE  /\ \A j \in 1 .. Len(s) : IdsIn(<< s[j] >>, "result") = {}
               /\ IdsIn(<< m >>, "call") = {}
    <3>1. IdsIn(<< Message("assistant", << t >>) >>, "result") = {}
      BY SaidIds
    <3>2. Only(m.content, {"call"}) = << >>
      BY <2>3, PartsOfText
    <3>3. \A j \in 1 .. Len(s) : s[j] = Message("assistant", << t >>)
      BY <2>3
    <3> QED BY <2>1, <3>1, <3>2, <3>3 DEF ToSet
  <2>4. ASSUME NEW d \in Calls(n), s = << Asked(d) >>
        PROVE  /\ \A j \in 1 .. Len(s) : IdsIn(<< s[j] >>, "result") = {}
               /\ FName \in IdsIn(s, "call")
    <3>1. \A j \in 1 .. Len(s) : s[j] = Asked(d)
      BY <2>4
    <3> QED BY <2>4, <3>1, AskedIds
  <2>5. ASSUME NEW d \in Calls(n), NEW e \in Calls(n), s = << Asked(d), Asked(e) >>
        PROVE  /\ \A j \in 1 .. Len(s) : IdsIn(<< s[j] >>, "result") = {}
               /\ FName \in IdsIn(s, "call")
    <3>1. \A j \in 1 .. Len(s) : s[j] = Asked(d) \/ s[j] = Asked(e)
      BY <2>5
    <3>2. IdsIn(s, "call") = IdsIn(<< Asked(d) >>, "call") \cup IdsIn(<< Asked(e) >>, "call")
      BY <2>5, AskedIds, IdsTwo
    <3> QED BY <3>1, <3>2, AskedIds
  <2>6. ASSUME NEW t \in Texts(n), NEW d \in Calls(n), s = << Asked(d), Message("assistant", << t >>) >>
        PROVE  /\ \A j \in 1 .. Len(s) : IdsIn(<< s[j] >>, "result") = {}
               /\ FName \in IdsIn(s, "call")
    <3>1. \A j \in 1 .. Len(s) : s[j] = Asked(d) \/ s[j] = Message("assistant", << t >>)
      BY <2>6
    <3>2. IdsIn(s, "call") = IdsIn(<< Asked(d) >>, "call") \cup IdsIn(<< Message("assistant", << t >>) >>, "call")
      <4>1. PICK f \in MessageSet, g \in MessageSet : f = Asked(d) /\ g = Message("assistant", << t >>)
        BY AskedIds, SaidIds
      <4>2. IdsIn(<< f, g >>, "call") = IdsIn(<< f >>, "call") \cup IdsIn(<< g >>, "call")
        BY IdsTwo
      <4> QED BY <2>6, <4>1, <4>2
    <3> QED BY <3>1, <3>2, AskedIds, SaidIds
  <2> QED BY <1>2, <2>2, <2>3, <2>4, <2>5, <2>6 DEF PartsFor
<1>3. ASSUME NEW n \in Odd, NEW x, ResultsOnly(m, n, x), ToolsFor(n, x, s)
      PROVE  /\ \A j \in 1 .. Len(s) : IdsIn(<< s[j] >>, "result") \subseteq IdsIn(<< m >>, "result")
             /\ IdsIn(<< m >>, "call") = {} /\ IdsIn(s, "call") = {}
  <2>1. IdsIn(<< m >>, "call") = {b.id : b \in ToSet(Only(m.content, {"call"}))}
    BY <1>0, IdsOne, Zenon
  <2>2. IdsIn(<< m >>, "result") = {b.id : b \in ToSet(x)}
    <3>1. IdsIn(<< m >>, "result") = {b.id : b \in ToSet(Only(m.content, {"result"}))}
      BY <1>0, IdsOne, Zenon
    <3> QED BY <1>3, <3>1 DEF ResultsOnly
  <2>3. IdsIn(<< m >>, "call") = {}
    BY <1>3, <2>1 DEF ResultsOnly, ToSet
  <2>4. ASSUME NEW r \in Results(n), NEW q \in Results(n), Repeats(n, r, q), r \in ToSet(x)
        PROVE  IdsIn(<< Tool(q) >>, "result") \subseteq IdsIn(<< m >>, "result")
    BY <2>2, <2>4, ToolIds DEF Repeats
  <2>5. ASSUME NEW r \in Results(n), NEW q \in Results(n), Repeats(n, r, q), x = << r >>, s = << Tool(q) >>
        PROVE  /\ \A j \in 1 .. Len(s) : IdsIn(<< s[j] >>, "result") \subseteq IdsIn(<< m >>, "result")
               /\ IdsIn(s, "call") = {}
    <3>1. \A j \in 1 .. Len(s) : s[j] = Tool(q)
      BY <2>5
    <3>2. r \in ToSet(x)
      BY <2>5, SetOfOne
    <3> QED BY <2>4, <2>5, <3>1, <3>2, ToolIds
  <2>6. ASSUME NEW r \in Results(n), NEW q \in Results(n), NEW u \in Results(n), NEW v \in Results(n),
               Repeats(n, r, q), Repeats(n, u, v), x = << r, u >>, s = << Tool(q), Tool(v) >>
        PROVE  /\ \A j \in 1 .. Len(s) : IdsIn(<< s[j] >>, "result") \subseteq IdsIn(<< m >>, "result")
               /\ IdsIn(s, "call") = {}
    <3>1. \A j \in 1 .. Len(s) : s[j] = Tool(q) \/ s[j] = Tool(v)
      BY <2>6
    <3>2. r \in ToSet(x) /\ u \in ToSet(x)
      BY <2>6, SetOfTwo
    <3>3. IdsIn(<< Tool(q) >>, "result") \subseteq IdsIn(<< m >>, "result")
      BY <2>4, <2>6, <3>2
    <3>4. IdsIn(<< Tool(v) >>, "result") \subseteq IdsIn(<< m >>, "result")
      BY <2>4, <2>6, <3>2
    <3>5. IdsIn(s, "call") = {}
      <4>1. PICK f \in MessageSet, g \in MessageSet : f = Tool(q) /\ g = Tool(v)
        BY ToolIds
      <4>2. IdsIn(<< f, g >>, "call") = IdsIn(<< f >>, "call") \cup IdsIn(<< g >>, "call")
        BY IdsTwo
      <4> QED BY <2>6, <4>1, <4>2, ToolIds
    <3> QED BY <3>1, <3>3, <3>4, <3>5
  <2> QED BY <1>3, <2>3, <2>5, <2>6 DEF ToolsFor
<1> QED BY <1>1, <1>2, <1>3, InwardCases

NamedCalls(c, h) == c # "gemini" \/ \A i \in 1 .. Len(h) : CallsNamed(h[i].content)

(* In OpenAI's form the results still name calls before them.              *)
LEMMA MidNames ==
  ASSUME NEW c \in Speakers, NEW h \in Seq(FormsOf(c)), Names(h), NamedCalls(c, h)
  PROVE  /\ Names(Mid(c, h)) /\ IdsIn(h, "call") \subseteq IdsIn(Mid(c, h), "call")
         /\ c # "gemini" => IdsIn(Mid(c, h), "call") \subseteq IdsIn(h, "call")
<1> DEFINE P(g) == Names(g) /\ NamedCalls(c, g) =>
                     /\ Names(Mid(c, g)) /\ IdsIn(g, "call") \subseteq IdsIn(Mid(c, g), "call")
                     /\ c # "gemini" => IdsIn(Mid(c, g), "call") \subseteq IdsIn(g, "call")
           T == {g \in Seq(FormsOf(c)) : P(g)}
<1>0. FormsOf(c) \subseteq MessageSet /\ OpenAIForms \subseteq MessageSet
  BY FormsTyped DEF FormsOf
<1>1. P(<< >>)
  BY MidEmpty, IdsEmpty
<1>2. ASSUME NEW g \in Seq(FormsOf(c)), NEW m \in FormsOf(c), P(g), Names(Append(g, m)), NamedCalls(c, Append(g, m))
      PROVE  /\ Names(Mid(c, Append(g, m)))
             /\ IdsIn(Append(g, m), "call") \subseteq IdsIn(Mid(c, Append(g, m)), "call")
             /\ c # "gemini" => IdsIn(Mid(c, Append(g, m)), "call") \subseteq IdsIn(Append(g, m), "call")
  <2>1. PICK v \in Seq(FormsOf(c)) : v = << m >>
    BY Single
  <2>2. Append(g, m) = g \o v
    BY <2>1, AppendIsConcat
  <2>3. PICK s \in Seq(MessageSet), t \in Seq(MessageSet) : s = Mid(c, g) /\ t = Mid(c, v)
    <3>1. Mid(c, g) \in Seq(OpenAIForms) /\ Mid(c, v) \in Seq(OpenAIForms)
      BY MidTyped
    <3> QED BY <1>0, <3>1, SeqMonotonic
  <2>4. Mid(c, g \o v) = s \o t /\ t = Inward(c, m)
    BY <2>1, <2>3, MidConcat, MidOne
  <2>5. g \in Seq(MessageSet) /\ v \in Seq(MessageSet) /\ m \in MessageSet
    BY <1>0, SeqMonotonic
  <2>6. Names(g) /\ IdsIn(<< m >>, "result") \subseteq IdsIn(g, "call")
    BY <1>2, <2>5, NamesFront
  <2>7. NamedCalls(c, g) /\ (c # "gemini" \/ CallsNamed(m.content))
    <3>1. /\ Len(g) \in Nat /\ Len(Append(g, m)) = Len(g) + 1 /\ Append(g, m)[Len(g) + 1] = m
          /\ \A i \in 1 .. Len(g) : Append(g, m)[i] = g[i]
      BY AppendIs
    <3>2. Len(g) + 1 \in 1 .. Len(Append(g, m)) /\ \A i \in 1 .. Len(g) : i \in 1 .. Len(Append(g, m))
      BY <3>1
    <3> QED BY <1>2, <3>1, <3>2 DEF NamedCalls
  <2>8. /\ Names(s) /\ IdsIn(g, "call") \subseteq IdsIn(s, "call")
        /\ c # "gemini" => IdsIn(s, "call") \subseteq IdsIn(g, "call")
    BY <1>2, <2>3, <2>6, <2>7
  <2>9. /\ \A j \in 1 .. Len(t) : IdsIn(<< t[j] >>, "result") \subseteq IdsIn(<< m >>, "result")
        /\ IdsIn(<< m >>, "call") \subseteq IdsIn(t, "call")
        /\ c # "gemini" => IdsIn(t, "call") \subseteq IdsIn(<< m >>, "call")
    BY <2>4, <2>7, InwardIds
  <2>10. Names(s \o t)
    <3>1. \A j \in 1 .. Len(t) : IdsIn(<< t[j] >>, "result") \subseteq IdsIn(s, "call")
      BY <2>6, <2>8, <2>9
    <3> QED BY <2>8, <3>1, NamesExtend
  <2>11. IdsIn(g \o v, "call") = IdsIn(g, "call") \cup IdsIn(v, "call")
    BY <2>5, IdsConcat
  <2>12. IdsIn(s \o t, "call") = IdsIn(s, "call") \cup IdsIn(t, "call")
    BY IdsConcat
  <2> QED BY <2>1, <2>2, <2>4, <2>8, <2>9, <2>10, <2>11, <2>12
<1>3. \A g \in Seq(FormsOf(c)) : \A m \in FormsOf(c) : P(g) => P(Append(g, m))
  BY <1>2, Zenon
<1> HIDE DEF P
<1>4. << >> \in T /\ \A g \in Seq(FormsOf(c)) : \A m \in FormsOf(c) : g \in T => Append(g, m) \in T
  BY <1>1, <1>3, AppendProperties
<1>5. Seq(FormsOf(c)) \subseteq T
  <2> HIDE DEF T
  <2> QED BY <1>4, SeqInduction
<1>6. P(h)
  BY <1>5
<1> QED BY <1>6 DEF P

(* Calls and results of two conversations, place by place.                 *)
SameIds(s, t) ==
  /\ Len(s) = Len(t)
  /\ \A i \in 1 .. Len(s) : /\ IdsIn(<< s[i] >>, "call") = IdsIn(<< t[i] >>, "call")
                            /\ IdsIn(<< s[i] >>, "result") = IdsIn(<< t[i] >>, "result")

LEMMA SameNames ==
  ASSUME NEW s \in Seq(MessageSet), NEW t, SameIds(s, t), Names(s) PROVE Names(t)
<1> SUFFICES ASSUME NEW i \in 1 .. Len(s), NEW id \in IdsIn(<< t[i] >>, "result")
             PROVE  \E j \in 1 .. i - 1 : id \in IdsIn(<< t[j] >>, "call")
  BY DEF Names, SameIds
<1>1. id \in IdsIn(<< s[i] >>, "result")
  BY DEF SameIds
<1>2. PICK j \in 1 .. i - 1 : id \in IdsIn(<< s[j] >>, "call")
  BY <1>1 DEF Names
<1>3. j \in 1 .. Len(s)
  BY LenProperties
<1> QED BY <1>2, <1>3 DEF SameIds

LEMMA NamesBehind ==
  ASSUME NEW s \in Seq(MessageSet), Names(s), NEW m \in MessageSet, IdsIn(<< m >>, "result") = {}
  PROVE  Names(<< m >> \o s)
<1>0. PICK u \in Seq(MessageSet) : u = << m >> /\ Len(u) = 1 /\ u[1] = m
  <2>1. Len(<< m >>) = 1 /\ << m >>[1] = m
    OBVIOUS
  <2> QED BY <2>1, Single
<1>1. /\ Len(u \o s) = Len(u) + Len(s) /\ Len(s) \in Nat
      /\ \A i \in 1 .. Len(u) + Len(s) : (u \o s)[i] = IF i <= Len(u) THEN u[i] ELSE s[i - Len(u)]
  BY ConcatProperties, LenProperties
<1>2. PICK w : w = u \o s
  OBVIOUS
<1>3. Len(w) = 1 + Len(s) /\ w[1] = m /\ \A i \in 1 .. Len(s) : w[i + 1] = s[i]
  <2>1. \A i \in 1 .. Len(s) : i + 1 \in 1 .. 1 + Len(s) /\ ~ (i + 1 <= 1) /\ (i + 1) - 1 = i
    BY <1>1
  <2> QED BY <1>0, <1>1, <1>2, <2>1
<1>4. ASSUME NEW i \in 1 .. Len(w), NEW id \in IdsIn(<< w[i] >>, "result")
      PROVE  \E j \in 1 .. i - 1 : id \in IdsIn(<< w[j] >>, "call")
  <2>1. i # 1
    BY <1>3, <1>4
  <2>2. PICK k \in 1 .. Len(s) : i = k + 1
    BY <1>1, <1>3, <2>1
  <2>3. PICK j \in 1 .. k - 1 : id \in IdsIn(<< s[j] >>, "call")
    BY <1>3, <1>4, <2>2 DEF Names
  <2>4. j + 1 \in 1 .. i - 1 /\ w[j + 1] = s[j]
    BY <1>3, <2>2
  <2> QED BY <2>3, <2>4
<1> QED BY <1>0, <1>2, <1>4 DEF Names

(* The calls of the conversation are named, so Gemini changes no id.       *)
TakenOver == upstream.to = "gemini" /\ \E id \in CallIds(history) : id # FName

LEMMA SentSameIds ==
  ASSUME Held, Underway, upstream # Idle, client # upstream.to, Names(history), NamedCalls(client, history), ~ TakenOver,
         NEW s \in Seq(OpenAIForms), s = Mid(client, history)
  PROVE  s \in Seq(MessageSet) /\ SameIds(s, Sent(upstream.to, s))
<1>1. s \in Seq(MessageSet)
  <2>1. OpenAIForms \subseteq MessageSet
    BY FormsTyped
  <2> QED BY <2>1, SeqMonotonic
<1>2. Len(Sent(upstream.to, s)) = Len(s)
  BY SentTyped DEF Underway
<1>3. ASSUME NEW i \in 1 .. Len(s)
      PROVE  /\ IdsIn(<< s[i] >>, "call") = IdsIn(<< Sent(upstream.to, s)[i] >>, "call")
             /\ IdsIn(<< s[i] >>, "result") = IdsIn(<< Sent(upstream.to, s)[i] >>, "result")
  <2>1. s[i] \in OpenAIForms /\ s[i] \in MessageSet /\ Sent(upstream.to, s)[i] = ForProvider(upstream.to, s[i])
    BY <1>1, ElementOfSeq DEF Sent
  <2>2. upstream.to # "gemini" \/ CallsNamed(s[i].content)
    <3>1. SUFFICES ASSUME upstream.to = "gemini" PROVE CallsNamed(s[i].content)
      OBVIOUS
    <3>2. \A id \in IdsIn(history, "call") : id = FName
      BY <3>1, IdsIs DEF TakenOver
    <3>3. IdsIn(s, "call") \subseteq IdsIn(history, "call")
      BY <3>1, MidNames DEF Held
    <3>4. IdsIn(<< s[i] >>, "call") \subseteq IdsIn(s, "call")
      BY <1>1, IdsElement
    <3>5. IdsIn(<< s[i] >>, "call") = {b.id : b \in ToSet(Only(s[i].content, {"call"}))}
      BY <2>1, IdsOne, Zenon
    <3> QED BY <3>2, <3>3, <3>4, <3>5 DEF CallsNamed
  <2>3. PICK m, f : m \in OpenAIForms /\ m = s[i] /\ f = ForProvider(upstream.to, m)
    BY <2>1
  <2>4. /\ IdsIn(<< f >>, "result") = IdsIn(<< m >>, "result")
        /\ upstream.to # "gemini" \/ CallsNamed(m.content) => IdsIn(<< f >>, "call") = IdsIn(<< m >>, "call")
    BY <2>3, Forwarded DEF Underway
  <2> QED BY <2>1, <2>2, <2>3, <2>4
<1> QED BY <1>1, <1>2, <1>3 DEF SameIds

LEMMA NamesHold ==
  ASSUME Held, Underway, Names(history), NamedCalls(client, history) PROVE ResultsNameCalls
<1> SUFFICES ASSUME upstream # Idle, ~ TakenOver PROVE ResultsNameCalls
  BY DEF ResultsNameCalls, TakenOver, FName
<1>1. Names(Going) /\ Going \in Seq(MessageSet)
  <2>1. CASE client = upstream.to
    BY <2>1, GoingIs DEF Going
  <2>2. CASE client # upstream.to
    <3>1. PICK s \in Seq(OpenAIForms) : s = Mid(client, history)
      BY GoingIs
    <3>2. Names(s)
      BY <3>1, MidNames DEF Held
    <3>3. s \in Seq(MessageSet) /\ SameIds(s, Sent(upstream.to, s))
      BY <2>2, <3>1, SentSameIds
    <3>4. Names(Sent(upstream.to, s))
      BY <3>2, <3>3, SameNames
    <3> QED BY <2>2, <3>1, <3>4, GoingIs DEF Going
  <2> QED BY <2>1, <2>2
<1>2. PICK messages : messages = upstream.body.messages
  OBVIOUS
<1>3. Names(messages) /\ messages \in Seq(MessageSet)
  <2>1. PICK pre \in {<< >>, << SystemFor(client) >>} : messages = pre \o Going
    BY <1>2, GoingIs
  <2>2. CASE pre = << >>
    <3>1. << >> \o Going = Going
      BY <1>1, ConcatEmptySeq
    <3> QED BY <1>1, <2>1, <2>2, <3>1
  <2>3. CASE pre = << SystemFor(client) >>
    <3>1. PICK m \in MessageSet : m = SystemFor(client) /\ ~ Has(m, "result")
      BY SystemIs
    <3>2. IdsIn(<< m >>, "result") = {b.id : b \in ToSet(Only(m.content, {"result"}))}
      BY IdsOne, Zenon
    <3>3. IdsIn(<< m >>, "result") = {}
      BY <3>1, <3>2 DEF Has, ToSet
    <3>4. Names(<< m >> \o Going) /\ << m >> \o Going \in Seq(MessageSet)
      BY <1>1, <3>3, NamesBehind, Single, ConcatProperties
    <3> QED BY <2>1, <2>3, <3>1, <3>4
  <2> QED BY <2>1, <2>2, <2>3
<1>4. ASSUME NEW i \in DOMAIN messages, NEW id \in ResultIds(<< messages[i] >>)
      PROVE  id \in CallIds(SubSeq(messages, 1, i - 1))
  <2>1. i \in 1 .. Len(messages)
    BY <1>3, LenProperties
  <2>2. id \in IdsIn(<< messages[i] >>, "result")
    BY <1>4, IdsIs
  <2>3. \E j \in 1 .. i - 1 : id \in IdsIn(<< messages[j] >>, "call")
    BY <1>3, <2>1, <2>2 DEF Names
  <2>4. id \in IdsIn(SubSeq(messages, 1, i - 1), "call")
    BY <1>3, <2>1, <2>3, NamesIs
  <2> QED BY <2>4, IdsIs
<1> QED BY <1>2, <1>4 DEF ResultsNameCalls

-----------------------------------------------------------------------------
(* Calls that are answered directly behind their message.                  *)

(* All calls of message i are answered by the messages i + 1 .. k, which   *)
(* are results. A loose answer need not name the call.                     *)
AnsweredAt(s, i, k, loose) ==
  /\ \A j \in i + 1 .. k : Has(s[j], "result")
  /\ loose \/ \A id \in IdsIn(<< s[i] >>, "call") : \E j \in i + 1 .. k : id \in IdsIn(<< s[j] >>, "result")
Answered(s, loose) ==
  \A i \in 1 .. Len(s) : Has(s[i], "call") => \E k \in i + 1 .. Len(s) : AnsweredAt(s, i, k, loose)

LEMMA AnsweredConcat ==
  ASSUME NEW loose, NEW s \in Seq(MessageSet), NEW t \in Seq(MessageSet), Answered(s, loose), Answered(t, loose)
  PROVE  Answered(s \o t, loose)
<1>1. /\ Len(s \o t) = Len(s) + Len(t) /\ Len(s) \in Nat /\ Len(t) \in Nat
      /\ \A i \in 1 .. Len(s) + Len(t) : (s \o t)[i] = IF i <= Len(s) THEN s[i] ELSE t[i - Len(s)]
  BY ConcatProperties, LenProperties
<1>2. PICK n \in Nat : n = Len(s)
  BY <1>1
<1>3. PICK p \in Nat : p = Len(t)
  BY <1>1
<1>4. PICK w : w = s \o t
  OBVIOUS
<1>5. Len(w) = n + p /\ (\A i \in 1 .. n : w[i] = s[i]) /\ \A i \in 1 .. p : w[n + i] = t[i]
  <2>1. \A i \in 1 .. p : n + i \in 1 .. n + p /\ ~ (n + i <= n) /\ (n + i) - n = i
    OBVIOUS
  <2>2. \A i \in 1 .. n : i \in 1 .. n + p /\ i <= n
    OBVIOUS
  <2> QED BY <1>1, <1>2, <1>3, <1>4, <2>1, <2>2
<1>6. ASSUME NEW i \in 1 .. n, Has(w[i], "call") PROVE \E k \in i + 1 .. Len(w) : AnsweredAt(w, i, k, loose)
  <2>1. PICK k \in i + 1 .. n : AnsweredAt(s, i, k, loose)
    BY <1>2, <1>5, <1>6 DEF Answered
  <2>2. k \in i + 1 .. Len(w) /\ \A j \in i + 1 .. k : j \in 1 .. n /\ w[j] = s[j]
    BY <1>5, <2>1
  <2>3. AnsweredAt(w, i, k, loose)
    BY <1>5, <2>1, <2>2 DEF AnsweredAt
  <2> QED BY <2>2, <2>3
<1>7. ASSUME NEW i \in 1 .. p, Has(w[n + i], "call")
      PROVE  \E k \in n + i + 1 .. Len(w) : AnsweredAt(w, n + i, k, loose)
  <2>1. PICK k \in i + 1 .. p : AnsweredAt(t, i, k, loose)
    BY <1>3, <1>5, <1>7 DEF Answered
  <2>2. n + k \in n + i + 1 .. Len(w)
    BY <1>5, <2>1
  <2>3. \A j \in n + i + 1 .. n + k : j - n \in i + 1 .. k /\ j - n \in 1 .. p /\ w[j] = t[j - n]
    <3>1. \A j \in n + i + 1 .. n + k : j - n \in i + 1 .. k /\ j - n \in 1 .. p /\ n + (j - n) = j
      BY <2>1
    <3> QED BY <1>5, <3>1
  <2>4. \A j \in i + 1 .. k : n + j \in n + i + 1 .. n + k /\ w[n + j] = t[j]
    BY <1>5, <2>1
  <2>5. w[n + i] = t[i]
    BY <1>5
  <2>6. AnsweredAt(w, n + i, n + k, loose)
    <3>1. \A j \in n + i + 1 .. n + k : Has(w[j], "result")
      BY <2>1, <2>3 DEF AnsweredAt
    <3>2. ASSUME ~ loose, NEW id \in IdsIn(<< w[n + i] >>, "call")
          PROVE  \E j \in n + i + 1 .. n + k : id \in IdsIn(<< w[j] >>, "result")
      <4>1. PICK j \in i + 1 .. k : id \in IdsIn(<< t[j] >>, "result")
        BY <2>1, <2>5, <3>2 DEF AnsweredAt
      <4> QED BY <2>4, <4>1
    <3> QED BY <3>1, <3>2 DEF AnsweredAt
  <2> QED BY <2>2, <2>6
<1>8. ASSUME NEW i \in 1 .. Len(w), Has(w[i], "call") PROVE \E k \in i + 1 .. Len(w) : AnsweredAt(w, i, k, loose)
  <2>1. CASE i \in 1 .. n
    BY <1>6, <1>8, <2>1
  <2>2. CASE i \notin 1 .. n
    <3>1. PICK j \in 1 .. p : i = n + j
      <4>1. i - n \in 1 .. p /\ i = n + (i - n)
        BY <1>5, <2>2
      <4> QED BY <4>1
    <3> QED BY <1>7, <1>8, <3>1
  <2> QED BY <2>1, <2>2
<1> QED BY <1>4, <1>8 DEF Answered

LEMMA NoCallsAnswered ==
  ASSUME NEW loose, NEW s, \A i \in 1 .. Len(s) : ~ Has(s[i], "call") PROVE Answered(s, loose)
BY DEF Answered

(* A message with calls and the results of all of them.                    *)
LEMMA TurnAnswered ==
  ASSUME NEW m \in MessageSet, NEW t \in Seq(MessageSet), t # << >>,
         \A i \in 1 .. Len(t) : Has(t[i], "result") /\ ~ Has(t[i], "call"),
         IdsIn(<< m >>, "call") \subseteq IdsIn(t, "result")
  PROVE  Answered(<< m >> \o t, FALSE)
<1>1. PICK u \in Seq(MessageSet) : u = << m >> /\ Len(u) = 1 /\ u[1] = m
  <2>1. Len(<< m >>) = 1 /\ << m >>[1] = m
    OBVIOUS
  <2> QED BY <2>1, Single
<1>2. /\ Len(u \o t) = Len(u) + Len(t) /\ Len(t) \in Nat /\ Len(t) > 0
      /\ \A i \in 1 .. Len(u) + Len(t) : (u \o t)[i] = IF i <= Len(u) THEN u[i] ELSE t[i - Len(u)]
  BY ConcatProperties, LenProperties, EmptySeq
<1>3. PICK w : w = u \o t
  OBVIOUS
<1>4. PICK p \in Nat : p = Len(t) /\ p > 0
  BY <1>2
<1>5. Len(w) = 1 + p /\ w[1] = m /\ \A i \in 1 .. p : w[i + 1] = t[i]
  <2>1. \A i \in 1 .. p : i + 1 \in 1 .. 1 + p /\ ~ (i + 1 <= 1) /\ (i + 1) - 1 = i
    OBVIOUS
  <2> QED BY <1>1, <1>2, <1>3, <1>4, <2>1
<1>6. \A i \in 2 .. 1 + p : \E j \in 1 .. p : i = j + 1
  <2>1. \A i \in 2 .. 1 + p : i - 1 \in 1 .. p /\ i = (i - 1) + 1
    OBVIOUS
  <2> QED BY <2>1
<1>7. \A i \in 2 .. 1 + p : Has(w[i], "result") /\ ~ Has(w[i], "call")
  BY <1>4, <1>5, <1>6
<1>8. ASSUME NEW id \in IdsIn(<< m >>, "call") PROVE \E j \in 2 .. 1 + p : id \in IdsIn(<< w[j] >>, "result")
  <2>1. PICK i \in 1 .. p : id \in IdsIn(<< t[i] >>, "result")
    BY <1>4, <1>8, IdsElement
  <2>2. i + 1 \in 2 .. 1 + p /\ w[i + 1] = t[i]
    BY <1>5
  <2> QED BY <2>1, <2>2
<1>9. AnsweredAt(w, 1, 1 + p, FALSE)
  BY <1>5, <1>7, <1>8 DEF AnsweredAt
<1>10. ASSUME NEW i \in 1 .. Len(w), Has(w[i], "call") PROVE \E k \in i + 1 .. Len(w) : AnsweredAt(w, i, k, FALSE)
  <2>1. i = 1
    <3>1. i \in 2 .. 1 + p \/ i = 1
      BY <1>5
    <3> QED BY <1>7, <1>10, <3>1
  <2>2. 1 + p \in i + 1 .. Len(w)
    BY <1>4, <1>5, <2>1
  <2>3. AnsweredAt(w, i, 1 + p, FALSE)
    BY <1>9, <2>1
  <2> QED BY <2>2, <2>3
<1> QED BY <1>1, <1>3, <1>10 DEF Answered

(* Two conversations with calls and results in the same places.            *)
SamePlaces(s, t, loose) ==
  /\ Len(s) = Len(t)
  /\ \A i \in 1 .. Len(s) : /\ Has(s[i], "call") <=> Has(t[i], "call")
                            /\ Has(s[i], "result") <=> Has(t[i], "result")
  /\ loose \/ SameIds(s, t)

LEMMA SameAnswered ==
  ASSUME NEW loose, NEW s \in Seq(MessageSet), NEW t, SamePlaces(s, t, loose), Answered(s, FALSE)
  PROVE  Answered(t, loose)
<1>1. PICK n \in Nat : n = Len(s) /\ n = Len(t)
  BY LenProperties DEF SamePlaces
<1> SUFFICES ASSUME NEW i \in 1 .. n, Has(t[i], "call") PROVE \E k \in i + 1 .. n : AnsweredAt(t, i, k, loose)
  BY <1>1 DEF Answered
<1>2. PICK k \in i + 1 .. n : AnsweredAt(s, i, k, FALSE)
  BY <1>1 DEF Answered, SamePlaces
<1>3. \A j \in i + 1 .. k : j \in 1 .. n
  BY <1>2
<1>4. \A j \in i + 1 .. k : Has(t[j], "result")
  BY <1>1, <1>2, <1>3 DEF AnsweredAt, SamePlaces
<1>5. ASSUME ~ loose, NEW id \in IdsIn(<< t[i] >>, "call") PROVE \E j \in i + 1 .. k : id \in IdsIn(<< t[j] >>, "result")
  <2>1. id \in IdsIn(<< s[i] >>, "call")
    BY <1>1, <1>5 DEF SamePlaces, SameIds
  <2>2. PICK j \in i + 1 .. k : id \in IdsIn(<< s[j] >>, "result")
    BY <1>2, <2>1 DEF AnsweredAt
  <2> QED BY <1>1, <1>3, <1>5, <2>2 DEF SamePlaces, SameIds
<1> QED BY <1>2, <1>4, <1>5 DEF AnsweredAt

(* What a message of the client becomes, by its calls and results.         *)
LEMMA InwardShape ==
  ASSUME NEW c \in Speakers, NEW m \in FormsOf(c), NEW s, s = Inward(c, m)
  PROVE  /\ Has(m, "result") => /\ \A i \in 1 .. Len(s) : Has(s[i], "result") /\ ~ Has(s[i], "call")
                                /\ IdsIn(<< m >>, "result") \subseteq IdsIn(s, "result")
         /\ ~ Has(m, "call") => \A i \in 1 .. Len(s) : ~ Has(s[i], "call")
         /\ Has(m, "call") /\ (c # "gemini" \/ (CallsNamed(m.content) /\ ~ (Len(m.content) > 1))) =>
              \E q \in MessageSet : s = << q >> /\ IdsIn(<< q >>, "call") \subseteq IdsIn(<< m >>, "call")
<1>0. m \in MessageSet
  BY FormsTyped DEF FormsOf
<1>1. ASSUME s = << m >>, ~ Has(m, "result")
      PROVE  /\ ~ Has(m, "call") => \A i \in 1 .. Len(s) : ~ Has(s[i], "call")
             /\ \E q \in MessageSet : s = << q >> /\ IdsIn(<< q >>, "call") \subseteq IdsIn(<< m >>, "call")
  BY <1>0, <1>1
<1>2. ASSUME NEW n \in Odd, m.content \in Asks(n) PROVE ~ Has(m, "result")
  BY <1>2, AskParts DEF Has
<1>3. ASSUME NEW n \in Even, m.content \in Replies(n) PROVE ~ Has(m, "result")
  BY <1>3, ReplyParts DEF Has
<1>4. ASSUME NEW n \in Even, c = "gemini", m.content \in Replies(n), PartsFor(n, m.content, s)
      PROVE  /\ ~ Has(m, "call") => \A i \in 1 .. Len(s) : ~ Has(s[i], "call")
             /\ Has(m, "call") /\ CallsNamed(m.content) /\ ~ (Len(m.content) > 1) =>
                  \E q \in MessageSet : s = << q >> /\ IdsIn(<< q >>, "call") \subseteq IdsIn(<< m >>, "call")
  <2>1. ASSUME NEW t \in Texts(n), m.content = << t >>, s = << Message("assistant", << t >>) >>
        PROVE  ~ Has(m, "call") /\ \A i \in 1 .. Len(s) : ~ Has(s[i], "call")
    <3>1. \A i \in 1 .. Len(s) : s[i] = Message("assistant", << t >>)
      BY <2>1
    <3> QED BY <2>1, <3>1, SaidIds, PartsOfText DEF Has
  <2>2. ASSUME NEW d \in Calls(n), m.content = << d >>, s = << Asked(d) >>, CallsNamed(m.content)
        PROVE  \E q \in MessageSet : s = << q >> /\ IdsIn(<< q >>, "call") \subseteq IdsIn(<< m >>, "call")
    <3>1. IdsIn(<< m >>, "call") = {b.id : b \in ToSet(Only(m.content, {"call"}))}
      BY <1>0, IdsOne, Zenon
    <3>2. Only(m.content, {"call"}) = << d >>
      BY <2>2, PartsOfCall
    <3>3. d.id = FName /\ IdsIn(<< m >>, "call") = {FName}
      BY <2>2, <3>1, <3>2, SetOfOne DEF CallsNamed
    <3> QED BY <2>2, <3>3, AskedIds
  <2>3. ASSUME NEW d \in Calls(n), m.content = << d >> PROVE Has(m, "call")
    BY <2>3, PartsOfCall, Joining DEF Has
  <2>4. ASSUME NEW x, NEW y, m.content = << x, y >>, Only(m.content, {"call"}) # << >>
        PROVE  Has(m, "call") /\ Len(m.content) > 1
    BY <2>4 DEF Has
  <2>5. ASSUME NEW d \in Calls(n), NEW e \in Calls(n), m.content = << d, e >> PROVE Has(m, "call") /\ Len(m.content) > 1
    <3>1. Only(m.content, {"call"}) # << >>
      BY <2>5, PartsOfCalls
    <3> QED BY <2>4, <2>5, <3>1
  <2>6. ASSUME NEW t \in Texts(n), NEW d \in Calls(n), m.content = << t, d >> PROVE Has(m, "call") /\ Len(m.content) > 1
    <3>1. Only(m.content, {"call"}) # << >>
      BY <2>6, PartsOfSaidAndCalled, Joining
    <3> QED BY <2>4, <2>6, <3>1
  <2> QED BY <1>4, <2>1, <2>2, <2>3, <2>5, <2>6 DEF PartsFor
<1>5. ASSUME NEW n \in Odd, NEW x, ResultsOnly(m, n, x), ToolsFor(n, x, s)
      PROVE  /\ ~ Has(m, "call")
             /\ \A i \in 1 .. Len(s) : Has(s[i], "result") /\ ~ Has(s[i], "call")
             /\ IdsIn(<< m >>, "result") \subseteq IdsIn(s, "result")
  <2>1. IdsIn(<< m >>, "result") = {b.id : b \in ToSet(x)}
    <3>1. IdsIn(<< m >>, "result") = {b.id : b \in ToSet(Only(m.content, {"result"}))}
      BY <1>0, IdsOne, Zenon
    <3> QED BY <1>5, <3>1 DEF ResultsOnly
  <2>2. ~ Has(m, "call")
    BY <1>5 DEF ResultsOnly, Has
  <2>3. ASSUME NEW r \in Results(n), NEW q \in Results(n), Repeats(n, r, q), x = << r >>, s = << Tool(q) >>
        PROVE  /\ \A i \in 1 .. Len(s) : Has(s[i], "result") /\ ~ Has(s[i], "call")
               /\ IdsIn(<< m >>, "result") \subseteq IdsIn(s, "result")
    <3>1. \A i \in 1 .. Len(s) : s[i] = Tool(q)
      BY <2>3
    <3>2. IdsIn(<< m >>, "result") = {q.id}
      BY <2>1, <2>3, SetOfOne DEF Repeats
    <3> QED BY <2>3, <3>1, <3>2, ToolIds
  <2>4. ASSUME NEW r \in Results(n), NEW q \in Results(n), NEW u \in Results(n), NEW v \in Results(n),
               Repeats(n, r, q), Repeats(n, u, v), x = << r, u >>, s = << Tool(q), Tool(v) >>
        PROVE  /\ \A i \in 1 .. Len(s) : Has(s[i], "result") /\ ~ Has(s[i], "call")
               /\ IdsIn(<< m >>, "result") \subseteq IdsIn(s, "result")
    <3>1. \A i \in 1 .. Len(s) : s[i] = Tool(q) \/ s[i] = Tool(v)
      BY <2>4
    <3>2. IdsIn(<< m >>, "result") = {q.id, v.id}
      BY <2>1, <2>4, SetOfTwo DEF Repeats
    <3>3. IdsIn(s, "result") = {q.id} \cup {v.id}
      <4>1. PICK f \in MessageSet, g \in MessageSet : f = Tool(q) /\ g = Tool(v)
        BY ToolIds
      <4>2. IdsIn(<< f, g >>, "result") = IdsIn(<< f >>, "result") \cup IdsIn(<< g >>, "result")
        BY IdsTwo
      <4> QED BY <2>4, <4>1, <4>2, ToolIds
    <3> QED BY <3>1, <3>2, <3>3, ToolIds
  <2> QED BY <1>5, <2>2, <2>3, <2>4 DEF ToolsFor
<1> QED BY <1>1, <1>2, <1>3, <1>4, <1>5, InwardCases

LEMMA InwardCalls ==
  ASSUME NEW c \in Speakers, NEW m \in FormsOf(c), Has(m, "call"),
         c # "gemini" \/ (CallsNamed(m.content) /\ ~ (Len(m.content) > 1))
  PROVE  \E q \in MessageSet : Inward(c, m) = << q >> /\ IdsIn(<< q >>, "call") \subseteq IdsIn(<< m >>, "call")
<1>1. PICK s : s = Inward(c, m)
  OBVIOUS
<1>2. \E q \in MessageSet : s = << q >> /\ IdsIn(<< q >>, "call") \subseteq IdsIn(<< m >>, "call")
  BY ZenonT(40), <1>1, InwardShape
<1> QED BY <1>1, <1>2

(* A conversation without open calls: in the client's form and, unless a   *)
(* content of Gemini is taken apart, in OpenAI's form.                     *)
Whole(c, h) == c = "gemini" => \A i \in 1 .. Len(h) : Has(h[i], "call") => ~ (Len(h[i].content) > 1)
Settled(c, h) == Answered(h, FALSE) /\ (Whole(c, h) => Answered(Mid(c, h), FALSE))

LEMMA SettledConcat ==
  ASSUME NEW c \in Speakers, NEW g \in Seq(FormsOf(c)), NEW t \in Seq(FormsOf(c)), Settled(c, g), Settled(c, t)
  PROVE  Settled(c, g \o t)
<1>0. FormsOf(c) \subseteq MessageSet /\ OpenAIForms \subseteq MessageSet
  BY FormsTyped DEF FormsOf
<1>1. g \in Seq(MessageSet) /\ t \in Seq(MessageSet)
  BY <1>0, SeqMonotonic
<1>2. PICK u \in Seq(MessageSet), v \in Seq(MessageSet) : u = Mid(c, g) /\ v = Mid(c, t)
  <2>1. Mid(c, g) \in Seq(OpenAIForms) /\ Mid(c, t) \in Seq(OpenAIForms)
    BY MidTyped
  <2> QED BY <1>0, <2>1, SeqMonotonic
<1>3. Mid(c, g \o t) = u \o v
  BY <1>2, MidConcat
<1>4. Answered(g \o t, FALSE)
  BY <1>1, AnsweredConcat DEF Settled
<1>5. Whole(c, g \o t) => Whole(c, g) /\ Whole(c, t)
  <2>1. /\ Len(g \o t) = Len(g) + Len(t) /\ Len(g) \in Nat /\ Len(t) \in Nat
        /\ \A i \in 1 .. Len(g) + Len(t) : (g \o t)[i] = IF i <= Len(g) THEN g[i] ELSE t[i - Len(g)]
    BY <1>1, ConcatProperties, LenProperties
  <2>2. \A i \in 1 .. Len(g) : i \in 1 .. Len(g \o t) /\ (g \o t)[i] = g[i]
    BY <2>1
  <2>3. \A i \in 1 .. Len(t) : Len(g) + i \in 1 .. Len(g \o t) /\ (g \o t)[Len(g) + i] = t[i]
    <3>1. \A i \in 1 .. Len(t) : /\ Len(g) + i \in 1 .. Len(g) + Len(t) /\ ~ (Len(g) + i <= Len(g))
                                 /\ (Len(g) + i) - Len(g) = i
      BY <2>1
    <3> QED BY <2>1, <3>1
  <2> QED BY <2>2, <2>3 DEF Whole
<1>6. Whole(c, g \o t) => Answered(u \o v, FALSE)
  BY <1>2, <1>5, AnsweredConcat DEF Settled
<1> QED BY <1>3, <1>4, <1>6 DEF Settled

LEMMA SettledEmpty == \A c : Settled(c, << >>)
<1>1. Answered(<< >>, FALSE)
  BY DEF Answered
<1> QED BY <1>1, MidEmpty DEF Settled

LEMMA SettledAlone ==
  ASSUME NEW c \in Speakers, NEW m \in FormsOf(c), ~ Has(m, "call") PROVE Settled(c, << m >>)
<1>1. Answered(<< m >>, FALSE)
  <2>1. \A i \in 1 .. Len(<< m >>) : ~ Has(<< m >>[i], "call")
    OBVIOUS
  <2> QED BY <2>1, NoCallsAnswered
<1>2. PICK s : s = Inward(c, m) /\ s = Mid(c, << m >>)
  BY MidOne
<1>3. \A i \in 1 .. Len(s) : ~ Has(s[i], "call")
  BY <1>2, InwardShape
<1>4. Answered(s, FALSE)
  BY <1>3, NoCallsAnswered
<1> QED BY <1>1, <1>2, <1>4 DEF Settled

(* Calls, and all their results: in a message each, or in one.             *)
Returned(c, m, rs) ==
  /\ rs # << >> /\ (c = "openai" \/ \E r \in FormsOf(c) : rs = << r >>)
  /\ \A i \in 1 .. Len(rs) : Has(rs[i], "result") /\ ~ Has(rs[i], "call")
  /\ IdsIn(<< m >>, "call") \subseteq IdsIn(rs, "result")

LEMMA SettledTurn ==
  ASSUME NEW c \in Speakers, NEW m \in FormsOf(c), Has(m, "call"), c # "gemini" \/ CallsNamed(m.content),
         NEW rs \in Seq(FormsOf(c)), Returned(c, m, rs)
  PROVE  Settled(c, << m >> \o rs)
<1>0. FormsOf(c) \subseteq MessageSet /\ OpenAIForms \subseteq MessageSet
  BY FormsTyped DEF FormsOf
<1>1. rs \in Seq(MessageSet) /\ m \in MessageSet
  BY <1>0, SeqMonotonic
<1>2. Answered(<< m >> \o rs, FALSE)
  BY <1>1, TurnAnswered DEF Returned
<1>3. PICK v \in Seq(FormsOf(c)) : v = << m >>
  BY Single
<1>4. Mid(c, v \o rs) = Mid(c, v) \o Mid(c, rs) /\ Mid(c, v) = Inward(c, m)
  BY <1>3, MidConcat, MidOne
<1>5. ASSUME Whole(c, v \o rs) PROVE c # "gemini" \/ ~ (Len(m.content) > 1)
  <2>1. /\ Len(v \o rs) = Len(v) + Len(rs) /\ Len(v) = 1 /\ Len(rs) \in Nat /\ v[1] = m
        /\ \A i \in 1 .. Len(v) + Len(rs) : (v \o rs)[i] = IF i <= Len(v) THEN v[i] ELSE rs[i - Len(v)]
    <3>1. Len(<< m >>) = 1 /\ << m >>[1] = m
      OBVIOUS
    <3> QED BY <1>3, <3>1, ConcatProperties, LenProperties
  <2>2. 1 \in 1 .. Len(v \o rs) /\ (v \o rs)[1] = m
    BY <2>1
  <2> QED BY <1>5, <2>2 DEF Whole
<1>6. PICK t \in Seq(MessageSet) : t = Mid(c, rs)
  <2>1. Mid(c, rs) \in Seq(OpenAIForms)
    BY MidTyped
  <2> QED BY <1>0, <2>1, SeqMonotonic
<1>7. /\ \A i \in 1 .. Len(t) : Has(t[i], "result") /\ ~ Has(t[i], "call")
      /\ IdsIn(rs, "result") \subseteq IdsIn(t, "result") /\ t # << >>
  <2>1. CASE c = "openai"
    <3>1. t = rs
      BY <1>6, <2>1, MidSelf DEF FormsOf
    <3> QED BY <3>1 DEF Returned
  <2>2. CASE c # "openai"
    <3>1. PICK r \in FormsOf(c) : rs = << r >>
      BY <2>2 DEF Returned
    <3>2. Has(r, "result")
      <4>1. Len(rs) = 1 /\ rs[1] = r
        BY <3>1
      <4> QED BY <4>1 DEF Returned
    <3>3. t = Inward(c, r)
      BY <1>6, <3>1, MidOne
    <3>4. t # << >>
      BY <3>3, InwardAtoms
    <3> QED BY <3>1, <3>2, <3>3, <3>4, InwardShape
  <2> QED BY <2>1, <2>2
<1>8. ASSUME Whole(c, v \o rs) PROVE Answered(Mid(c, v \o rs), FALSE)
  <2>1. PICK q \in MessageSet : Inward(c, m) = << q >> /\ IdsIn(<< q >>, "call") \subseteq IdsIn(<< m >>, "call")
    <3>1. c # "gemini" \/ (CallsNamed(m.content) /\ ~ (Len(m.content) > 1))
      BY <1>5, <1>8
    <3> QED BY <3>1, InwardCalls
  <2>2. IdsIn(<< q >>, "call") \subseteq IdsIn(t, "result")
    BY <1>7, <2>1 DEF Returned
  <2>3. Answered(<< q >> \o t, FALSE)
    BY <1>7, <2>2, TurnAnswered
  <2> QED BY <1>4, <1>6, <2>1, <2>3
<1> QED BY <1>2, <1>3, <1>8 DEF Settled

LEMMA BehindIs ==
  ASSUME NEW s \in Seq(MessageSet), NEW i \in 1 .. Len(s), NEW k \in i + 1 .. Len(s), NEW j \in i + 1 .. k,
         NEW id \in IdsIn(<< s[j] >>, "result")
  PROVE  id \in IdsIn(SubSeq(s, i + 1, k), "result")
<1>1. PICK t : t = SubSeq(s, i + 1, k)
  OBVIOUS
<1>2. i \in Nat /\ k \in Nat /\ j \in Nat /\ Len(s) \in Nat
  BY LenProperties
<1>3. /\ t \in Seq(MessageSet) /\ Len(t) = k - i
      /\ \A p \in 1 .. k - i : t[p] = s[i + p]
  <2>1. i + 1 \in 1 .. Len(s) + 1 /\ k \in i .. Len(s)
    BY <1>2
  <2>2. \A p \in i + 1 .. k : s[p] \in MessageSet
    BY <1>2, ElementOfSeq
  <2>3. /\ SubSeq(s, i + 1, k) \in Seq(MessageSet)
        /\ Len(SubSeq(s, i + 1, k)) = IF i + 1 <= k THEN k - (i + 1) + 1 ELSE 0
        /\ \A p \in 1 .. k - (i + 1) + 1 : SubSeq(s, i + 1, k)[p] = s[i + 1 + p - 1]
    BY <1>2, <2>1, <2>2, SubSeqProperties
  <2>4. i + 1 <= k /\ k - (i + 1) + 1 = k - i /\ \A p \in 1 .. k - i : i + 1 + p - 1 = i + p
    BY <1>2
  <2> QED BY <1>1, <2>3, <2>4
<1>4. j - i \in 1 .. Len(t) /\ t[j - i] = s[j]
  BY <1>2, <1>3
<1> QED BY <1>1, <1>3, <1>4, IdsElement

LEMMA AnswersHold ==
  ASSUME Held, Underway, Names(history), NamedCalls(client, history), Settled(client, history)
  PROVE  CallsAnsweredAtOnce
<1> DEFINE TakenApart == client = "gemini" /\ upstream.to # "gemini"
                           /\ \E i \in DOMAIN history : Has(history[i], "call") /\ Len(history[i].content) > 1
<1> SUFFICES ASSUME upstream # Idle, ~ TakenApart PROVE CallsAnsweredAtOnce
  BY DEF CallsAnsweredAtOnce
<1>1. Answered(Going, TakenOver) /\ Going \in Seq(MessageSet)
  <2>1. CASE client = upstream.to
    <3>1. SamePlaces(history, history, TakenOver)
      BY DEF SamePlaces, SameIds
    <3>2. Answered(history, TakenOver)
      BY <3>1, GoingIs, SameAnswered DEF Settled
    <3> QED BY <2>1, <3>2, GoingIs DEF Going
  <2>2. CASE client # upstream.to
    <3>1. Whole(client, history)
      <4>1. DOMAIN history = 1 .. Len(history)
        BY LenProperties DEF Held
      <4> QED BY <2>2, <4>1 DEF Whole
    <3>2. PICK s \in Seq(OpenAIForms) : s = Mid(client, history)
      BY GoingIs
    <3>3. Answered(s, FALSE) /\ s \in Seq(MessageSet)
      <4>1. OpenAIForms \subseteq MessageSet
        BY FormsTyped
      <4> QED BY <3>1, <3>2, <4>1, SeqMonotonic DEF Settled
    <3>4. ~ TakenOver => SameIds(s, Sent(upstream.to, s))
      BY <2>2, <3>2, SentSameIds
    <3>5. ASSUME NEW i \in 1 .. Len(s)
          PROVE  /\ Has(s[i], "call") <=> Has(Sent(upstream.to, s)[i], "call")
                 /\ Has(s[i], "result") <=> Has(Sent(upstream.to, s)[i], "result")
      <4>1. PICK m, f : m \in OpenAIForms /\ m = s[i] /\ f = ForProvider(upstream.to, m)
        BY ElementOfSeq
      <4>2. Sent(upstream.to, s)[i] = f
        BY <4>1 DEF Sent
      <4>3. (Has(f, "call") <=> Has(m, "call")) /\ (Has(f, "result") <=> Has(m, "result"))
        BY <4>1, Forwarded DEF Underway
      <4> QED BY <4>1, <4>2, <4>3
    <3>6. SamePlaces(s, Sent(upstream.to, s), TakenOver)
      <4>1. Len(Sent(upstream.to, s)) = Len(s)
        BY SentTyped DEF Underway
      <4> QED BY <3>4, <3>5, <4>1 DEF SamePlaces
    <3>7. Answered(Sent(upstream.to, s), TakenOver)
      BY <3>3, <3>6, SameAnswered
    <3> QED BY <2>2, <3>2, <3>7, GoingIs DEF Going
  <2> QED BY <2>1, <2>2
<1>2. PICK messages : messages = upstream.body.messages
  OBVIOUS
<1>3. Answered(messages, TakenOver) /\ messages \in Seq(MessageSet)
  <2>1. PICK pre \in {<< >>, << SystemFor(client) >>} : messages = pre \o Going
    BY <1>2, GoingIs
  <2>2. pre \in Seq(MessageSet)
    BY SystemTyped
  <2>3. \A i \in 1 .. Len(pre) : ~ Has(pre[i], "call")
    BY SystemIs
  <2>4. Answered(pre, TakenOver)
    BY <2>3, NoCallsAnswered
  <2> QED BY <1>1, <2>1, <2>2, <2>4, AnsweredConcat, ConcatProperties
<1>4. ASSUME NEW i \in DOMAIN messages, Has(messages[i], "call")
      PROVE  \E k \in i + 1 .. Len(messages) :
               /\ \A j \in i + 1 .. k : Has(messages[j], "result")
               /\ TakenOver \/ CallIds(<< messages[i] >>) \subseteq ResultIds(SubSeq(messages, i + 1, k))
  <2>1. i \in 1 .. Len(messages)
    BY <1>3, LenProperties
  <2>2. PICK k \in i + 1 .. Len(messages) : AnsweredAt(messages, i, k, TakenOver)
    BY <1>3, <1>4, <2>1 DEF Answered
  <2>3. ASSUME ~ TakenOver, NEW id \in CallIds(<< messages[i] >>)
        PROVE  id \in ResultIds(SubSeq(messages, i + 1, k))
    <3>1. id \in IdsIn(<< messages[i] >>, "call")
      BY <2>3, IdsIs
    <3>2. PICK j \in i + 1 .. k : id \in IdsIn(<< messages[j] >>, "result")
      BY <2>2, <2>3, <3>1 DEF AnsweredAt
    <3>3. id \in IdsIn(SubSeq(messages, i + 1, k), "result")
      BY <1>3, <2>1, <3>2, BehindIs
    <3> QED BY <3>3, IdsIs
  <2> QED BY <2>2, <2>3 DEF AnsweredAt
<1> QED BY <1>2, <1>4 DEF CallsAnsweredAtOnce, TakenOver, FName

-----------------------------------------------------------------------------
(* The conversation of a client: it waits for an answer to what it said    *)
(* last, or has one, and then all before it is settled.                    *)

(* The client waits for an answer; it has been told one; the one or the    *)
(* other.                                                                  *)
Waiting(c, h) == Settled(c, h) /\ (h = << >> \/ h[Len(h)].role # RoleOf(c))
Told(c, h) ==
  \E g \in Seq(FormsOf(c)) : \E m \in FormsOf(c) : h = Append(g, m) /\ m.role = RoleOf(c) /\ Settled(c, g)
Talk(c, h) == h \in Seq(FormsOf(c)) /\ Names(h) /\ NamedCalls(c, h) /\ (Waiting(c, h) \/ Told(c, h))

LEMMA FormsHave ==
  ASSUME NEW c \in Speakers, NEW n
  PROVE  /\ n \in Odd => \A x \in Asks(n) : Message("user", x) \in FormsOf(c)
         /\ n \in Even => \A x \in Replies(n) : Message(RoleOf(c), x) \in FormsOf(c)
         /\ n \in Odd /\ c = "openai" => \A r \in Results(n) : Message("tool", << r >>) \in FormsOf(c)
         /\ n \in Odd /\ c # "openai" => \A x \in Hands(n) : Message("user", x) \in FormsOf(c)
         /\ n \in Odd /\ c = "anthropic" => \A x \in Reminds(n) : Message("user", x) \in FormsOf(c)
<1>1. n \in Odd => Asks(n) \subseteq Asking /\ Hands(n) \subseteq Resulting /\ Reminds(n) \subseteq Reminding
  BY DEF Asking, Resulting, Reminding
<1>2. n \in Even => Replies(n) \subseteq Replying
  BY DEF Replying
<1>3. n \in Odd => \A r \in Results(n) : Message("tool", << r >>) \in OpenAIForms
  BY DEF OpenAIForms
<1> QED BY <1>1, <1>2, <1>3 DEF FormsOf, OpenAIForms, AnthropicForms, GeminiForms, RoleOf, Speakers

LEMMA RepliesOf ==
  ASSUME NEW c \in Speakers, NEW m \in FormsOf(c), m.role = RoleOf(c)
  PROVE  \E n \in Even : m.content \in Replies(n)
<1>1. m.role # "user" /\ m.role # "tool"
  BY DEF RoleOf
<1> QED BY <1>1, InwardCases DEF ResultsOnly

LEMMA NoneNamed ==
  ASSUME NEW m \in MessageSet
  PROVE  /\ ~ Has(m, "result") => IdsIn(<< m >>, "result") = {}
         /\ ~ Has(m, "call") => IdsIn(<< m >>, "call") = {} /\ CallsNamed(m.content)
<1>1. /\ IdsIn(<< m >>, "result") = {b.id : b \in ToSet(Only(m.content, {"result"}))}
      /\ IdsIn(<< m >>, "call") = {b.id : b \in ToSet(Only(m.content, {"call"}))}
  BY IdsOne, Zenon
<1>2. ToSet(<< >>) = {}
  BY DEF ToSet
<1> QED BY <1>1, <1>2 DEF Has, CallsNamed

LEMMA NamedCallsConcat ==
  ASSUME NEW c, NEW S, NEW h \in Seq(S), NEW t \in Seq(S), NamedCalls(c, h), NamedCalls(c, t)
  PROVE  NamedCalls(c, h \o t)
<1>1. /\ Len(h \o t) = Len(h) + Len(t) /\ Len(h) \in Nat /\ Len(t) \in Nat
      /\ \A i \in 1 .. Len(h) + Len(t) : (h \o t)[i] = IF i <= Len(h) THEN h[i] ELSE t[i - Len(h)]
  BY ConcatProperties, LenProperties
<1>2. ASSUME c = "gemini", NEW i \in 1 .. Len(h \o t) PROVE CallsNamed((h \o t)[i].content)
  <2>1. CASE i <= Len(h)
    BY <1>1, <1>2, <2>1 DEF NamedCalls
  <2>2. CASE ~ (i <= Len(h))
    <3>1. i - Len(h) \in 1 .. Len(t)
      BY <1>1, <2>2
    <3> QED BY <1>1, <1>2, <2>2, <3>1 DEF NamedCalls
  <2> QED BY <2>1, <2>2
<1> QED BY <1>2 DEF NamedCalls

(* What is appended keeps the names if it names calls.                     *)
LEMMA TalkGrows ==
  ASSUME NEW c \in Speakers, NEW h \in Seq(FormsOf(c)), Names(h), NamedCalls(c, h), NEW t \in Seq(FormsOf(c)),
         NamedCalls(c, t), \A i \in 1 .. Len(t) : IdsIn(<< t[i] >>, "result") \subseteq IdsIn(h, "call"),
         Waiting(c, h \o t) \/ Told(c, h \o t)
  PROVE  Talk(c, h \o t)
<1>1. h \o t \in Seq(FormsOf(c))
  BY ConcatProperties
<1>2. h \in Seq(MessageSet) /\ t \in Seq(MessageSet)
  <2>1. FormsOf(c) \subseteq MessageSet
    BY FormsTyped DEF FormsOf
  <2> QED BY <2>1, SeqMonotonic
<1>3. Names(h \o t)
  BY <1>2, NamesExtend
<1>4. NamedCalls(c, h \o t)
  BY NamedCallsConcat
<1> QED BY <1>1, <1>3, <1>4 DEF Talk

LEMMA TalkHears ==
  ASSUME NEW c \in Speakers, NEW h, Talk(c, h), Waiting(c, h),
         NEW n \in Even, NEW x \in Replies(n), c # "gemini" \/ CallsNamed(x)
  PROVE  Talk(c, Append(h, Message(RoleOf(c), x)))
<1>1. PICK m \in FormsOf(c) : m = Message(RoleOf(c), x)
  BY FormsHave
<1>2. m.role = RoleOf(c) /\ m.content = x
  BY <1>1, RoleAndContent
<1>3. PICK t \in Seq(FormsOf(c)) : t = << m >> /\ Len(t) = 1 /\ t[1] = m
  <2>1. Len(<< m >>) = 1 /\ << m >>[1] = m
    OBVIOUS
  <2> QED BY <2>1, Single
<1>4. Append(h, m) = h \o t /\ h \in Seq(FormsOf(c)) /\ Names(h) /\ NamedCalls(c, h)
  BY <1>3, AppendIs DEF Talk
<1>5. Told(c, h \o t)
  BY <1>2, <1>4 DEF Told, Waiting
<1>6. IdsIn(<< m >>, "result") = {}
  <2>1. m \in MessageSet
    BY FormsTyped DEF FormsOf
  <2>2. ~ Has(m, "result")
    BY <1>2, ReplyParts DEF Has
  <2> QED BY <2>1, <2>2, NoneNamed
<1>7. NamedCalls(c, t)
  BY <1>2, <1>3 DEF NamedCalls
<1>8. \A i \in 1 .. Len(t) : IdsIn(<< t[i] >>, "result") \subseteq IdsIn(h, "call")
  BY <1>3, <1>6
<1>9. Talk(c, h \o t)
  BY <1>4, <1>5, <1>7, <1>8, TalkGrows
<1> QED BY <1>1, <1>4, <1>9

LEMMA TalkAsks ==
  ASSUME NEW c \in Speakers, NEW h, Talk(c, h),
         h = << >> \/ (h[Len(h)].role = RoleOf(c) /\ ~ Has(h[Len(h)], "call")),
         NEW n \in Odd, NEW x \in Asks(n)
  PROVE  Talk(c, Append(h, Message("user", x))) /\ Waiting(c, Append(h, Message("user", x)))
<1>1. PICK m \in FormsOf(c) : m = Message("user", x)
  BY FormsHave
<1>2. m.role = "user" /\ m.content = x /\ "user" # RoleOf(c)
  BY <1>1, RoleAndContent DEF RoleOf
<1>3. PICK t \in Seq(FormsOf(c)) : t = << m >> /\ Len(t) = 1 /\ t[1] = m
  <2>1. Len(<< m >>) = 1 /\ << m >>[1] = m
    OBVIOUS
  <2> QED BY <2>1, Single
<1>4. h \in Seq(FormsOf(c)) /\ Names(h) /\ NamedCalls(c, h)
  BY DEF Talk
<1>5. /\ Append(h, m) = h \o t /\ Append(h, m) \in Seq(FormsOf(c))
      /\ Len(h) \in Nat /\ Len(Append(h, m)) = Len(h) + 1 /\ Append(h, m)[Len(h) + 1] = m
  BY <1>3, <1>4, AppendIs
<1>6. m \in MessageSet /\ ~ Has(m, "result") /\ ~ Has(m, "call")
  <2>1. m \in MessageSet
    BY FormsTyped DEF FormsOf
  <2> QED BY <1>2, <2>1, AskParts DEF Has
<1>7. Settled(c, h)
  <2>1. CASE h = << >>
    BY <2>1, SettledEmpty
  <2>2. CASE h # << >>
    <3>1. PICK g \in Seq(FormsOf(c)) : \E q \in FormsOf(c) : h = Append(g, q) /\ q.role = RoleOf(c) /\ Settled(c, g)
      BY <2>2 DEF Talk, Waiting, Told
    <3>2. PICK q \in FormsOf(c) : h = Append(g, q) /\ q.role = RoleOf(c) /\ Settled(c, g)
      BY <3>1
    <3>3. /\ Append(g, q) = g \o << q >> /\ << q >> \in Seq(FormsOf(c))
          /\ Len(Append(g, q)) = Len(g) + 1 /\ Append(g, q)[Len(g) + 1] = q
      BY AppendIs
    <3>4. ~ Has(q, "call")
      BY <2>2, <3>2, <3>3
    <3>5. Settled(c, << q >>)
      BY <3>4, SettledAlone
    <3> QED BY <3>2, <3>3, <3>5, SettledConcat
  <2> QED BY <2>1, <2>2
<1>8. Settled(c, h \o t)
  <2>1. Settled(c, t)
    BY <1>3, <1>6, SettledAlone
  <2> QED BY <1>4, <1>7, <2>1, SettledConcat
<1>9. Waiting(c, h \o t)
  BY <1>2, <1>5, <1>8 DEF Waiting
<1>10. NamedCalls(c, t) /\ \A i \in 1 .. Len(t) : IdsIn(<< t[i] >>, "result") \subseteq IdsIn(h, "call")
  <2>1. IdsIn(<< m >>, "result") = {} /\ CallsNamed(m.content)
    BY <1>6, NoneNamed
  <2> QED BY <1>3, <2>1 DEF NamedCalls
<1>11. Talk(c, h \o t)
  BY <1>4, <1>9, <1>10, TalkGrows
<1> QED BY <1>1, <1>5, <1>9, <1>11

LEMMA TalkReturns ==
  ASSUME NEW c \in Speakers, NEW h, Talk(c, h), h # << >>,
         NEW m, m = h[Len(h)], m.role = RoleOf(c), Has(m, "call"),
         NEW rs \in Seq(FormsOf(c)), Returned(c, m, rs),
         \A i \in 1 .. Len(rs) : rs[i].role # RoleOf(c) /\ IdsIn(<< rs[i] >>, "result") \subseteq IdsIn(<< m >>, "call")
  PROVE  Talk(c, h \o rs) /\ Waiting(c, h \o rs)
<1>0. FormsOf(c) \subseteq MessageSet
  BY FormsTyped DEF FormsOf
<1>1. h \in Seq(FormsOf(c)) /\ Names(h) /\ NamedCalls(c, h) /\ h \in Seq(MessageSet)
  BY <1>0, SeqMonotonic DEF Talk
<1>2. PICK g \in Seq(FormsOf(c)) : \E q \in FormsOf(c) : h = Append(g, q) /\ Settled(c, g)
  BY DEF Talk, Waiting, Told
<1>3. PICK q \in FormsOf(c) : h = Append(g, q) /\ Settled(c, g)
  BY <1>2
<1>4. /\ Append(g, q) = g \o << q >> /\ << q >> \in Seq(FormsOf(c)) /\ Len(g) \in Nat
      /\ Len(Append(g, q)) = Len(g) + 1 /\ Append(g, q)[Len(g) + 1] = q
  BY AppendIs
<1>5. q = m /\ Len(h) \in Nat /\ Len(h) \in 1 .. Len(h)
  BY <1>3, <1>4
<1>6. Settled(c, << m >> \o rs) /\ << m >> \o rs \in Seq(FormsOf(c))
  <2>1. c # "gemini" \/ CallsNamed(m.content)
    BY <1>1, <1>5 DEF NamedCalls
  <2>2. << m >> \o rs \in Seq(FormsOf(c))
    BY <1>4, <1>5, ConcatProperties
  <2> QED BY <1>5, <2>1, <2>2, SettledTurn
<1>7. h \o rs = g \o (<< m >> \o rs)
  <2>1. (g \o << m >>) \o rs = g \o (<< m >> \o rs)
    BY <1>4, <1>5, ConcatAssociative
  <2> QED BY <1>3, <1>4, <1>5, <2>1
<1>8. Settled(c, h \o rs)
  BY <1>3, <1>6, <1>7, SettledConcat
<1>9. /\ Len(h \o rs) = Len(h) + Len(rs) /\ Len(rs) \in Nat /\ Len(rs) > 0
      /\ \A i \in 1 .. Len(h) + Len(rs) : (h \o rs)[i] = IF i <= Len(h) THEN h[i] ELSE rs[i - Len(h)]
  BY <1>1, ConcatProperties, LenProperties, EmptySeq DEF Returned
<1>10. (h \o rs)[Len(h \o rs)] = rs[Len(rs)]
  BY <1>5, <1>9
<1>11. Waiting(c, h \o rs)
  <2>1. Len(rs) \in 1 .. Len(rs)
    BY <1>9
  <2>2. rs[Len(rs)].role # RoleOf(c)
    BY <2>1
  <2> QED BY <1>8, <1>10, <2>2 DEF Waiting
<1>12. NamedCalls(c, rs) /\ \A i \in 1 .. Len(rs) : IdsIn(<< rs[i] >>, "result") \subseteq IdsIn(h, "call")
  <2>1. \A i \in 1 .. Len(rs) : CallsNamed(rs[i].content)
    BY <1>0, ElementOfSeq, NoneNamed DEF Returned
  <2>2. IdsIn(<< m >>, "call") \subseteq IdsIn(h, "call")
    BY <1>1, <1>5, IdsElement
  <2> QED BY <2>1, <2>2 DEF NamedCalls
<1>13. Talk(c, h \o rs)
  BY <1>1, <1>11, <1>12, TalkGrows
<1> QED BY <1>11, <1>13

-----------------------------------------------------------------------------
(* What the client and the model say has those forms.                      *)

LEMMA PositiveIs ==
  /\ \A a \in Atom : PositiveFn[a] = IF a[1] > 0 THEN << a >> ELSE << >>
  /\ \A n \in Nat : \A w \in Word : << n, w >> \in Atom /\ << n, w >>[1] = n
BY DEF PositiveFn, Atom

LEMMA PositiveOne == ASSUME NEW a \in Atom PROVE Mapped(<< a >>, PositiveFn) = PositiveFn[a]
BY MappedOne, PositiveFnTyped

LEMMA NothingPositive == ASSUME NEW w \in Word PROVE \E z \in Atom : z = << 0, w >> /\ PositiveFn[z] = << >>
<1>1. PICK z \in Atom : z = << 0, w >> /\ z[1] = 0
  BY PositiveIs
<1>2. ~ (z[1] > 0)
  BY <1>1
<1> QED BY <1>1, <1>2, PositiveIs

LEMMA Triple == \A f, a, z : << f >> \o << a, z >> = << f, a, z >>
<1> TAKE f, a, z
<1> DEFINE S == {f, a, z}
<1>1. << f >> \in Seq(S) /\ << a, z >> \in Seq(S) /\ << f, a, z >> \in Seq(S)
  OBVIOUS
<1>2. /\ Len(<< f >>) = 1 /\ << f >>[1] = f
      /\ Len(<< a, z >>) = 2 /\ << a, z >>[1] = a /\ << a, z >>[2] = z
  OBVIOUS
<1>3. Len(<< f, a, z >>) = 3 /\ << f, a, z >>[1] = f /\ << f, a, z >>[2] = a /\ << f, a, z >>[3] = z
  OBVIOUS
<1>4. PICK u, v : u = << f >> /\ v = << a, z >>
  OBVIOUS
<1>5. u \o v \in Seq(S) /\ Len(u \o v) = 3 /\ (u \o v)[1] = f /\ (u \o v)[2] = a /\ (u \o v)[3] = z
  BY <1>1, <1>2, <1>4, ConcatProperties
<1>6. PICK p \in Seq(S), q \in Seq(S) : p = u \o v /\ q = << f, a, z >>
  BY <1>1, <1>5
<1>7. Len(p) = 3 /\ Len(q) = 3 /\ p[1] = q[1] /\ p[2] = q[2] /\ p[3] = q[3]
  BY <1>3, <1>5, <1>6
<1>8. \A i \in 1 .. Len(p) : p[i] = q[i]
  <2>1. \A i \in 1 .. 3 : i = 1 \/ i = 2 \/ i = 3
    OBVIOUS
  <2> QED BY <1>7, <2>1
<1>9. p = q
  BY <1>7, <1>8, SeqEqual
<1> QED BY <1>4, <1>6, <1>9

LEMMA Statement ==
  ASSUME NEW kind \in Kind, NEW id \in Atom, NEW n \in Nat, n > 0, NEW w \in Word \ {Reminder},
         NEW b, b = Block(kind, id, << << n, w >> >>)
  PROVE  Piece(b, kind, n) /\ b.of # << >> /\ b.id = id
<1>1. PICK a \in Atom : a = << n, w >> /\ a[1] > 0
  BY PositiveIs
<1>2. << a >> \in Seq(Atom) /\ << a >> # << >>
  BY Single, Joining
<1>3. b \in BlockSet /\ b.kind = kind /\ b.id = id /\ b.of = << a >>
  BY <1>1, <1>2 DEF Block, BlockSet
<1>4. ContentOf(b) = << a >>
  <2>1. PositiveFn[a] = << a >>
    BY <1>1, PositiveIs
  <2> QED BY <1>3, <2>1, ContentOfIs, MappedOne, PositiveFnTyped
<1> QED BY <1>1, <1>2, <1>3, <1>4 DEF Piece

LEMMA Invocation ==
  ASSUME NEW id \in Atom, NEW n \in Nat, n > 0, NEW w \in Word \ {Reminder}, NEW args \in Word,
         NEW b, b = Block("call", id, << << 0, "f" >>, << n, w >>, << 0, args >> >>)
  PROVE  b \in Calls(n) /\ b.id = id
<1>1. PICK a \in Atom : a = << n, w >> /\ a[1] > 0
  BY PositiveIs
<1>2. PICK f \in Atom : f = << 0, "f" >> /\ PositiveFn[f] = << >>
  <2>1. "f" \in Word
    BY DEF Word
  <2> QED BY <2>1, NothingPositive
<1>3. PICK z \in Atom : z = << 0, args >> /\ PositiveFn[z] = << >>
  BY NothingPositive
<1>4. PositiveFn[a] = << a >>
  BY <1>1, PositiveIs
<1>5. PICK x \in Seq(Atom) : x = << f >>
  BY Single
<1>6. PICK y \in Seq(Atom) : y = << a, z >> /\ Mapped(y, PositiveFn) = << a >>
  <2>1. PICK u \in Seq(Atom), v \in Seq(Atom) : u = << a >> /\ v = << z >>
    BY Single
  <2>2. u \o v = << a, z >> /\ u \o v \in Seq(Atom)
    BY <2>1, Pair
  <2>3. Mapped(u \o v, PositiveFn) = Mapped(u, PositiveFn) \o Mapped(v, PositiveFn)
    BY MappedConcat, PositiveFnTyped
  <2>4. Mapped(u, PositiveFn) = << a >> /\ Mapped(v, PositiveFn) = << >>
    <3>1. Mapped(<< a >>, PositiveFn) = << a >>
      BY <1>4, PositiveOne
    <3>2. Mapped(<< z >>, PositiveFn) = << >>
      BY <1>3, PositiveOne
    <3> QED BY <2>1, <3>1, <3>2
  <2>5. << a >> \o << >> = << a >>
    BY Joining
  <2> QED BY <2>2, <2>3, <2>4, <2>5
<1>7. x \o y = << f, a, z >> /\ x \o y \in Seq(Atom)
  <2>1. << f >> \o << a, z >> = << f, a, z >>
    BY Triple
  <2> QED BY <1>5, <1>6, <2>1, ConcatProperties
<1>8. Mapped(x \o y, PositiveFn) = << a >>
  <2>1. Mapped(x \o y, PositiveFn) = Mapped(x, PositiveFn) \o Mapped(y, PositiveFn)
    BY MappedConcat, PositiveFnTyped
  <2>2. Mapped(x, PositiveFn) = << >>
    BY <1>2, <1>5, MappedOne, PositiveFnTyped
  <2>3. << >> \o << a >> = << a >>
    OBVIOUS
  <2> QED BY <1>6, <2>1, <2>2, <2>3
<1>9. b \in BlockSet /\ b.kind = "call" /\ b.id = id /\ b.of = x \o y
  BY <1>1, <1>2, <1>3, <1>7 DEF Block, BlockSet, Kind
<1>10. ContentOf(b) = << a >>
  BY <1>8, <1>9, ContentOfIs
<1>11. b.of # << >> /\ Head(b.of) = << 0, "f" >>
  <2>1. << f, a, z >> # << >> /\ Head(<< f, a, z >>) = f
    OBVIOUS
  <2> QED BY <1>2, <1>7, <1>9, <2>1
<1> QED BY <1>1, <1>9, <1>10, <1>11 DEF Calls, Piece

LEMMA Numbered == \A r \in Nat : 2 * r + 1 \in Odd /\ (r > 0 => 2 * r \in Even)
BY DEF Odd, Even

LEMMA QuestionsTyped == ASSUME requests \in Nat PROVE Now \in Odd /\ \A x \in Questions : x \in Asks(Now)
<1>1. PICK n \in Odd : n = Now
  BY Numbered DEF Now
<1>2. n \in Nat /\ n > 0
  BY DEF Odd
<1>3. "question" \in Word \ {Reminder} /\ "image" \in Word \ {Reminder} /\ "text" \in Kind /\ "image" \in Kind
  BY DEF Word, Reminder, Kind
<1>4. Said("question") \in Texts(n)
  <2>1. PICK b : b = Said("question")
    OBVIOUS
  <2>2. b = Block("text", NoId, << << n, "question" >> >>)
    BY <1>1, <2>1 DEF Said
  <2>3. Piece(b, "text", n) /\ b.of # << >> /\ b.id = NoId
    BY <1>2, <1>3, <2>2, NoIdTyped, Statement
  <2> QED BY <2>1, <2>3 DEF Texts, Piece
<1>5. Image \in Images(n)
  <2>1. PICK b : b = Image
    OBVIOUS
  <2>2. b = Block("image", NoId, << << n, "image" >> >>)
    BY <1>1, <2>1 DEF Image
  <2>3. Piece(b, "image", n)
    BY <1>2, <1>3, <2>2, NoIdTyped, Statement
  <2> QED BY <2>1, <2>3 DEF Images, Piece
<1>6. << Said("question") >> \in Asks(n) /\ << Said("question"), Image >> \in Asks(n)
  BY <1>4, <1>5 DEF Asks
<1> QED BY <1>1, <1>6 DEF Questions

(* What a model may answer; with Gemini and Ollama calls have no ids.      *)
LEMMA AnswersTyped ==
  ASSUME requests \in Nat, requests > 0, NEW x \in Answers
  PROVE  /\ 2 * requests \in Even /\ x \in Replies(2 * requests)
         /\ upstream.to \in {"gemini", "ollama"} => CallsNamed(x)
<1>1. PICK n \in Even : n = 2 * requests
  BY Numbered
<1>2. n \in Nat /\ n > 0
  BY DEF Even
<1> DEFINE Id(i) == IF upstream.to \in {"gemini", "ollama"} THEN << 0, "f" >> ELSE << n, i >>
           Call(i, args) == Block("call", Id(i), << << 0, "f" >>, << n, i >>, args >>)
           text == Block("text", NoId, << << n, "says" >> >>)
           whole == << 0, "args" >>
<1>3. /\ {"a", "b", "says"} \subseteq Word \ {Reminder} /\ {"args", "malformed", "f"} \subseteq Word
      /\ "text" \in Kind
  BY DEF Word, Reminder, Kind
<1>4. x \in { << text >>, << Call("a", whole), Call("b", whole) >>, << text, Call("a", whole) >>,
              << Call("a", Malformed) >>, << Call("a", whole) >> }
  BY <1>1 DEF Answers
<1>5. text \in Texts(n)
  <2>1. PICK b : b = text
    OBVIOUS
  <2>2. "says" \in Word \ {Reminder}
    BY <1>3
  <2>3. Piece(b, "text", n) /\ b.of # << >> /\ b.id = NoId
    BY <1>2, <1>3, <2>1, <2>2, NoIdTyped, Statement
  <2> QED BY <2>1, <2>3 DEF Texts, Piece
<1>6. ASSUME NEW i \in {"a", "b"}, NEW word \in {"args", "malformed"}
      PROVE  Call(i, << 0, word >>) \in Calls(n) /\ Call(i, << 0, word >>).id = Id(i)
  <2>0. PICK id \in Atom : id = Id(i)
    <3>1. << 0, "f" >> \in Atom /\ << n, i >> \in Atom
      <4>1. "f" \in Word /\ i \in Word
        BY <1>3
      <4> QED BY <1>2, <4>1, PositiveIs
    <3>2. Id(i) \in Atom
      BY <3>1
    <3> QED BY <3>2
  <2>1. PICK b : b = Call(i, << 0, word >>)
    OBVIOUS
  <2>2. b = Block("call", id, << << 0, "f" >>, << n, i >>, << 0, word >> >>)
    BY <2>0, <2>1
  <2>3. i \in Word \ {Reminder} /\ word \in Word
    BY <1>3
  <2>4. b \in Calls(n) /\ b.id = id
    BY <1>2, <2>2, <2>3, Invocation
  <2> QED BY <2>0, <2>1, <2>4
<1> HIDE DEF text, Call
<1>7. x \in Replies(n)
  BY <1>4, <1>5, <1>6 DEF Replies, Malformed
<1>8. ASSUME upstream.to \in {"gemini", "ollama"} PROVE CallsNamed(x)
  <2>1. \A b \in ToSet(Only(x, {"call"})) : \E i \in {"a", "b"} : \E word \in {"args", "malformed"} : b = Call(i, << 0, word >>)
    <3>1. CASE x = << text >>
      BY <1>5, <3>1, PartsOfText DEF ToSet
    <3>2. CASE x = << Call("a", whole), Call("b", whole) >>
      BY <1>6, <3>2, PartsOfCalls, SetOfTwo
    <3>3. CASE x = << text, Call("a", whole) >>
      BY <1>5, <1>6, <3>3, PartsOfSaidAndCalled, SetOfOne
    <3>4. CASE x = << Call("a", Malformed) >>
      BY <1>6, <3>4, PartsOfCall, SetOfOne DEF Malformed
    <3>5. CASE x = << Call("a", whole) >>
      BY <1>6, <3>5, PartsOfCall, SetOfOne
    <3> QED BY <1>4, <3>1, <3>2, <3>3, <3>4, <3>5
  <2> QED BY <1>6, <1>8, <2>1 DEF CallsNamed, FName
<1> QED BY <1>1, <1>7, <1>8

-----------------------------------------------------------------------------
(* What the client reads of an answer.                                     *)

LEMMA CanonicalIs ==
  ASSUME NEW to, NEW n \in Nat, NEW x \in Replies(n), to \in {"gemini", "ollama"} => CallsNamed(x)
  PROVE  Canonical(to, x) = x
<1>1. x \in Seq(BlockSet) /\ Joined(x) \o Only(x, {"call"}) = x /\ (Only(x, {"call"}) = << >> => Joined(x) = x)
  BY ReplyParts
<1>2. CASE to \notin {"gemini", "ollama"}
  BY <1>1, <1>2 DEF Canonical, WithIds
<1>3. CASE to \in {"gemini", "ollama"}
  <2>1. Canonical(to, x) = Joined(x) \o Named(Only(x, {"call"}))
    BY <1>3 DEF Canonical, WithNames
  <2>2. CASE Only(x, {"call"}) = << >>
    <3>1. Named(<< >>) = << >>
      BY DEF Named
    <3>2. x \o << >> = x
      BY <1>1, ConcatEmptySeq
    <3> QED BY <1>1, <2>1, <2>2, <3>1, <3>2
  <2>3. CASE Only(x, {"call"}) # << >>
    <3>1. AsGemini(x) = x
      BY <1>3, AsGeminiReply
    <3> QED BY <2>1, <2>3, <3>1 DEF AsGemini
  <2> QED BY <2>2, <2>3
<1> QED BY <1>2, <1>3

LEMMA Normalized == \A p \in Protocols : Normalize(p) = p
BY DEF Protocols, Normalize

LEMMA ResponseIs ==
  ASSUME NEW to \in Protocols, NEW c \in Speakers, NEW n \in Nat, NEW x \in Replies(n),
         to \in {"gemini", "ollama"} => CallsNamed(x)
  PROVE  TranslateResponse(to, c, [Empty EXCEPT !.answer = x]).answer = IF c = to \/ c = "openai" THEN x ELSE << >>
<1>1. Normalize(to) = to /\ Normalize(c) = c /\ c \in Protocols
  BY Normalized DEF Speakers, Protocols
<1>2. PICK raw : raw = [Empty EXCEPT !.answer = x] /\ raw.answer = x
  <2>1. [Empty EXCEPT !.answer = x].answer = x
    BY DEF Empty
  <2> QED BY <2>1
<1>3. [raw EXCEPT !.answer = Canonical(to, @)].answer = x
  <2>1. Canonical(to, x) = x
    BY CanonicalIs
  <2> QED BY <1>2, <2>1 DEF Empty
<1>4. CASE c = to
  BY <1>1, <1>2, <1>4 DEF TranslateResponse
<1>5. CASE c # to
  <2>1. PICK canonical : canonical.answer = x /\ TranslateResponse(to, c, raw) = FromOpenAI(c, canonical)
    BY <1>1, <1>2, <1>3, <1>5 DEF TranslateResponse
  <2>2. CASE c = "openai"
    BY <1>2, <2>1, <2>2 DEF FromOpenAI
  <2>3. CASE c = "anthropic"
    <3>1. OpenAIToAnthropic(canonical).answer = << >>
      BY DEF OpenAIToAnthropic, Empty
    <3> QED BY <1>2, <1>5, <2>1, <2>3, <3>1 DEF FromOpenAI
  <2>4. CASE c = "gemini"
    <3>1. OpenAIToGemini(canonical).answer = << >>
      BY DEF OpenAIToGemini, Empty
    <3> QED BY <1>2, <1>5, <2>1, <2>4, <3>1 DEF FromOpenAI
  <2> QED BY <2>2, <2>3, <2>4 DEF Speakers
<1> QED BY <1>4, <1>5

(* Nothing, or an answer that its client can go on with.                   *)
Heard(c, x) == x = << >> \/ \E n \in Even : x \in Replies(n) /\ (c # "gemini" \/ CallsNamed(x))

LEMMA ReadIs ==
  ASSUME client \in Speakers, upstream.to \in Protocols, requests \in Nat, requests > 0, NEW given \in Answers,
         NEW answer, answer = IF Streamed THEN given
                              ELSE TranslateResponse(upstream.to, client, [Empty EXCEPT !.answer = given]).answer,
         NEW read, read = IF ~ Streamed \/ upstream.to = "openai" THEN answer ELSE << >>,
         client = "openai" \/ ~ Streamed
  PROVE  /\ Heard(client, read)
         /\ client = upstream.to \/ (client = "openai" /\ ~ Streamed) => read = given
<1>1. PICK n \in Even : given \in Replies(n) /\ (upstream.to \in {"gemini", "ollama"} => CallsNamed(given))
  BY AnswersTyped
<1>2. n \in Nat
  BY DEF Even
<1>3. CASE Streamed
  BY <1>1, <1>3 DEF Heard
<1>4. CASE ~ Streamed
  <2>0. PICK to \in Protocols : to = upstream.to
    OBVIOUS
  <2>1. read = IF client = upstream.to \/ client = "openai" THEN given ELSE << >>
    <3>1. PICK c \in Speakers : c = client
      OBVIOUS
    <3>2. TranslateResponse(to, c, [Empty EXCEPT !.answer = given]).answer
            = IF c = to \/ c = "openai" THEN given ELSE << >>
      <4>1. to \in {"gemini", "ollama"} => CallsNamed(given)
        BY <1>1, <2>0
      <4>2. given \in Replies(n)
        BY <1>1
      <4> HIDE <2>0
      <4> QED BY <1>2, <4>1, <4>2, ResponseIs
    <3> QED BY <1>4, <2>0, <3>1, <3>2
  <2> QED BY <1>1, <1>4, <2>1 DEF Heard
<1> QED BY <1>3, <1>4

-----------------------------------------------------------------------------
(* The results that the client gives.                                      *)

(* The ids of blocks.                                                      *)
IdsOf(x) == {b.id : b \in ToSet(x)}

LEMMA IdsOfTwo == \A b, d : IdsOf(<< b, d >>) = {b.id, d.id}
<1> TAKE b, d
<1>1. ToSet(<< b, d >>) = {b, d}
  BY SetOfTwo
<1> QED BY <1>1 DEF IdsOf

LEMMA LastTyped ==
  ASSUME NEW S, NEW h \in Seq(S), h # << >> PROVE Len(h) \in 1 .. Len(h) /\ h[Len(h)] \in S
<1>1. Len(h) \in Nat /\ Len(h) > 0
  BY LenProperties, EmptySeq
<1> QED BY <1>1, ElementOfSeq

LEMMA OpenCallsAre ==
  ASSUME client \in Speakers, Talk(client, history), OpenCalls # << >>
  PROVE  /\ history # << >>
         /\ \E m \in FormsOf(client) :
              /\ m = history[Len(history)] /\ m.role = RoleOf(client) /\ Has(m, "call")
              /\ IdsIn(<< m >>, "call") = IdsOf(OpenCalls)
         /\ \E n : \E c \in Calls(n), d \in Calls(n) : OpenCalls = << c >> \/ OpenCalls = << c, d >>
<1>1. LastIs(ClientRole) /\ ClientRole = RoleOf(client)
  BY DEF OpenCalls, ClientRole, RoleOf
<1>2. PICK m \in FormsOf(client) : m = history[Len(history)] /\ m.role = RoleOf(client) /\ history # << >>
  BY <1>1, LastTyped DEF Talk, LastIs
<1>3. OpenCalls = Only(m.content, {"call"})
  BY <1>1, <1>2 DEF OpenCalls
<1>4. PICK n \in Even : m.content \in Replies(n)
  BY <1>2, RepliesOf
<1>5. m \in MessageSet
  BY FormsTyped DEF FormsOf
<1>6. IdsIn(<< m >>, "call") = {b.id : b \in ToSet(Only(m.content, {"call"}))}
  BY <1>5, IdsOne, Zenon
<1>7. \E c \in Calls(n), d \in Calls(n) : OpenCalls = << c >> \/ OpenCalls = << c, d >>
  <2>1. CASE \E t \in Texts(n) : m.content = << t >>
    BY <1>3, <2>1, PartsOfText
  <2>2. CASE \E c \in Calls(n) : m.content = << c >>
    BY <1>3, <2>2, PartsOfCall
  <2>3. CASE \E c \in Calls(n), d \in Calls(n) : m.content = << c, d >>
    BY <1>3, <2>3, PartsOfCalls
  <2>4. CASE \E t \in Texts(n), c \in Calls(n) : m.content = << t, c >>
    BY <1>3, <2>4, PartsOfSaidAndCalled
  <2> QED BY <1>4, <2>1, <2>2, <2>3, <2>4 DEF Replies
<1> QED BY <1>2, <1>3, <1>6, <1>7 DEF Has, IdsOf

LEMMA HandsHave == \A n : \A r, s \in Results(n) : << r >> \in Hands(n) /\ << r, s >> \in Hands(n)
BY DEF Hands

LEMMA ResultsTyped ==
  ASSUME client \in Speakers, Talk(client, history), OpenCalls # << >>, requests \in Nat,
         NEW x, x = [i \in 1 .. Len(OpenCalls) |-> Result(i)]
  PROVE  /\ Now \in Odd /\ x \in Hands(Now) /\ IdsOf(x) = IdsOf(OpenCalls)
         /\ Len(OpenCalls) \in Nat /\ Len(OpenCalls) > 0
         /\ \A i \in 1 .. Len(OpenCalls) : Result(i) \in Results(Now) /\ x[i] = Result(i)
<1>1. PICK n \in Odd : n = Now
  BY Numbered DEF Now
<1>2. PICK p : \E c \in Calls(p), d \in Calls(p) : OpenCalls = << c >> \/ OpenCalls = << c, d >>
  BY OpenCallsAre
<1>3. PICK c \in Calls(p), d \in Calls(p) : OpenCalls = << c >> \/ OpenCalls = << c, d >>
  BY <1>2
<1>4. PICK calls : calls = OpenCalls
  OBVIOUS
<1>5. Len(calls) \in {1, 2} /\ \A i \in 1 .. Len(calls) : calls[i] \in Calls(p)
  BY <1>3, <1>4
<1>6. ASSUME NEW i \in 1 .. Len(calls) PROVE Result(i) \in Results(n) /\ Result(i).id = calls[i].id
  <2>1. PICK w \in Word \ {Reminder} : w = IF i = 1 THEN "result" ELSE "result 2"
    <3>1. "result" \in Word \ {Reminder} /\ "result 2" \in Word \ {Reminder}
      BY DEF Word, Reminder
    <3> QED BY <3>1
  <2>2. PICK b : b = Result(i)
    OBVIOUS
  <2>3. b = Block("result", calls[i].id, << << n, w >> >>)
    BY <1>1, <1>4, <2>1, <2>2 DEF Result
  <2>4. calls[i].id \in Atom
    BY <1>5 DEF Calls, BlockSet
  <2>5. n \in Nat /\ n > 0 /\ "result" \in Kind
    BY DEF Odd, Kind
  <2>6. Piece(b, "result", n) /\ b.of # << >> /\ b.id = calls[i].id
    BY <2>3, <2>4, <2>5, Statement
  <2> QED BY <2>2, <2>6 DEF Results, Piece
<1>7. x \in Hands(n) /\ IdsOf(x) = IdsOf(calls)
  <2>1. CASE calls = << c >>
    <3>1. Len(calls) = 1 /\ calls[1] = c
      BY <2>1
    <3>2. x = << Result(1) >>
      BY <1>4, <3>1
    <3>3. Result(1) \in Results(n) /\ Result(1).id = c.id
      BY <1>6, <3>1
    <3>4. IdsOf(x) = {c.id} /\ IdsOf(calls) = {c.id}
      BY <2>1, <3>2, <3>3, SetOfOne DEF IdsOf
    <3> QED BY SMTT(20), <3>2, <3>3, <3>4 DEF Hands
  <2>2. CASE calls = << c, d >>
    <3>1. Len(calls) = 2 /\ calls[1] = c /\ calls[2] = d
      BY <2>2
    <3>2. x = << Result(1), Result(2) >>
      BY <1>4, <3>1
    <3>3. Result(1) \in Results(n) /\ Result(1).id = c.id /\ Result(2) \in Results(n) /\ Result(2).id = d.id
      BY <1>6, <3>1
    <3>4. IdsOf(x) = {c.id, d.id} /\ IdsOf(calls) = {c.id, d.id}
      <4>1. IdsOf(x) = {Result(1).id, Result(2).id} /\ IdsOf(calls) = {c.id, d.id}
        BY <2>2, <3>2, IdsOfTwo
      <4> QED BY <3>3, <4>1
    <3>5. x \in Hands(n)
      BY <3>2, <3>3, HandsHave
    <3> QED BY <3>4, <3>5
  <2> QED BY <1>3, <1>4, <2>1, <2>2
<1> QED BY <1>1, <1>4, <1>5, <1>6, <1>7

(* In one message, with a reminder beside them or without; or one by one.  *)
LEMMA ReturnedInOne ==
  ASSUME NEW c \in Speakers, c # "openai", NEW n \in Odd, NEW x \in Hands(n),
         NEW y, y = x \/ (c = "anthropic" /\ y = x \o << ReminderAt(n) >>),
         NEW m, IdsIn(<< m >>, "call") = IdsOf(x), NEW rs, rs = << Message("user", y) >>
  PROVE  /\ rs \in Seq(FormsOf(c)) /\ Returned(c, m, rs)
         /\ \A i \in 1 .. Len(rs) : rs[i].role # RoleOf(c) /\ IdsIn(<< rs[i] >>, "result") \subseteq IdsIn(<< m >>, "call")
<1>1. PICK r : r = Message("user", y) /\ r.role = "user" /\ r.content = y
  BY RoleAndContent
<1>2. r \in FormsOf(c)
  BY <1>1, FormsHave DEF Reminds
<1>3. Only(y, {"result"}) = x /\ x # << >> /\ Only(y, {"call"}) = << >>
  <2>1. Only(x, {"result"}) = x /\ x # << >> /\ Only(x, {"call"}) = << >> /\ x \in Seq(BlockSet)
    BY ResultParts
  <2>2. CASE y = x
    BY <2>1, <2>2
  <2>3. CASE y = x \o << ReminderAt(n) >>
    <3>1. PICK b \in BlockSet : b = ReminderAt(n) /\ b.kind = "text"
      BY ReminderTyped
    <3>2. Only(<< b >>, {"result"}) = << >> /\ Only(<< b >>, {"call"}) = << >> /\ << b >> \in Seq(BlockSet)
      BY <3>1, OnlyOne, Single
    <3>3. Only(x \o << b >>, {"result"}) = x \o << >> /\ Only(x \o << b >>, {"call"}) = << >> \o << >>
      BY <2>1, <3>2, OnlyConcat
    <3>4. x \o << >> = x /\ << >> \o << >> = << >>
      BY <2>1, ConcatEmptySeq
    <3> QED BY <2>1, <2>3, <3>1, <3>3, <3>4
  <2> QED BY <2>2, <2>3
<1>4. Has(r, "result") /\ ~ Has(r, "call")
  BY <1>1, <1>3 DEF Has
<1>5. IdsIn(<< r >>, "result") = IdsIn(<< m >>, "call")
  <2>1. r \in MessageSet
    BY <1>2, FormsTyped DEF FormsOf
  <2>2. IdsIn(<< r >>, "result") = {b.id : b \in ToSet(Only(r.content, {"result"}))}
    BY <2>1, IdsOne, Zenon
  <2> QED BY <1>1, <1>3, <2>2 DEF IdsOf
<1>6. rs = << r >> /\ Len(rs) = 1 /\ rs[1] = r /\ rs # << >>
  BY <1>1
<1>7. rs \in Seq(FormsOf(c))
  BY <1>2, <1>6, Single
<1>8. \A i \in 1 .. Len(rs) : rs[i] = r
  BY <1>6
<1>9. Returned(c, m, rs)
  BY <1>2, <1>4, <1>5, <1>6, <1>8 DEF Returned
<1>10. "user" # RoleOf(c)
  BY DEF RoleOf
<1> QED BY <1>1, <1>5, <1>7, <1>8, <1>9, <1>10

LEMMA ReturnedEach ==
  ASSUME NEW n \in Odd, NEW x, Len(x) \in Nat, Len(x) > 0, \A i \in 1 .. Len(x) : x[i] \in Results(n),
         DOMAIN x = 1 .. Len(x), NEW m, IdsIn(<< m >>, "call") = IdsOf(x),
         NEW rs, rs = [i \in 1 .. Len(x) |-> Message("tool", << x[i] >>)]
  PROVE  /\ rs \in Seq(FormsOf("openai")) /\ Returned("openai", m, rs)
         /\ \A i \in 1 .. Len(rs) : /\ rs[i].role # RoleOf("openai")
                                    /\ IdsIn(<< rs[i] >>, "result") \subseteq IdsIn(<< m >>, "call")
<1>1. PICK p \in Nat : p = Len(x) /\ p > 0
  OBVIOUS
<1>2. Len(rs) = p /\ \A i \in 1 .. p : rs[i] = Tool(x[i]) /\ x[i] \in Results(n)
  BY <1>1 DEF Tool
<1>3. \A r \in Results(n) : Tool(r) \in FormsOf("openai") /\ Tool(r).role = "tool"
  BY InOpenAIForm, RoleAndContent DEF FormsOf, Tool
<1>4. rs \in Seq(FormsOf("openai")) /\ rs # << >>
  <2>1. PICK S : S = FormsOf("openai")
    OBVIOUS
  <2>2. \A i \in 1 .. Len(x) : Message("tool", << x[i] >>) \in S
    BY <1>3, <2>1 DEF Tool
  <2>3. rs \in Seq(S)
    BY <2>2
  <2> QED BY <1>1, <1>2, <2>1, <2>3
<1>5. \A i \in 1 .. p : IdsIn(<< rs[i] >>, "result") = {x[i].id} /\ Has(rs[i], "result") /\ ~ Has(rs[i], "call")
  BY <1>2, ToolIds
<1>6. rs \in Seq(MessageSet)
  <2>1. FormsOf("openai") \subseteq MessageSet
    BY FormsTyped DEF FormsOf
  <2> QED BY <1>4, <2>1, SeqMonotonic
<1>7. \A id : id \in IdsOf(x) <=> \E i \in 1 .. p : id = x[i].id
  BY <1>1 DEF IdsOf, ToSet
<1>8. IdsIn(<< m >>, "call") \subseteq IdsIn(rs, "result")
  <2> SUFFICES ASSUME NEW id \in IdsOf(x) PROVE id \in IdsIn(rs, "result")
    OBVIOUS
  <2>1. PICK i \in 1 .. p : id = x[i].id
    BY <1>7
  <2>2. id \in IdsIn(<< rs[i] >>, "result")
    BY <1>5, <2>1
  <2> QED BY <1>2, <1>6, <2>2, IdsElement
<1>9. Returned("openai", m, rs)
  BY <1>2, <1>4, <1>5, <1>8 DEF Returned
<1>10. ASSUME NEW i \in 1 .. p
       PROVE  rs[i].role # RoleOf("openai") /\ IdsIn(<< rs[i] >>, "result") \subseteq IdsIn(<< m >>, "call")
  <2>1. rs[i].role = "tool" /\ "tool" # RoleOf("openai")
    BY <1>2, <1>3 DEF RoleOf
  <2> QED BY <1>5, <1>7, <2>1
<1> QED BY <1>2, <1>4, <1>9, <1>10

-----------------------------------------------------------------------------
(* The inductive invariant: a well-formed conversation, the request in     *)
(* flight made of it as it stands, and answers in the cache that the       *)
(* client can go on with.                                                  *)

(* What the variables are, as far as the proofs need it.                   *)
Given ==
  /\ client \in Clients /\ params \in ParamSets /\ provider \in Providers
  /\ requests \in 0 .. MaxRequests /\ reroutes \in 0 .. MaxReroutes
  /\ reply.status \in {"none", "ok", "error"}
InFlight == upstream # Idle => requests > 0 /\ history # << >> /\ Waiting(client, history)
CacheGood ==
  /\ IsFiniteSet(cache) /\ \A d, e \in cache : d.key = e.key => d = e
  /\ \A e \in cache : Heard(client, e.answer)

Inv == Given /\ Talk(client, history) /\ Underway /\ InFlight /\ CacheGood /\ AnswersArrive

LEMMA GivenIs ==
  ASSUME Given
  PROVE  client \in Speakers /\ params \subseteq Parameters /\ Normalize(provider) \in Protocols /\ requests \in Nat
<1>1. Clients \subseteq Speakers /\ ParamSets \subseteq SUBSET Parameters
  BY ConversationAssumption DEF Speakers
<1>2. \A p \in Providers : Normalize(p) \in Protocols
  BY ConversationAssumption DEF Protocols
<1> QED BY <1>1, <1>2 DEF Given

LEMMA WaitingIs ==
  ASSUME client \in Speakers, Talk(client, history), ~ LastIs(ClientRole) PROVE Waiting(client, history)
<1> SUFFICES ASSUME Told(client, history) PROVE FALSE
  BY DEF Talk
<1>1. PICK g \in Seq(FormsOf(client)) : \E m \in FormsOf(client) : history = Append(g, m) /\ m.role = RoleOf(client)
  BY DEF Told
<1>2. PICK m \in FormsOf(client) : history = Append(g, m) /\ m.role = RoleOf(client)
  BY <1>1
<1>3. Len(g) \in Nat /\ Len(history) = Len(g) + 1 /\ history[Len(g) + 1] = m
  BY <1>2, AppendIs
<1>4. history # << >> /\ history[Len(history)] = m
  BY <1>3
<1> QED BY <1>2, <1>4 DEF LastIs, ClientRole, RoleOf

LEMMA Receiving ==
  ASSUME client \in Speakers, Talk(client, history), Waiting(client, history),
         NEW r, Receive(r), r.status = "ok" => Heard(client, r.answer)
  PROVE  Talk(client, history')
<1>1. CASE r.status = "ok" /\ r.answer # << >>
  <2>1. PICK n \in Even : r.answer \in Replies(n) /\ (client # "gemini" \/ CallsNamed(r.answer))
    BY <1>1 DEF Heard
  <2>2. history' = Append(history, Message(RoleOf(client), r.answer))
    BY <1>1 DEF Receive, ClientRole, RoleOf
  <2> QED BY <2>1, <2>2, TalkHears
<1>2. CASE ~ (r.status = "ok" /\ r.answer # << >>)
  BY <1>2 DEF Receive
<1> QED BY <1>1, <1>2

LEMMA KeptGood ==
  ASSUME CacheGood, NEW entry, Heard(client, entry.answer)
  PROVE  /\ IsFiniteSet(Kept(entry)) /\ \A d, e \in Kept(entry) : d.key = e.key => d = e
         /\ \A e \in Kept(entry) : Heard(client, e.answer)
<1>1. IsFiniteSet({c \in cache : c.key # entry.key}) /\ IsFiniteSet({c \in cache : c.key # entry.key} \cup {entry})
  <2>1. {c \in cache : c.key # entry.key} \in SUBSET cache
    OBVIOUS
  <2>2. IsFiniteSet({c \in cache : c.key # entry.key})
    BY <2>1, FS_Subset DEF CacheGood
  <2> QED BY <2>2, FS_AddElement
<1> QED BY <1>1 DEF Kept, CacheGood

LEMMA OneEntryPerKey ==
  ASSUME CacheGood PROVE Cardinality({c.key : c \in cache}) = Cardinality(cache)
<1> DEFINE K == {c.key : c \in cache}
           f == [c \in cache |-> c.key]
<1>1. f \in Bijection(cache, K)
  <2>1. f \in [cache -> K] /\ \A k \in K : \E c \in cache : f[c] = k
    OBVIOUS
  <2>2. \A c, d \in cache : f[c] = f[d] => c = d
    BY DEF CacheGood
  <2> QED BY <2>1, <2>2 DEF Bijection, Injection, Surjection, IsInjective
<1>2. ExistsBijection(cache, K)
  BY <1>1 DEF ExistsBijection
<1>3. IsFiniteSet(cache)
  BY DEF CacheGood
<1> HIDE DEF K, f
<1>4. Cardinality(K) = Cardinality(cache)
  BY <1>2, <1>3, FS_Bijection
<1> QED BY <1>4 DEF K

LEMMA StartsGood == Init => Inv
<1> SUFFICES ASSUME Init PROVE Inv
  OBVIOUS
<1>1. Given
  BY ConversationAssumption DEF Init, Given, NoReply
<1>2. Talk(client, history)
  <2>1. Names(<< >>) /\ NamedCalls(client, << >>) /\ << >> \in Seq(FormsOf(client))
    BY DEF Names, NamedCalls
  <2>2. Waiting(client, << >>)
    BY SettledEmpty DEF Waiting
  <2> QED BY <2>1, <2>2 DEF Talk, Init
<1>3. Underway /\ InFlight
  BY DEF Init, Underway, InFlight
<1>4. CacheGood
  BY FS_EmptySet DEF Init, CacheGood
<1>5. AnswersArrive
  BY DEF Init, AnswersArrive, NoReply
<1> QED BY <1>1, <1>2, <1>3, <1>4, <1>5 DEF Inv

(* What a step that leaves the panel alone keeps.                          *)
LEMMA ClientSteps ==
  ASSUME Inv, upstream = Idle, UNCHANGED << client, params, provider, upstream, reply, cache, requests, reroutes >>,
         Talk(client, history')
  PROVE  Inv'
<1>1. Given' /\ Talk(client, history)' /\ CacheGood'
  BY DEF Inv, Given, CacheGood
<1>2. Underway' /\ InFlight'
  BY DEF Underway, InFlight, Idle
<1>3. AnswersArrive'
  BY DEF Inv, AnswersArrive, Streamed
<1> QED BY <1>1, <1>2, <1>3 DEF Inv

LEMMA SayKeeps == ASSUME Inv, Say PROVE Inv'
<1>1. client \in Speakers /\ Talk(client, history) /\ requests \in Nat
  BY GivenIs DEF Inv
<1>2. PICK x \in Questions : history' = Append(history, Message("user", x))
  BY DEF Say
<1>3. Now \in Odd /\ x \in Asks(Now)
  BY <1>1, <1>2, QuestionsTyped
<1>4. history = << >> \/ (history[Len(history)].role = RoleOf(client) /\ ~ Has(history[Len(history)], "call"))
  BY DEF Say, OpenCalls, LastIs, ClientRole, RoleOf, Has
<1>5. Talk(client, history')
  BY <1>1, <1>2, <1>3, <1>4, TalkAsks
<1> QED BY <1>5, ClientSteps DEF Say

(* The results that go behind the message with the calls.                  *)
LEMMA ResultsGiven ==
  ASSUME Inv, GiveResults
  PROVE  /\ client \in Speakers /\ Talk(client, history) /\ history # << >>
         /\ \E m \in FormsOf(client) : \E rs \in Seq(FormsOf(client)) :
              /\ m = history[Len(history)] /\ m.role = RoleOf(client) /\ Has(m, "call")
              /\ Returned(client, m, rs) /\ history' = history \o rs
              /\ \A i \in 1 .. Len(rs) : /\ rs[i].role # RoleOf(client)
                                         /\ IdsIn(<< rs[i] >>, "result") \subseteq IdsIn(<< m >>, "call")
<1>1. client \in Speakers /\ Talk(client, history) /\ requests \in Nat /\ OpenCalls # << >>
  BY GivenIs DEF Inv, GiveResults
<1>2. PICK x : x = [i \in 1 .. Len(OpenCalls) |-> Result(i)]
  OBVIOUS
<1>3. PICK n \in Odd : n = Now /\ x \in Hands(n) /\ IdsOf(x) = IdsOf(OpenCalls)
  BY <1>1, <1>2, ResultsTyped
<1>4. /\ Len(OpenCalls) \in Nat /\ Len(OpenCalls) > 0
      /\ \A i \in 1 .. Len(OpenCalls) : Result(i) \in Results(n) /\ x[i] = Result(i)
  BY <1>1, <1>2, <1>3, ResultsTyped
<1>5. history # << >>
  BY <1>1, OpenCallsAre
<1>6. PICK m \in FormsOf(client) :
        /\ m = history[Len(history)] /\ m.role = RoleOf(client) /\ Has(m, "call")
        /\ IdsIn(<< m >>, "call") = IdsOf(OpenCalls)
  BY <1>1, OpenCallsAre
<1>7. \E rs \in Seq(FormsOf(client)) :
        /\ Returned(client, m, rs) /\ history' = history \o rs
        /\ \A i \in 1 .. Len(rs) : /\ rs[i].role # RoleOf(client)
                                   /\ IdsIn(<< rs[i] >>, "result") \subseteq IdsIn(<< m >>, "call")
  <2>1. ASSUME client = "openai",
               history' = history \o [i \in 1 .. Len(OpenCalls) |-> Message("tool", << Result(i) >>)]
        PROVE  \E rs \in Seq(FormsOf(client)) :
                 /\ Returned(client, m, rs) /\ history' = history \o rs
                 /\ \A i \in 1 .. Len(rs) : /\ rs[i].role # RoleOf(client)
                                            /\ IdsIn(<< rs[i] >>, "result") \subseteq IdsIn(<< m >>, "call")
    <3>1. Len(x) = Len(OpenCalls) /\ DOMAIN x = 1 .. Len(x) /\ \A i \in 1 .. Len(x) : x[i] \in Results(n)
      BY <1>2, <1>4
    <3>2. PICK rs : rs = [i \in 1 .. Len(x) |-> Message("tool", << x[i] >>)]
      OBVIOUS
    <3>3. history' = history \o rs
      BY <1>4, <2>1, <3>1, <3>2
    <3>4. Len(x) \in Nat /\ Len(x) > 0 /\ IdsIn(<< m >>, "call") = IdsOf(x)
      BY <1>3, <1>4, <1>6, <3>1
    <3>5. /\ rs \in Seq(FormsOf("openai")) /\ Returned("openai", m, rs)
          /\ \A i \in 1 .. Len(rs) : /\ rs[i].role # RoleOf("openai")
                                     /\ IdsIn(<< rs[i] >>, "result") \subseteq IdsIn(<< m >>, "call")
      BY <3>1, <3>2, <3>4, ReturnedEach
    <3> QED BY <2>1, <3>3, <3>5
  <2>2. ASSUME client # "openai", NEW y, y = x \/ (client = "anthropic" /\ y = x \o << ReminderAt(n) >>),
               history' = Append(history, Message("user", y))
        PROVE  \E rs \in Seq(FormsOf(client)) :
                 /\ Returned(client, m, rs) /\ history' = history \o rs
                 /\ \A i \in 1 .. Len(rs) : /\ rs[i].role # RoleOf(client)
                                            /\ IdsIn(<< rs[i] >>, "result") \subseteq IdsIn(<< m >>, "call")
    <3>1. PICK rs : rs = << Message("user", y) >>
      OBVIOUS
    <3>2. /\ rs \in Seq(FormsOf(client)) /\ Returned(client, m, rs)
          /\ \A i \in 1 .. Len(rs) : /\ rs[i].role # RoleOf(client)
                                     /\ IdsIn(<< rs[i] >>, "result") \subseteq IdsIn(<< m >>, "call")
      <4>1. IdsIn(<< m >>, "call") = IdsOf(x)
        BY <1>3, <1>6
      <4> QED BY <1>1, <1>3, <2>2, <3>1, <4>1, ReturnedInOne
    <3>3. history' = history \o rs
      <4>1. history \in Seq(FormsOf(client))
        BY <1>1 DEF Talk
      <4>2. Message("user", y) = rs[1] /\ rs[1] \in FormsOf(client)
        BY <3>1, <3>2
      <4> QED BY <2>2, <3>1, <4>1, <4>2, AppendIsConcat
    <3> QED BY <3>2, <3>3
  <2>3. CASE client = "openai"
    BY <2>1, <2>3 DEF GiveResults
  <2>4. CASE client # "openai" /\ history' = Append(history, Message("user", x))
    BY <2>2, <2>4
  <2>5. CASE client = "anthropic" /\ history' = Append(history, Message("user", Append(x, Said("reminder"))))
    <3>1. Said("reminder") = ReminderAt(n)
      BY <1>3 DEF Said, ReminderAt, Reminder
    <3>2. Append(x, ReminderAt(n)) = x \o << ReminderAt(n) >>
      <4>1. x \in Seq(BlockSet) /\ ReminderAt(n) \in BlockSet
        BY <1>3, ResultParts, ReminderTyped
      <4> QED BY <4>1, AppendIsConcat
    <3> QED BY <2>2, <2>5, <3>1, <3>2
  <2>6. \/ client = "openai"
        \/ client # "openai" /\ history' = Append(history, Message("user", x))
        \/ client = "anthropic" /\ history' = Append(history, Message("user", Append(x, Said("reminder"))))
    BY <1>2 DEF GiveResults
  <2> QED BY <2>3, <2>4, <2>5, <2>6
<1> QED BY <1>1, <1>5, <1>6, <1>7

LEMMA GiveResultsKeeps == ASSUME Inv, GiveResults PROVE Inv'
<1>1. PICK m \in FormsOf(client) : \E rs \in Seq(FormsOf(client)) :
        /\ m = history[Len(history)] /\ m.role = RoleOf(client) /\ Has(m, "call")
        /\ Returned(client, m, rs) /\ history' = history \o rs
        /\ \A i \in 1 .. Len(rs) : /\ rs[i].role # RoleOf(client)
                                   /\ IdsIn(<< rs[i] >>, "result") \subseteq IdsIn(<< m >>, "call")
  BY ResultsGiven
<1>2. PICK rs \in Seq(FormsOf(client)) :
        /\ m = history[Len(history)] /\ m.role = RoleOf(client) /\ Has(m, "call")
        /\ Returned(client, m, rs) /\ history' = history \o rs
        /\ \A i \in 1 .. Len(rs) : /\ rs[i].role # RoleOf(client)
                                   /\ IdsIn(<< rs[i] >>, "result") \subseteq IdsIn(<< m >>, "call")
  BY <1>1
<1>3. client \in Speakers /\ Talk(client, history) /\ history # << >>
  BY ResultsGiven
<1>4. Talk(client, history')
  BY <1>2, <1>3, TalkReturns
<1> QED BY <1>4, ClientSteps DEF GiveResults

LEMMA SendsOnly ==
  ASSUME Inv, MaySend
  PROVE  /\ client \in Speakers /\ Talk(client, history) /\ Waiting(client, history) /\ history # << >>
         /\ requests \in Nat /\ requests + 1 \in 0 .. MaxRequests /\ requests + 1 > 0
<1>1. client \in Speakers /\ Talk(client, history) /\ requests \in Nat
  BY GivenIs DEF Inv
<1>2. requests + 1 \in 0 .. MaxRequests
  BY <1>1, ConversationAssumption DEF MaySend
<1> QED BY <1>1, <1>2, WaitingIs DEF MaySend

LEMMA ServeHitKeeps == ASSUME Inv, ServeHit PROVE Inv'
<1>1. PICK hit \in Hits :
        Receive([status |-> "ok", via |-> "cache", given |-> hit.answer, answer |-> hit.answer, asked |-> hit.asked])
  BY DEF ServeHit
<1>0. PICK r : r = [status |-> "ok", via |-> "cache", given |-> hit.answer, answer |-> hit.answer, asked |-> hit.asked]
  OBVIOUS
<1>2. r.status = "ok" /\ r.via = "cache" /\ r.answer = hit.answer
  BY <1>0
<1>3. Heard(client, r.answer)
  BY <1>2 DEF Hits, Inv, CacheGood
<1>4. Talk(client, history')
  BY <1>0, <1>1, <1>2, <1>3, SendsOnly, Receiving DEF ServeHit
<1>5. reply' = r
  BY <1>0, <1>1 DEF Receive
<1>6. /\ client' = client /\ params' = params /\ provider' = provider /\ upstream' = upstream /\ upstream = Idle
      /\ cache' = cache /\ reroutes' = reroutes /\ requests' = requests + 1
  BY DEF ServeHit, MaySend
<1>7. Given'
  BY <1>2, <1>5, <1>6, SendsOnly DEF Inv, Given, ServeHit
<1>8. Underway' /\ InFlight'
  BY <1>6 DEF Underway, InFlight
<1>9. CacheGood'
  BY <1>6 DEF Inv, CacheGood
<1>10. AnswersArrive'
  BY <1>2, <1>5 DEF AnswersArrive
<1> QED BY <1>4, <1>6, <1>7, <1>8, <1>9, <1>10 DEF Inv

LEMMA SendKeeps == ASSUME Inv, Send PROVE Inv'
<1>1. /\ client' = client /\ params' = params /\ provider' = provider /\ upstream = Idle
      /\ cache' = cache /\ reroutes' = reroutes /\ requests' = requests + 1
  BY DEF Send, MaySend
<1>2. /\ client \in Speakers /\ Talk(client, history) /\ Waiting(client, history) /\ history # << >>
      /\ requests + 1 \in 0 .. MaxRequests /\ requests + 1 > 0 /\ Normalize(provider) \in Protocols
  BY SendsOnly, GivenIs DEF Send, Inv
<1>3. CacheGood'
  BY <1>1 DEF Inv, CacheGood
<1>4. ASSUME Receive([NoReply EXCEPT !.status = "error"]), UNCHANGED upstream
      PROVE  Inv'
  <2>1. PICK r : r = [NoReply EXCEPT !.status = "error"] /\ r.status = "error"
    <3>1. [NoReply EXCEPT !.status = "error"].status = "error"
      BY DEF NoReply
    <3> QED BY <3>1
  <2>2. reply' = r /\ history' = history
    BY <1>4, <2>1 DEF Receive
  <2>3. Given'
    BY <1>1, <1>2, <2>1, <2>2 DEF Inv, Given
  <2>4. Underway' /\ InFlight'
    BY <1>1, <1>4 DEF Underway, InFlight, Idle
  <2>5. AnswersArrive'
    BY <2>1, <2>2 DEF AnswersArrive
  <2> QED BY <1>1, <1>2, <1>3, <2>2, <2>3, <2>4, <2>5 DEF Inv
<1>5. ASSUME upstream' = [to |-> Normalize(provider), body |-> TranslateRequest(client, provider, ClientBody)],
             UNCHANGED << reply, history >>
      PROVE  Inv'
  <2>1. Given'
    BY <1>1, <1>2, <1>5 DEF Inv, Given
  <2>2. ClientBody' = ClientBody
    BY <1>1, <1>5 DEF ClientBody
  <2>3. Underway'
    <3>1. /\ upstream'.to = Normalize(provider') /\ upstream'.to \in Protocols
          /\ upstream'.body = TranslateRequest(client', provider', ClientBody')
      BY <1>1, <1>2, <1>5, <2>2
    <3> QED BY <3>1 DEF Underway
  <2>4. InFlight'
    BY <1>1, <1>2, <1>5 DEF InFlight
  <2>5. AnswersArrive'
    BY <1>1, <1>5 DEF Inv, AnswersArrive, Streamed
  <2> QED BY <1>1, <1>2, <1>3, <1>5, <2>1, <2>3, <2>4, <2>5 DEF Inv
<1> QED BY <1>4, <1>5 DEF Send

LEMMA AnswerKeeps == ASSUME Inv, Answer PROVE Inv'
<1>1. /\ client' = client /\ params' = params /\ provider' = provider /\ upstream # Idle /\ upstream' = Idle
      /\ reroutes' = reroutes /\ requests' = requests
  BY DEF Answer
<1>2. /\ client \in Speakers /\ Talk(client, history) /\ Waiting(client, history) /\ upstream.to \in Protocols
      /\ requests \in Nat /\ requests > 0
  BY <1>1, GivenIs DEF Inv, Underway, InFlight
<1>3. PICK given, answer, read :
        /\ given \in Answers
        /\ answer = IF Streamed THEN given
                    ELSE TranslateResponse(upstream.to, client, [Empty EXCEPT !.answer = given]).answer
        /\ read = IF ~ Streamed \/ upstream.to = "openai" THEN answer ELSE << >>
        /\ LET r == [status |-> "ok", via |-> upstream.to, given |-> given, answer |-> read, asked |-> history]
           IN  IF Streamed /\ client # "openai"
               THEN Receive([r EXCEPT !.status = "error", !.answer = << >>]) /\ UNCHANGED cache
               ELSE Receive(r) /\ cache' = Kept([key |-> Prompt, answer |-> read, asked |-> history])
  BY DEF Answer
<1>0. PICK r : r = [status |-> "ok", via |-> upstream.to, given |-> given, answer |-> read, asked |-> history]
  OBVIOUS
<1>4. r.status = "ok" /\ r.via = upstream.to /\ r.given = given /\ r.answer = read
  BY <1>0
<1>5. ASSUME Streamed, client # "openai" PROVE Talk(client, history') /\ Given' /\ CacheGood' /\ AnswersArrive'
  <2>0. PICK e : e = [r EXCEPT !.status = "error", !.answer = << >>]
    OBVIOUS
  <2>1. e.status = "error"
    BY <1>0, <2>0
  <2>2. reply' = e /\ history' = history /\ cache' = cache
    BY <1>0, <1>3, <1>5, <2>0, <2>1 DEF Receive
  <2>3. Given' /\ CacheGood'
    BY <1>1, <2>1, <2>2 DEF Inv, Given, CacheGood
  <2>4. AnswersArrive'
    BY <2>1, <2>2 DEF AnswersArrive
  <2> QED BY <1>2, <2>2, <2>3, <2>4
<1>6. ASSUME ~ (Streamed /\ client # "openai")
      PROVE  Talk(client, history') /\ Given' /\ CacheGood' /\ AnswersArrive'
  <2>1. /\ Heard(client, read)
        /\ client = upstream.to \/ (client = "openai" /\ ~ Streamed) => read = given
    BY <1>2, <1>3, <1>6, ReadIs
  <2>2. Receive(r) /\ reply' = r
    BY <1>0, <1>3, <1>6 DEF Receive
  <2>3. Talk(client, history')
    BY <1>2, <1>4, <2>1, <2>2, Receiving
  <2>4. Given'
    BY <1>1, <1>4, <2>2 DEF Inv, Given
  <2>5. CacheGood'
    <3>0. PICK entry : entry = [key |-> Prompt, answer |-> read, asked |-> history]
      OBVIOUS
    <3>1. entry.answer = read
      BY <3>0
    <3>2. cache' = Kept(entry)
      BY <1>3, <1>6, <3>0
    <3>3. /\ IsFiniteSet(cache') /\ \A d, e \in cache' : d.key = e.key => d = e
          /\ \A e \in cache' : Heard(client, e.answer)
      BY <2>1, <3>1, <3>2, KeptGood DEF Inv
    <3> QED BY <1>1, <3>3 DEF CacheGood
  <2>6. AnswersArrive'
    <3>1. Streamed' <=> Streamed
      BY <1>1 DEF Streamed
    <3>2. client' = reply'.via \/ (client' = "openai" /\ ~ Streamed') => reply'.answer = reply'.given
      BY <1>1, <1>4, <2>1, <2>2, <3>1
    <3> QED BY <3>2 DEF AnswersArrive
  <2> QED BY <2>3, <2>4, <2>5, <2>6
<1>7. Underway' /\ InFlight'
  BY <1>1 DEF Underway, InFlight, Idle
<1> QED BY <1>1, <1>5, <1>6, <1>7 DEF Inv

LEMMA StepKeeps == ASSUME Inv, [Next]_vars PROVE Inv'
<1>1. CASE Say
  BY <1>1, SayKeeps
<1>2. CASE GiveResults
  BY <1>2, GiveResultsKeeps
<1>3. CASE ServeHit
  BY <1>3, ServeHitKeeps
<1>4. CASE Send
  BY <1>4, SendKeeps
<1>5. CASE Answer
  BY <1>5, AnswerKeeps
<1>6. CASE Expire
  <2>1. Given' /\ Talk(client, history)' /\ AnswersArrive'
    BY <1>6 DEF Expire, Inv, Given, AnswersArrive, Streamed
  <2>2. Underway' /\ InFlight'
    BY <1>6 DEF Expire, Underway, InFlight, Idle
  <2>3. CacheGood'
    BY <1>6, FS_EmptySet DEF Expire, CacheGood
  <2> QED BY <2>1, <2>2, <2>3 DEF Inv
<1>7. CASE Reroute
  <2>1. Given'
    BY <1>7, ConversationAssumption DEF Reroute, Inv, Given
  <2>2. Talk(client, history)' /\ AnswersArrive' /\ CacheGood'
    BY <1>7 DEF Reroute, Inv, AnswersArrive, Streamed, CacheGood
  <2>3. Underway' /\ InFlight'
    BY <1>7 DEF Reroute, Underway, InFlight, Idle
  <2> QED BY <2>1, <2>2, <2>3 DEF Inv
<1>8. CASE UNCHANGED vars
  <2>1. Given' /\ Talk(client, history)' /\ AnswersArrive' /\ CacheGood'
    BY <1>8 DEF vars, Inv, Given, AnswersArrive, Streamed, CacheGood
  <2>2. Underway' /\ InFlight'
    BY <1>8 DEF vars, Inv, Underway, InFlight, ClientBody
  <2> QED BY <2>1, <2>2 DEF Inv
<1> QED BY <1>1, <1>2, <1>3, <1>4, <1>5, <1>6, <1>7, <1>8 DEF Next

LEMMA InvHolds == Spec => []Inv
<1>1. Inv /\ [Next]_vars => Inv'
  BY StepKeeps
<1> QED BY <1>1, StartsGood, PTL DEF Spec

LEMMA InvGives == ASSUME Inv PROVE Held /\ Underway /\ Names(history) /\ NamedCalls(client, history)
BY GivenIs DEF Inv, Held, Talk

LEMMA InvTyped == ASSUME Inv PROVE TypeOK
<1>1. upstream # Idle => upstream.to \in DOMAIN RolesOf /\ WellFormed(upstream.to, upstream.body)
  BY InvGives, RequestWellFormed
<1>2. Cardinality({c.key : c \in cache}) = Cardinality(cache)
  BY OneEntryPerKey DEF Inv
<1> QED BY <1>1, <1>2 DEF TypeOK, Inv, Given

LEMMA InvAnswered == ASSUME Inv PROVE CallsAnsweredAtOnce
<1>1. CASE upstream = Idle
  BY <1>1 DEF CallsAnsweredAtOnce
<1>2. CASE upstream # Idle
  <2>1. Settled(client, history)
    BY <1>2 DEF Inv, InFlight, Waiting
  <2> QED BY <2>1, InvGives, AnswersHold
<1> QED BY <1>1, <1>2

-----------------------------------------------------------------------------
(* The variables keep their types, the cache holds one entry for a key,    *)
(* and what goes upstream is well formed in the provider's protocol: its   *)
(* roles, the places of calls and results, no message without content      *)
(* (translate_request, translate.py 124-690).                              *)
THEOREM TypesHold == Spec => []TypeOK
<1>1. Inv => TypeOK
  BY InvTyped
<1> QED BY <1>1, InvHolds, PTL

(* The provider gets the whole conversation of the client, in order and    *)
(* from the right side, through one conversion or two; only the texts in   *)
(* the same Anthropic message as results are lost (translate.py 124-690).  *)
THEOREM RequestsArrive == Spec => []RequestArrives
<1>1. Inv => RequestArrives
  BY InvGives, RequestHolds
<1> QED BY <1>1, InvHolds, PTL

(* Every result in a request names a call of an earlier message, unless    *)
(* Gemini takes over calls that had ids (translate.py 310-330).            *)
THEOREM ResultsFollowCalls == Spec => []ResultsNameCalls
<1>1. Inv => ResultsNameCalls
  BY InvGives, NamesHold
<1> QED BY <1>1, InvHolds, PTL

(* The results of all calls of a message stand directly behind it, unless  *)
(* a Gemini content was taken apart (translate.py 417-455).                *)
THEOREM CallsAreAnswered == Spec => []CallsAnsweredAtOnce
<1>1. Inv => CallsAnsweredAtOnce
  BY InvAnswered
<1> QED BY <1>1, InvHolds, PTL

(* A client that reads the form of its answer gets all of it               *)
(* (translate_response, dispatch.py 263-270 and 494-496).                  *)
THEOREM AnswersReachClients == Spec => []AnswersArrive
<1>1. Inv => AnswersArrive
  BY DEF Inv
<1> QED BY <1>1, InvHolds, PTL

-----------------------------------------------------------------------------
(* The history only grows, so an answer in the cache was given to a        *)
(* beginning of it; and whoever goes on shows the cache something new.     *)

LEMMA ReceivingGrows ==
  ASSUME client \in Speakers, history \in Seq(FormsOf(client)),
         NEW r, Receive(r), r.status = "ok" => Heard(client, r.answer)
  PROVE  \E t \in Seq(FormsOf(client)) : history' = history \o t
<1>1. CASE r.status = "ok" /\ r.answer # << >>
  <2>1. PICK n \in Even : r.answer \in Replies(n)
    BY <1>1 DEF Heard
  <2>2. PICK m \in FormsOf(client) : m = Message(RoleOf(client), r.answer)
    BY <2>1, FormsHave
  <2>3. history' = Append(history, m)
    BY <1>1, <2>2 DEF Receive, ClientRole, RoleOf
  <2>4. Append(history, m) = history \o << m >> /\ << m >> \in Seq(FormsOf(client))
    BY AppendIs
  <2> QED BY <2>3, <2>4
<1>2. CASE ~ (r.status = "ok" /\ r.answer # << >>)
  <2>1. history' = history
    BY <1>2 DEF Receive
  <2>2. history \o << >> = history /\ << >> \in Seq(FormsOf(client))
    BY ConcatEmptySeq
  <2> QED BY <2>1, <2>2
<1> QED BY <1>1, <1>2

LEMMA AnswerGrows == ASSUME Inv, Answer PROVE \E t \in Seq(FormsOf(client)) : history' = history \o t
<1>1. /\ client \in Speakers /\ history \in Seq(FormsOf(client)) /\ upstream.to \in Protocols
      /\ requests \in Nat /\ requests > 0
  BY GivenIs DEF Answer, Inv, Talk, Underway, InFlight
<1>2. PICK given, answer, read :
        /\ given \in Answers
        /\ answer = IF Streamed THEN given
                    ELSE TranslateResponse(upstream.to, client, [Empty EXCEPT !.answer = given]).answer
        /\ read = IF ~ Streamed \/ upstream.to = "openai" THEN answer ELSE << >>
        /\ LET r == [status |-> "ok", via |-> upstream.to, given |-> given, answer |-> read, asked |-> history]
           IN  IF Streamed /\ client # "openai"
               THEN Receive([r EXCEPT !.status = "error", !.answer = << >>])
               ELSE Receive(r)
  BY DEF Answer
<1>3. PICK r : r = [status |-> "ok", via |-> upstream.to, given |-> given, answer |-> read, asked |-> history]
  OBVIOUS
<1>4. CASE Streamed /\ client # "openai"
  <2>1. PICK e : e = [r EXCEPT !.status = "error", !.answer = << >>]
    OBVIOUS
  <2>2. e.status = "error"
    BY <1>3, <2>1
  <2> QED BY <1>1, <1>2, <1>3, <1>4, <2>1, <2>2, ReceivingGrows
<1>5. CASE ~ (Streamed /\ client # "openai")
  <2>1. Heard(client, read)
    BY <1>1, <1>2, <1>5, ReadIs
  <2>2. r.answer = read
    BY <1>3
  <2> QED BY <1>1, <1>2, <1>3, <1>5, <2>1, <2>2, ReceivingGrows
<1> QED BY <1>4, <1>5

(* The prompt of a history, and the part of it that the key holds.         *)
ShownFrom(h) == FlatMap(SystemMessage(System) \o h, ShownOf)
Cut(s) == SubSeq(s, 1, IF Len(s) < PromptLimit THEN Len(s) ELSE PromptLimit)

(* An entry that was made from a beginning of the history.                 *)
Begins(e, h) ==
  /\ \E t \in Seq(OpenAIForms) : e.asked \in Seq(OpenAIForms) /\ h = e.asked \o t
  /\ e.key = Cut(ShownFrom(e.asked))
Owns == client = "openai" => \A e \in cache : Begins(e, history)

LEMMA BeginsGrows ==
  ASSUME NEW h \in Seq(OpenAIForms), NEW t \in Seq(OpenAIForms), NEW e, Begins(e, h) PROVE Begins(e, h \o t)
<1>1. PICK s \in Seq(OpenAIForms) : e.asked \in Seq(OpenAIForms) /\ h = e.asked \o s
  BY DEF Begins
<1>2. (e.asked \o s) \o t = e.asked \o (s \o t) /\ s \o t \in Seq(OpenAIForms)
  <2>1. PICK a \in Seq(OpenAIForms) : a = e.asked
    BY <1>1
  <2>2. (a \o s) \o t = a \o (s \o t)
    BY ConcatAssociative
  <2> QED BY <2>1, <2>2, ConcatProperties
<1> QED BY <1>1, <1>2 DEF Begins

LEMMA PromptIs == ASSUME client = "openai" PROVE Prompt = Cut(ShownFrom(history)) /\ Shown = ShownFrom(history)
<1>1. ClientBody.messages = SystemMessage(System) \o history
  BY DEF ClientBody, Empty
<1> QED BY <1>1 DEF Prompt, Cut, Shown, ShownFrom

LEMMA OwnsGrows ==
  ASSUME Inv, Owns, client' = client, NEW t \in Seq(FormsOf(client)), history' = history \o t,
         \A e \in cache' : e \in cache \/ (e.asked = history /\ e.key = Prompt)
  PROVE  Owns'
<1> SUFFICES ASSUME client = "openai", NEW e \in cache' PROVE Begins(e, history')
  BY DEF Owns
<1>1. history \in Seq(OpenAIForms) /\ t \in Seq(OpenAIForms)
  BY DEF Inv, Talk, FormsOf
<1>2. CASE e \in cache
  BY <1>1, <1>2, BeginsGrows DEF Owns
<1>3. CASE e.asked = history /\ e.key = Prompt
  BY <1>1, <1>3, PromptIs DEF Begins
<1> QED BY <1>2, <1>3

LEMMA OwnsKept == ASSUME Inv, Owns, [Next]_vars PROVE Owns'
<1>0. client \in Speakers /\ history \in Seq(FormsOf(client)) /\ client' = client
  BY GivenIs DEF Inv, Talk, Next, vars, Say, GiveResults, ServeHit, Send, Answer, Expire, Reroute
<1>1. CASE Say
  <2>1. PICK x \in Questions : history' = Append(history, Message("user", x)) /\ cache' = cache
    BY <1>1 DEF Say
  <2>2. requests \in Nat
    BY GivenIs DEF Inv
  <2>3. PICK m \in FormsOf(client) : m = Message("user", x)
    BY <1>0, <2>2, QuestionsTyped, FormsHave
  <2>4. Append(history, m) = history \o << m >> /\ << m >> \in Seq(FormsOf(client))
    BY <1>0, AppendIs
  <2> QED BY <1>0, <2>1, <2>3, <2>4, OwnsGrows
<1>2. CASE GiveResults
  <2>1. PICK t \in Seq(FormsOf(client)) : history' = history \o t
    BY <1>2, ResultsGiven
  <2>2. cache' = cache
    BY <1>2 DEF GiveResults
  <2> QED BY <1>0, <2>1, <2>2, OwnsGrows
<1>3. CASE ServeHit
  <2>1. PICK hit \in Hits :
          Receive([status |-> "ok", via |-> "cache", given |-> hit.answer, answer |-> hit.answer, asked |-> hit.asked])
    BY <1>3 DEF ServeHit
  <2>2. PICK r : r = [status |-> "ok", via |-> "cache", given |-> hit.answer, answer |-> hit.answer, asked |-> hit.asked]
    OBVIOUS
  <2>3. Receive(r) /\ Heard(client, r.answer)
    BY <2>1, <2>2 DEF Hits, Inv, CacheGood
  <2>4. PICK t \in Seq(FormsOf(client)) : history' = history \o t
    BY <1>0, <2>3, ReceivingGrows
  <2>5. cache' = cache
    BY <1>3 DEF ServeHit
  <2> QED BY <1>0, <2>4, <2>5, OwnsGrows
<1>4. ASSUME history' = history, cache' \subseteq cache PROVE Owns'
  <2>1. history \o << >> = history /\ << >> \in Seq(FormsOf(client))
    BY <1>0, ConcatEmptySeq
  <2> QED BY <1>0, <1>4, <2>1, OwnsGrows
<1>5. CASE Send
  <2>1. [NoReply EXCEPT !.status = "error"].status = "error"
    BY DEF NoReply
  <2> QED BY <1>4, <1>5, <2>1 DEF Send, Receive
<1>6. CASE Answer
  <2>1. PICK t \in Seq(FormsOf(client)) : history' = history \o t
    BY <1>0, <1>6, AnswerGrows
  <2>2. \A e \in cache' : e \in cache \/ (e.asked = history /\ e.key = Prompt)
    BY <1>6 DEF Answer, Kept
  <2> QED BY <1>0, <2>1, <2>2, OwnsGrows
<1>7. CASE Expire \/ Reroute \/ UNCHANGED vars
  BY <1>4, <1>7 DEF Expire, Reroute, vars
<1> QED BY <1>1, <1>2, <1>3, <1>5, <1>6, <1>7 DEF Next

(* ShownOf, message by message.                                            *)
ShownForms == OpenAIForms \cup {SystemFor("openai")}
ShownFn == [m \in ShownForms |-> ShownOf(m)]

LEMMA ShownTyped ==
  /\ \A m \in OpenAIForms : ShownOf(m) \in Seq(Atom) /\ (m.role # "assistant" => ShownOf(m) # << >>)
  /\ ShownOf(SystemFor("openai")) \in Seq(Atom)
<1>1. ASSUME NEW m \in OpenAIForms PROVE ShownOf(m) \in Seq(Atom) /\ (m.role # "assistant" => ShownOf(m) # << >>)
  <2>1. ASSUME NEW n, m.content \in Asks(n), m.role = "user" PROVE ShownOf(m) \in Seq(Atom) /\ ShownOf(m) # << >>
    <3>1. ShownOf(m) = TextOf(m.content)
      BY <2>1 DEF ShownOf
    <3>2. m.content \in Seq(BlockSet)
      BY <2>1, AskParts
    <3>3. CASE \E t \in Texts(n) : m.content = << t >>
      <4>1. PICK t \in Texts(n) : m.content = << t >>
        BY <3>3
      <4>2. t \in BlockSet /\ t.kind = "text" /\ t.of # << >>
        BY DEF Texts, Piece
      <4>3. TextOf(<< t >>) # << >>
        BY <4>2, TextOne
      <4> QED BY <3>1, <3>2, <4>1, <4>3, TextTyped
    <3>4. CASE \E t \in Texts(n), i \in Images(n) : m.content = << t, i >>
      <4>1. PICK t \in Texts(n), i \in Images(n) : m.content = << t, i >>
        BY <3>4
      <4>2. t \in BlockSet /\ t.kind = "text" /\ t.of # << >> /\ i \in BlockSet /\ i.kind # "text"
        BY DEF Texts, Images, Piece
      <4>3. TextOf(<< t, i >>) # << >>
        BY <4>2, TextTwo
      <4> QED BY <3>1, <3>2, <4>1, <4>3, TextTyped
    <3> QED BY <2>1, <3>3, <3>4 DEF Asks
  <2>2. ASSUME NEW n, m.content \in Replies(n), m.role = "assistant" PROVE ShownOf(m) \in Seq(Atom)
    BY <2>2, ReplyParts, TextTyped DEF ShownOf
  <2>3. ASSUME NEW n, NEW r \in Results(n), m.content = << r >>, m.role = "tool"
        PROVE  ShownOf(m) \in Seq(Atom) /\ ShownOf(m) # << >>
    <3>1. ShownOf(m) = r.of
      BY <2>3 DEF ShownOf
    <3> QED BY <3>1 DEF Results, BlockSet
  <2> QED BY <2>1, <2>2, <2>3, OpenAICases
<1>2. ShownOf(SystemFor("openai")) \in Seq(Atom)
  <2>1. SystemFor("openai").role # "tool" /\ SystemFor("openai").content \in Seq(BlockSet)
    BY SystemIs DEF MessageSet
  <2> QED BY <2>1, TextTyped DEF ShownOf
<1> QED BY <1>1, <1>2

LEMMA ShownFnTyped == Gives(ShownFn, ShownForms, Atom)
BY ShownTyped DEF Gives, ShownFn, ShownForms

LEMMA ShownFromIs ==
  ASSUME NEW h \in Seq(OpenAIForms)
  PROVE  \E u \in Seq(ShownForms) : u = << SystemFor("openai") >> /\ ShownFrom(h) = Mapped(u \o h, ShownFn)
<1>1. PICK u \in Seq(ShownForms) : u = << SystemFor("openai") >>
  BY Single DEF ShownForms
<1>2. SystemMessage(System) = u
  <2>1. SystemOf("openai") = System
    BY DEF SystemOf
  <2> QED BY <1>1, <2>1, SystemIs
<1>3. h \in Seq(ShownForms)
  <2>1. OpenAIForms \subseteq ShownForms
    BY DEF ShownForms
  <2> QED BY <2>1, SeqMonotonic
<1>4. PICK w \in Seq(ShownForms) : w = u \o h
  BY <1>3, ConcatProperties
<1>5. [i \in 1 .. Len(w) |-> ShownOf(w[i])] = [i \in 1 .. Len(w) |-> ShownFn[w[i]]]
  BY ElementOfSeq DEF ShownFn
<1>6. FlatMap(w, ShownOf) = Mapped(w, ShownFn)
  BY <1>5 DEF FlatMap, Mapped
<1> QED BY <1>1, <1>2, <1>4, <1>6 DEF ShownFrom

LEMMA ShownGrows ==
  ASSUME NEW h \in Seq(OpenAIForms), NEW t \in Seq(OpenAIForms)
  PROVE  /\ ShownFrom(h \o t) = ShownFrom(h) \o Mapped(t, ShownFn)
         /\ ShownFrom(h) \in Seq(Atom) /\ Mapped(t, ShownFn) \in Seq(Atom)
<1>1. OpenAIForms \subseteq ShownForms
  BY DEF ShownForms
<1>2. h \in Seq(ShownForms) /\ t \in Seq(ShownForms) /\ h \o t \in Seq(OpenAIForms)
  BY <1>1, SeqMonotonic, ConcatProperties
<1>3. PICK u \in Seq(ShownForms) : u = << SystemFor("openai") >> /\ ShownFrom(h) = Mapped(u \o h, ShownFn)
  BY ShownFromIs
<1>4. ShownFrom(h \o t) = Mapped(u \o (h \o t), ShownFn)
  BY <1>2, <1>3, ShownFromIs
<1>5. PICK w \in Seq(ShownForms) : w = u \o h
  BY <1>2, ConcatProperties
<1>6. u \o (h \o t) = w \o t
  BY <1>2, <1>5, ConcatAssociative
<1>7. Mapped(w \o t, ShownFn) = Mapped(w, ShownFn) \o Mapped(t, ShownFn)
  BY <1>2, ShownFnTyped, MappedConcat
<1>8. Mapped(w, ShownFn) \in Seq(Atom) /\ Mapped(t, ShownFn) \in Seq(Atom)
  BY <1>2, ShownFnTyped, MappedTyped
<1> QED BY <1>3, <1>4, <1>5, <1>6, <1>7, <1>8

LEMMA ShownOfLast ==
  ASSUME NEW t \in Seq(OpenAIForms), t # << >>, t[Len(t)].role # "assistant" PROVE Mapped(t, ShownFn) # << >>
<1>1. OpenAIForms \subseteq ShownForms
  BY DEF ShownForms
<1>2. PICK p \in Nat : p = Len(t) /\ p > 0
  BY LenProperties, EmptySeq
<1>3. PICK g \in Seq(OpenAIForms) : Len(g) = p - 1 /\ \A i \in 1 .. p - 1 : g[i] = t[i]
  <2>1. p - 1 \in Nat /\ p - 1 <= Len(t) /\ \A i \in 1 .. p - 1 : i \in 1 .. Len(t)
    BY <1>2
  <2>2. [i \in 1 .. p - 1 |-> t[i]] \in Seq(OpenAIForms)
    BY <2>1, ElementOfSeq
  <2>3. PICK a : a = [i \in 1 .. p - 1 |-> t[i]]
    OBVIOUS
  <2>4. a \in Seq(OpenAIForms) /\ Len(a) = p - 1 /\ \A i \in 1 .. p - 1 : a[i] = t[i]
    BY <2>1, <2>2, <2>3
  <2> QED BY <2>4
<1>4. PICK m \in OpenAIForms : m = t[p] /\ m.role # "assistant"
  BY <1>2, LastTyped
<1>5. PICK v \in Seq(OpenAIForms) : v = << m >>
  BY Single
<1>6. t = g \o v
  <2>1. Append(g, m) = g \o v
    BY <1>5, AppendIs
  <2>2. /\ Len(Append(g, m)) = p /\ Append(g, m)[p] = m /\ Append(g, m) \in Seq(OpenAIForms)
        /\ \A i \in 1 .. p - 1 : Append(g, m)[i] = g[i]
    BY <1>2, <1>3, AppendIs
  <2>3. \A i \in 1 .. p : i = p \/ i \in 1 .. p - 1
    OBVIOUS
  <2>4. PICK a \in Seq(OpenAIForms) : a = Append(g, m)
    BY <2>2
  <2>5. Len(a) = Len(t) /\ \A i \in 1 .. Len(a) : a[i] = t[i]
    BY <1>2, <1>3, <1>4, <2>2, <2>3, <2>4
  <2>6. a = t
    BY <2>5, SeqEqual
  <2> QED BY <2>1, <2>4, <2>6
<1>7. g \in Seq(ShownForms) /\ v \in Seq(ShownForms)
  BY <1>1, SeqMonotonic
<1>8. Mapped(g \o v, ShownFn) = Mapped(g, ShownFn) \o Mapped(v, ShownFn)
  BY <1>7, ShownFnTyped, MappedConcat
<1>9. Mapped(v, ShownFn) = ShownOf(m)
  <2>1. m \in ShownForms
    BY <1>1
  <2> QED BY <1>5, <2>1, ShownFnTyped, MappedOne DEF ShownFn
<1>10. Mapped(g, ShownFn) \in Seq(Atom) /\ ShownOf(m) \in Seq(Atom) /\ ShownOf(m) # << >>
  BY <1>4, <1>7, ShownFnTyped, MappedTyped, ShownTyped
<1> QED BY <1>6, <1>8, <1>9, <1>10, ConcatEqualIffEmpty

LEMMA CutLength ==
  ASSUME NEW s \in Seq(Atom)
  PROVE  Len(Cut(s)) <= Len(s) /\ (Len(s) <= PromptLimit => Len(Cut(s)) = Len(s))
<1>1. Len(s) \in Nat /\ PromptLimit \in Nat
  BY ConversationAssumption
<1>2. PICK n \in Nat : n = IF Len(s) < PromptLimit THEN Len(s) ELSE PromptLimit
  BY <1>1
<1>3. n <= Len(s) /\ (Len(s) <= PromptLimit => n = Len(s))
  BY <1>1, <1>2
<1>4. \A i \in 1 .. n : s[i] \in Atom
  <2>1. \A i \in 1 .. n : i \in 1 .. Len(s)
    BY <1>1, <1>3
  <2> QED BY <2>1, ElementOfSeq
<1>5. Len(SubSeq(s, 1, n)) = IF 1 <= n THEN n - 1 + 1 ELSE 0
  BY <1>4, SubSeqProperties
<1>6. Len(Cut(s)) = n
  BY <1>2, <1>5 DEF Cut
<1> QED BY <1>3, <1>6

(* An entry made from a beginning that lacks the last message, which is    *)
(* the client's and shows something, has another key.                      *)
LEMMA KeysDiffer ==
  ASSUME NEW a \in Seq(OpenAIForms), NEW t \in Seq(OpenAIForms), t # << >>, t[Len(t)].role # "assistant",
         Len(ShownFrom(a \o t)) <= PromptLimit
  PROVE  Cut(ShownFrom(a \o t)) # Cut(ShownFrom(a))
<1>1. PICK s \in Seq(Atom) : s = ShownFrom(a)
  BY ShownGrows
<1>2. PICK x \in Seq(Atom) : x = Mapped(t, ShownFn)
  BY ShownGrows
<1>3. x # << >>
  BY <1>2, ShownOfLast
<1>4. PICK w \in Seq(Atom) : w = s \o x /\ w = ShownFrom(a \o t)
  BY <1>1, <1>2, ShownGrows, ConcatProperties
<1>5. Len(w) = Len(s) + Len(x)
  BY <1>4, ConcatProperties
<1>6. Len(s) \in Nat /\ Len(x) \in Nat /\ Len(x) # 0
  BY <1>3, LenProperties, EmptySeq
<1>7. Len(Cut(s)) <= Len(s) /\ Len(Cut(w)) = Len(w)
  BY <1>4, CutLength
<1>8. CASE Cut(w) = Cut(s)
  <2>1. PICK k : k = Len(Cut(w)) /\ k = Len(Cut(s))
    BY <1>8
  <2> QED BY <1>5, <1>6, <1>7, <2>1
<1> QED BY <1>1, <1>4, <1>8

LEMMA HitIsOwn ==
  ASSUME Inv, Owns, ServeHit, client = "openai", Len(Shown) <= PromptLimit PROVE reply'.asked = history
<1>1. PICK hit \in Hits :
        Receive([status |-> "ok", via |-> "cache", given |-> hit.answer, answer |-> hit.answer, asked |-> hit.asked])
  BY DEF ServeHit
<1>2. reply'.asked = hit.asked
  BY <1>1 DEF Receive
<1>3. hit \in cache /\ hit.key = Prompt
  BY DEF Hits
<1>4. hit.key = Cut(ShownFrom(history)) /\ Shown = ShownFrom(history)
  BY <1>3, PromptIs
<1>5. Begins(hit, history)
  BY <1>3 DEF Owns
<1>6. PICK t \in Seq(OpenAIForms) : hit.asked \in Seq(OpenAIForms) /\ history = hit.asked \o t
  BY <1>5 DEF Begins
<1>7. PICK a \in Seq(OpenAIForms) : a = hit.asked
  BY <1>6
<1>8. Cut(ShownFrom(a \o t)) = Cut(ShownFrom(a)) /\ Len(ShownFrom(a \o t)) <= PromptLimit
  BY <1>4, <1>5, <1>6, <1>7 DEF Begins
<1>9. CASE t = << >>
  BY <1>2, <1>6, <1>7, <1>9, ConcatEmptySeq
<1>10. CASE t # << >>
  <2>1. history[Len(history)] = t[Len(t)]
    <3>1. PICK h \in Seq(OpenAIForms) : h = a \o t /\ h = history
      BY <1>6, <1>7, ConcatProperties
    <3>2. /\ Len(h) = Len(a) + Len(t) /\ Len(a) \in Nat /\ Len(t) \in Nat /\ Len(t) # 0
          /\ \A i \in 1 .. Len(a) + Len(t) : h[i] = IF i <= Len(a) THEN a[i] ELSE t[i - Len(a)]
      BY ZenonT(40), <1>10, <3>1, ConcatProperties, LenProperties, EmptySeq
    <3>3. PICK p \in Nat, q \in Nat : p = Len(a) /\ q = Len(t) /\ q # 0
      BY <3>2
    <3>4. h[p + q] = IF p + q <= p THEN a[p + q] ELSE t[p + q - p]
      BY <3>2, <3>3
    <3>5. ~ (p + q <= p) /\ p + q - p = q
      BY <3>3
    <3>6. h[p + q] = t[q]
      BY <3>4, <3>5
    <3> QED BY <3>1, <3>2, <3>3, <3>6
  <2>2. history # << >> /\ ~ LastIs(ClientRole)
    BY DEF ServeHit, MaySend
  <2>3. t[Len(t)].role # "assistant"
    BY <2>1, <2>2 DEF LastIs, ClientRole
  <2> QED BY <1>8, <1>10, <2>3, KeysDiffer
<1> QED BY <1>9, <1>10

(* A hit of an OpenAI client whose conversation fits the key was made from *)
(* the very history that asks (cache.py 44-87): every entry is of a        *)
(* beginning of the history, the client's last message is part of the key, *)
(* and so no shorter beginning has the same key.  The theorem needs no     *)
(* bound on the conversation, and images do no harm as long as a client    *)
(* says some text with them.                                               *)
THEOREM HitsAreOwn == Spec => AnswersOwnHistory
<1>1. Init => Owns
  BY DEF Init, Owns
<1>2. Inv /\ Owns /\ [Next]_vars => Owns'
  BY OwnsKept
<1>3. Inv /\ Owns /\ [Next]_vars =>
        [(ServeHit /\ client = "openai" /\ PlainText /\ Len(Shown) <= PromptLimit) => reply'.asked = history]_vars
  BY HitIsOwn
<1> QED BY <1>1, <1>2, <1>3, InvHolds, PTL DEF Spec, AnswersOwnHistory

=============================================================================
