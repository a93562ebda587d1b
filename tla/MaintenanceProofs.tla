------------------------- MODULE MaintenanceProofs --------------------------
(***************************************************************************)
(* Proofs about Maintenance: its types, and that however the jobs overlap  *)
(* a model is deactivated only when its row has earned it, is never        *)
(* reactivated, and loses a manual price only to an override or to a job   *)
(* that read the row before.                                               *)
(*                                                                         *)
(* The marks of a row and of every copy of it are backed by what has been  *)
(* observed of that row.  A copy outlives its row, and the model may get a *)
(* new row: what is said of a copy holds as long as the row it was made of *)
(* is there, and no new row has the id of an old one.                      *)
(***************************************************************************)
EXTENDS Maintenance, TLAPS

(* The failures and the mark that w claims of m have been observed.        *)
Backed(w, m) ==
  /\ Count(w.meta) <= failures[m]
  /\ w.meta.missing => m \in unlisted

RowOK(m) == row[m] # Nothing => row[m].id <= inserts /\ Backed(row[m], m)

(* A copy of a row that has been read, and as the session has it now.      *)
CopyOK(j, m) ==
  loaded[j][m] # Nothing =>
    /\ mine[j][m] # Nothing
    /\ mine[j][m].id = loaded[j][m].id
    /\ loaded[j][m].id <= inserts
    /\ mine[j][m].active => loaded[j][m].active
    /\ SameRow(j, m) =>
         /\ Backed(mine[j][m], m)
         /\ \/ mine[j][m].active
            \/ ~ loaded[j][m].active
            \/ failures[m] >= Threshold /\ m \in unlisted
    /\ j \notin Editor /\ loaded[j][m].meta.price \in Manual =>
         mine[j][m].meta.price = loaded[j][m].meta.price

(* A row inserted by a transaction that is still open: its job holds the   *)
(* lock, so the model has no other row meanwhile, and nobody else has read *)
(* this one.                                                               *)
NewOK(j, m) ==
  loaded[j][m] = Nothing /\ mine[j][m] # Nothing =>
    /\ j \in Importer
    /\ writer = j
    /\ row[m] = Nothing
    /\ mine[j][m].id <= inserts
    /\ mine[j][m].active
    /\ Count(mine[j][m].meta) = 0
    /\ ~ mine[j][m].meta.missing
    /\ \A k \in Job : loaded[k][m] # Nothing => loaded[k][m].id # mine[j][m].id

(* What the copies of a job are where it stands.                           *)
PlaceOK(j) ==
  /\ pc[j] = "idle" => loaded[j] = Empty /\ mine[j] = Empty
  /\ pc[j] = "probing" =>
       \A m \in todo[j] : loaded[j][m] # Nothing /\ mine[j][m] = loaded[j][m] /\ loaded[j][m].active
  /\ pc[j] \in {"importing", "inserting"} =>
       \A m \in todo[j] : loaded[j][m] = Nothing /\ mine[j][m] = Nothing
  /\ pc[j] = "inserting" =>
       /\ cur[j] \in Model \ todo[j]
       /\ loaded[j][cur[j]] = Nothing /\ mine[j][cur[j]] = Nothing
  /\ pc[j] = "testing" => \A m \in todo[j] : mine[j][m] # Nothing

MInv ==
  /\ TypeOK
  /\ \A m \in Model : RowOK(m)
  /\ \A j \in Job, m \in Model : CopyOK(j, m) /\ NewOK(j, m)
  /\ \A j \in Job : PlaceOK(j)

-----------------------------------------------------------------------------
(* Rows *)

LEMMA RowFields ==
  ASSUME NEW w \in Row
  PROVE  /\ w # Nothing
         /\ w.id \in Nat /\ w.active \in BOOLEAN /\ w.meta \in Meta
         /\ w.meta.missing \in BOOLEAN /\ w.meta.premium \in BOOLEAN
         /\ w.meta.price \in Prices /\ w.meta.fails \in Nat \cup {Nothing}
         /\ Count(w.meta) \in Nat
BY DataAssumption DEF Row, Meta, Count

(* A probe counts a failure or clears the count, and deactivates only by   *)
(* both criteria.                                                          *)
LEMMA ProbedRow ==
  ASSUME NEW w \in Row, w.active, NEW result \in {"ok", "premium", "failed"}
  PROVE  LET v == AfterProbe(w, result)
         IN  /\ v \in Row
             /\ v.id = w.id
             /\ v.meta.missing = w.meta.missing
             /\ v.meta.price = w.meta.price
             /\ Count(v.meta) <= IF result = "failed" THEN Count(w.meta) + 1 ELSE Count(w.meta)
             /\ v.active \/ (result = "failed" /\ Count(w.meta) + 1 >= Threshold /\ w.meta.missing)
<1> DEFINE n == Count(w.meta) + 1
           failed == [w EXCEPT !.meta.fails = n, !.active = ~ (n >= Threshold /\ w.meta.missing)]
           fine   == [w EXCEPT !.meta.fails = 0, !.meta.premium = @ \/ result = "premium"]
<1>1. n \in Nat /\ n # Nothing /\ 0 # Nothing
  BY RowFields, DataAssumption
<1>2. w.meta \in Meta /\ w.meta.missing \in BOOLEAN
  BY RowFields
<1>3. CASE result = "failed"
  <2> HIDE DEF n
  <2>1. failed \in Row /\ failed.id = w.id /\ failed.meta.missing = w.meta.missing
        /\ failed.meta.price = w.meta.price /\ failed.meta.fails = n
    BY <1>1, <1>2 DEF Row, Meta
  <2>2. failed.active \/ (n >= Threshold /\ w.meta.missing)
    BY DEF Row
  <2>3. AfterProbe(w, result) = failed
    BY <1>3 DEF AfterProbe, n
  <2>4. Count(failed.meta) = n
    BY <1>1, <2>1 DEF Count
  <2> HIDE DEF failed
  <2> USE DEF n
  <2> QED BY <1>1, <1>3, <2>1, <2>2, <2>3, <2>4
<1>4. CASE result # "failed"
  <2>1. fine \in Row /\ fine.id = w.id /\ fine.meta.missing = w.meta.missing
        /\ fine.meta.price = w.meta.price /\ fine.meta.fails = 0 /\ fine.active
    BY <1>1, <1>2 DEF Row, Meta
  <2>2. AfterProbe(w, result) = fine
    BY <1>4 DEF AfterProbe
  <2>3. Count(fine.meta) = 0
    BY <1>1, <2>1 DEF Count
  <2> QED BY <1>1, <1>4, <2>1, <2>2, <2>3, RowFields
<1> QED BY <1>3, <1>4

(* A listing's mark, a merged price, a test and an override each change one*)
(* item of the metadata.                                                   *)
LEMMA MarkedRow ==
  ASSUME NEW w \in Row
  PROVE  LET v == [w EXCEPT !.meta.missing = TRUE]
         IN  /\ v \in Row /\ v.id = w.id /\ v.active = w.active
             /\ Count(v.meta) = Count(w.meta) /\ v.meta.price = w.meta.price
BY DEF Row, Meta, Count

LEMMA TestedRow ==
  ASSUME NEW w \in Row, NEW premium \in BOOLEAN
  PROVE  LET v == [w EXCEPT !.meta.premium = @ \/ premium]
         IN  /\ v \in Row /\ v.id = w.id /\ v.active = w.active
             /\ Count(v.meta) = Count(w.meta) /\ v.meta.missing = w.meta.missing
             /\ v.meta.price = w.meta.price
BY DEF Row, Meta, Count

LEMMA PricedRow ==
  ASSUME NEW w \in Row, NEW price \in Prices
  PROVE  LET v == [w EXCEPT !.meta.price = price]
         IN  /\ v \in Row /\ v.id = w.id /\ v.active = w.active
             /\ Count(v.meta) = Count(w.meta) /\ v.meta.missing = w.meta.missing
BY DEF Row, Meta, Count

LEMMA MergedRow ==
  ASSUME NEW w \in Row, NEW priced \in {"none", "listed"}
  PROVE  LET v == [w EXCEPT !.meta = Merged(@, priced)]
         IN  /\ v \in Row /\ v.id = w.id /\ v.active = w.active
             /\ Count(v.meta) = Count(w.meta) /\ v.meta.missing = w.meta.missing
             /\ w.meta.price \in Manual => v.meta.price = w.meta.price
<1>1. CASE priced = "none" \/ w.meta.price \in Manual
  BY <1>1 DEF Row, Meta, Count, Merged
<1>2. CASE ~ (priced = "none" \/ w.meta.price \in Manual)
  BY <1>2 DEF Row, Meta, Count, Merged, Prices
<1> QED BY <1>1, <1>2

LEMMA FreshRow ==
  ASSUME inserts \in Nat, NEW priced \in {"none", "listed"}
  PROVE  /\ NewRow(priced) \in Row
         /\ NewRow(priced).active
         /\ NewRow(priced).id = inserts + 1
         /\ Count(NewRow(priced).meta) = 0
         /\ ~ NewRow(priced).meta.missing
BY DEF Row, Meta, Count, NewRow, Prices

LEMMA SwitchedRow ==
  ASSUME NEW w \in Row, NEW active \in BOOLEAN
  PROVE  LET v == [w EXCEPT !.active = active]
         IN  v \in Row /\ v.id = w.id /\ v.meta = w.meta
BY DEF Row

-----------------------------------------------------------------------------
(* What a step leaves alone *)

LEMMA Here ==
  ASSUME MInv, NEW j \in Job, NEW m \in Model
  PROVE  /\ RowOK(m) /\ CopyOK(j, m) /\ NewOK(j, m) /\ PlaceOK(j)
         /\ row[m] \in Row \cup {Nothing}
         /\ loaded[j] \in [Model -> Row \cup {Nothing}] /\ loaded[j][m] \in Row \cup {Nothing}
         /\ mine[j] \in [Model -> Row \cup {Nothing}] /\ mine[j][m] \in Row \cup {Nothing}
         /\ row[m] # Nothing => row[m].id \in Nat /\ Count(row[m].meta) \in Nat
         /\ mine[j][m] # Nothing => mine[j][m].id \in Nat /\ Count(mine[j][m].meta) \in Nat
         /\ failures[m] \in Nat /\ inserts \in Nat
<1>1. /\ row[m] \in Row \cup {Nothing}
      /\ loaded[j] \in [Model -> Row \cup {Nothing}]
      /\ mine[j] \in [Model -> Row \cup {Nothing}]
      /\ failures[m] \in Nat /\ inserts \in Nat
  BY DEF MInv, TypeOK
<1> QED BY <1>1, RowFields DEF MInv

(* The copies that other sessions have read of m are those they had, or of *)
(* the row that is there.                                                  *)
NoneElseRead(m) ==
  \A k \in Job : loaded'[k][m] \in {loaded[k][m], row[m], Nothing}

(* What is said of a copy stays true while its row is there and the        *)
(* observations of it do not get fewer.                                    *)
LEMMA KeptCopy ==
  ASSUME MInv, NEW j \in Job, NEW m \in Model,
         loaded'[j][m] = loaded[j][m], mine'[j][m] = mine[j][m],
         inserts' \in Nat, inserts <= inserts', failures'[m] \in Nat,
         SameRow(j, m)' => /\ SameRow(j, m)
                           /\ failures[m] <= failures'[m]
                           /\ m \in unlisted => m \in unlisted'
  PROVE  CopyOK(j, m)'
<1> SUFFICES ASSUME loaded[j][m] # Nothing PROVE CopyOK(j, m)'
  BY DEF CopyOK
<1>1. CopyOK(j, m) /\ loaded[j][m] \in Row /\ mine[j][m] \in Row
  BY Here DEF CopyOK
<1>2. loaded[j][m].id <= inserts'
  BY <1>1, Here, RowFields DEF CopyOK
<1>3. ASSUME SameRow(j, m)'
      PROVE  /\ Backed(mine[j][m], m)'
             /\ \/ mine[j][m].active
                \/ ~ loaded[j][m].active
                \/ failures'[m] >= Threshold /\ m \in unlisted'
  <2>1. /\ Backed(mine[j][m], m)
        /\ \/ mine[j][m].active
           \/ ~ loaded[j][m].active
           \/ failures[m] >= Threshold /\ m \in unlisted
    BY <1>1, <1>3 DEF CopyOK
  <2>2. Count(mine[j][m].meta) \in Nat /\ failures[m] \in Nat /\ Threshold \in Nat
    BY <1>1, Here, RowFields, DataAssumption
  <2>3. failures[m] <= failures'[m] /\ (m \in unlisted => m \in unlisted')
    BY <1>3
  <2>4. Count(mine[j][m].meta) <= failures'[m] /\ (mine[j][m].meta.missing => m \in unlisted')
    BY <2>1, <2>2, <2>3 DEF Backed
  <2>5. Backed(mine[j][m], m)'
    BY <2>4 DEF Backed
  <2> QED BY <2>1, <2>2, <2>3, <2>5
<1> QED BY <1>1, <1>2, <1>3 DEF CopyOK

LEMMA KeptNew ==
  ASSUME MInv, NEW j \in Job, NEW m \in Model,
         loaded'[j][m] = loaded[j][m], mine'[j][m] = mine[j][m],
         inserts' \in Nat, inserts <= inserts', NoneElseRead(m),
         writer = j => writer' = j /\ (row[m] = Nothing => row'[m] = Nothing)
  PROVE  NewOK(j, m)'
<1> SUFFICES ASSUME loaded[j][m] = Nothing, mine[j][m] # Nothing PROVE NewOK(j, m)'
  BY DEF NewOK
<1>1. NewOK(j, m) /\ mine[j][m] \in Row
  BY Here
<1>2. mine[j][m].id <= inserts'
  BY <1>1, Here, RowFields DEF NewOK
<1>3. row[m] = Nothing
  BY <1>1 DEF NewOK
<1>4. ASSUME NEW k \in Job, loaded'[k][m] # Nothing PROVE loaded'[k][m].id # mine[j][m].id
  BY <1>1, <1>3, <1>4 DEF NewOK, NoneElseRead
<1> QED BY <1>1, <1>2, <1>3, <1>4 DEF NewOK

(* The step is one of j's, for the other sessions.                         *)
Elsewhere(j) ==
  \A k \in Job \ {j} :
    /\ loaded'[k] = loaded[k] /\ mine'[k] = mine[k]
    /\ pc'[k] = pc[k] /\ todo'[k] = todo[k] /\ cur'[k] = cur[k]

(* The observations of the rows do not get fewer.                          *)
Grow ==
  /\ \A m \in Model : failures[m] <= failures'[m]
  /\ unlisted \subseteq unlisted'

(* j's step changes j's session, and perhaps takes the lock or gives its   *)
(* own back; no row is changed.                                            *)
SessionStep(j) ==
  /\ Elsewhere(j)
  /\ row' = row /\ inserts' = inserts
  /\ Grow
  /\ writer' = writer \/ MayWrite(j)
  /\ \A m \in Model : loaded'[j][m] \in {loaded[j][m], row[m], Nothing}

LEMMA PlaceKept ==
  ASSUME NEW k \in Job, PlaceOK(k),
         loaded'[k] = loaded[k], mine'[k] = mine[k],
         pc'[k] = pc[k], todo'[k] = todo[k], cur'[k] = cur[k]
  PROVE  PlaceOK(k)'
BY DEF PlaceOK, Empty

LEMMA SessionStepOK ==
  ASSUME MInv, NEW j \in Job, SessionStep(j), TypeOK',
         \A m \in Model : CopyOK(j, m)' /\ NewOK(j, m)',
         PlaceOK(j)'
  PROVE  MInv'
<1>1. ASSUME NEW m \in Model PROVE RowOK(m)'
  <2>1. RowOK(m) /\ row[m] \in Row \cup {Nothing} /\ failures[m] \in Nat /\ inserts \in Nat
    BY Here
  <2>2. failures'[m] \in Nat
    BY DEF TypeOK
  <2>3. row[m] # Nothing => Count(row[m].meta) \in Nat
    BY <2>1, RowFields
  <2> QED BY <2>1, <2>2, <2>3 DEF RowOK, Backed, SessionStep, Grow
<1>2. ASSUME NEW k \in Job, NEW m \in Model, k # j PROVE CopyOK(k, m)' /\ NewOK(k, m)'
  <2>1. NoneElseRead(m)
    BY DEF NoneElseRead, SessionStep, Elsewhere
  <2>2. loaded'[k][m] = loaded[k][m] /\ mine'[k][m] = mine[k][m]
    BY <1>2 DEF SessionStep, Elsewhere
  <2>3. inserts' \in Nat /\ inserts <= inserts' /\ failures'[m] \in Nat
    BY DEF SessionStep, TypeOK
  <2>4. SameRow(k, m)' => SameRow(k, m)
    BY <2>2 DEF SameRow, SessionStep
  <2>5. CopyOK(k, m)'
    BY <2>2, <2>3, <2>4, KeptCopy DEF SessionStep, Grow
  <2>6. NewOK(k, m)'
    <3>1. CASE writer = k
      <4>1. writer' = k /\ row' = row
        BY <1>2, <3>1, JobAssumption DEF SessionStep, MayWrite
      <4> QED BY <2>1, <2>2, <2>3, <4>1, KeptNew
    <3>2. CASE writer # k
      BY <2>1, <2>2, <2>3, <3>2, KeptNew
    <3> QED BY <3>1, <3>2
  <2> QED BY <2>5, <2>6
<1>3. ASSUME NEW k \in Job, k # j PROVE PlaceOK(k)'
  BY <1>3, PlaceKept DEF MInv, SessionStep, Elsewhere
<1> QED BY <1>1, <1>2, <1>3 DEF MInv

(* A copy of j that j's step does not touch.                               *)
LEMMA OwnCopyKept ==
  ASSUME MInv, NEW j \in Job, NEW m \in Model, SessionStep(j), TypeOK',
         loaded'[j][m] = loaded[j][m], mine'[j][m] = mine[j][m],
         writer = j => writer' = j
  PROVE  CopyOK(j, m)' /\ NewOK(j, m)'
<1>1. NoneElseRead(m)
  BY DEF NoneElseRead, SessionStep, Elsewhere
<1>2. inserts' \in Nat /\ inserts <= inserts' /\ failures'[m] \in Nat
  BY DEF SessionStep, TypeOK
<1>3. SameRow(j, m)' => SameRow(j, m)
  BY DEF SameRow, SessionStep
<1>4. CopyOK(j, m)'
  BY <1>2, <1>3, KeptCopy DEF SessionStep, Grow
<1>5. NewOK(j, m)'
  BY <1>1, <1>2, KeptNew DEF SessionStep
<1> QED BY <1>4, <1>5

-----------------------------------------------------------------------------
(* Steps of one session *)

(* A job goes from one place to the next with the copies it has.           *)
LEMMA SameCopiesOK ==
  ASSUME MInv, NEW j \in Job, SessionStep(j), TypeOK', PlaceOK(j)',
         loaded' = loaded, mine' = mine, writer = j => writer' = j
  PROVE  MInv'
BY OwnCopyKept, SessionStepOK

(* A session that is over has no copies and no lock.                       *)
LEMMA RollBackStep == ASSUME MInv, NEW j \in Job, RollBack(j) PROVE MInv'
<1>1. TypeOK'
  BY DEF RollBack, Ended, Goto, MInv, TypeOK, Places, Empty
<1>2. loaded'[j] = Empty /\ mine'[j] = Empty /\ pc'[j] = "idle"
  BY DEF RollBack, Ended, Goto, MInv, TypeOK
<1>3. SessionStep(j)
  <2>1. Elsewhere(j)
    BY DEF RollBack, Ended, Goto, MInv, TypeOK, Elsewhere
  <2>2. Grow
    BY DEF RollBack, MInv, TypeOK, Grow
  <2>3. \A m \in Model : loaded'[j][m] = Nothing
    BY <1>2 DEF Empty
  <2> QED BY <2>1, <2>2, <2>3 DEF RollBack, Ended, SessionStep, MayWrite
<1>4. ASSUME NEW m \in Model PROVE CopyOK(j, m)' /\ NewOK(j, m)'
  BY <1>2 DEF CopyOK, NewOK, Empty
<1>5. PlaceOK(j)'
  BY <1>2 DEF PlaceOK, Empty
<1> QED BY <1>1, <1>3, <1>4, <1>5, SessionStepOK

LEMMA BeginStep == ASSUME MInv, NEW j \in Cleaner, Begin(j) PROVE MInv'
<1>1. j \in Job
  BY DEF Job
<1>2. TypeOK'
  BY <1>1, BoundAssumption DEF Begin, Start, Goto, MInv, TypeOK, Places
<1>3. pc'[j] = "pinging"
  BY <1>1 DEF Begin, Start, Goto, MInv, TypeOK
<1>4. SessionStep(j)
  BY <1>1 DEF Begin, Start, Goto, MInv, TypeOK, SessionStep, Elsewhere, Grow
<1>5. PlaceOK(j)'
  BY <1>3 DEF PlaceOK
<1> QED BY <1>1, <1>2, <1>4, <1>5, SameCopiesOK DEF Begin

(* What a cleanup reads is what it has.                                    *)
LEMMA LoadStep ==
  ASSUME MInv, NEW j \in Cleaner, Load(j),
         alive' = alive, down' \subseteq alive,
         writer' \in {writer, j}, MayWrite(j) \/ writer' = writer
  PROVE  MInv'
<1> DEFINE active == [m \in Model |-> IF row[m] # Nothing /\ row[m].active THEN row[m] ELSE Nothing]
<1>1. j \in Job
  BY DEF Job
<1>2. active \in [Model -> Row \cup {Nothing}]
  BY DEF MInv, TypeOK
<1>3. /\ loaded' = [loaded EXCEPT ![j] = active]
      /\ mine' = [mine EXCEPT ![j] = active]
      /\ todo' = [todo EXCEPT ![j] = {m \in Model : active[m] # Nothing /\ ~ active[m].meta.premium}]
  BY DEF Load
<1>4. \A m \in Model : /\ active[m] \in {row[m], Nothing}
                       /\ active[m] # Nothing => row[m].active
  OBVIOUS
<1> HIDE DEF active
<1>5. TypeOK'
  BY <1>1, <1>2, <1>3 DEF Load, Goto, MInv, TypeOK, Places
<1>6. loaded'[j] = active /\ mine'[j] = active /\ pc'[j] = "probing" /\ row' = row /\ inserts' = inserts
  BY <1>1, <1>3 DEF Load, Goto, MInv, TypeOK
<1>7. SessionStep(j)
  <2>1. Elsewhere(j)
    BY <1>1, <1>3 DEF Load, Goto, MInv, TypeOK, Elsewhere
  <2>2. Grow
    BY DEF Load, MInv, TypeOK, Grow
  <2> QED BY <1>4, <1>6, <2>1, <2>2 DEF SessionStep
<1>8. ASSUME NEW m \in Model PROVE CopyOK(j, m)' /\ NewOK(j, m)'
  <2>1. NewOK(j, m)'
    BY <1>6 DEF NewOK
  <2>2. SUFFICES ASSUME active[m] # Nothing PROVE CopyOK(j, m)'
    BY <1>6, <2>1 DEF CopyOK
  <2>3. active[m] = row[m] /\ row[m] # Nothing /\ RowOK(m) /\ row[m].active
    BY <1>1, <1>4, <2>2, Here
  <2>4. Backed(row[m], m)' /\ row[m].id <= inserts
    BY <2>3 DEF RowOK, Backed, Load
  <2> QED BY <1>6, <2>3, <2>4 DEF CopyOK, Backed
<1>9. PlaceOK(j)'
  BY <1>1, <1>3, <1>4, <1>6 DEF PlaceOK, MInv, TypeOK
<1> QED BY <1>1, <1>5, <1>7, <1>8, <1>9, SessionStepOK

LEMMA ReachedStep == ASSUME MInv, NEW j \in Cleaner, Reached(j) PROVE MInv'
<1>1. alive' = alive /\ down' \subseteq alive
  BY DEF Reached, Load, MInv, TypeOK
<1> QED BY <1>1, LoadStep DEF Reached

LEMMA UnreachableStep == ASSUME MInv, NEW j \in Cleaner, Unreachable(j) PROVE MInv'
<1>1. alive' = alive /\ down' \subseteq alive
  BY DEF Unreachable, Load, MInv, TypeOK
<1> QED BY <1>1, LoadStep DEF Unreachable

(* The count of a copy grows with the observations of its row, and a copy  *)
(* is switched off only when they suffice.                                 *)
LEMMA ProbeStep ==
  ASSUME MInv, NEW j \in Cleaner, NEW m \in Model, NEW result \in {"ok", "premium", "failed"},
         Probe(j, m, result)
  PROVE  MInv'
<1> DEFINE w == mine[j][m]
           v == AfterProbe(w, result)
<1>1. j \in Job
  BY DEF Job
<1>2. /\ pc[j] = "probing" /\ m \in todo[j]
      /\ mine' = [mine EXCEPT ![j][m] = v]
      /\ todo' = [todo EXCEPT ![j] = @ \ {m}]
      /\ failures' = IF result = "failed" /\ SameRow(j, m)
                       THEN [failures EXCEPT ![m] = @ + 1]
                       ELSE failures
      /\ UNCHANGED << row, provider, writer, tx, pc, loaded, cur, offer, alive, down,
                      unlisted, starts, inserts >>
  BY DEF Probe
<1>3. w \in Row /\ w = loaded[j][m] /\ w.active
  BY <1>1, <1>2, Here DEF PlaceOK
<1>4. /\ v \in Row /\ v # Nothing
      /\ v.id = w.id
      /\ v.meta.missing = w.meta.missing
      /\ v.meta.price = w.meta.price
      /\ Count(v.meta) <= IF result = "failed" THEN Count(w.meta) + 1 ELSE Count(w.meta)
      /\ v.active \/ (result = "failed" /\ Count(w.meta) + 1 >= Threshold /\ w.meta.missing)
  BY <1>3, ProbedRow, RowFields
<1> HIDE DEF v
<1>5. TypeOK'
  <2>1. mine' \in [Job -> [Model -> Row \cup {Nothing}]]
    BY <1>1, <1>2, <1>4 DEF MInv, TypeOK
  <2>2. failures' \in [Model -> Nat]
    BY <1>2 DEF MInv, TypeOK
  <2>3. todo' \in [Job -> SUBSET Model]
    BY <1>1, <1>2 DEF MInv, TypeOK
  <2> QED BY <1>2, <2>1, <2>2, <2>3 DEF MInv, TypeOK
<1>6. /\ mine'[j][m] = v
      /\ \A n \in Model \ {m} : mine'[j][n] = mine[j][n]
      /\ todo'[j] = todo[j] \ {m}
      /\ \A k \in Job \ {j} : mine'[k] = mine[k] /\ todo'[k] = todo[k]
  BY <1>1, <1>2 DEF MInv, TypeOK
<1>7. SessionStep(j)
  <2>1. Grow
    BY <1>2 DEF MInv, TypeOK, Grow
  <2> QED BY <1>2, <1>6, <2>1 DEF SessionStep, Elsewhere
<1>8. CopyOK(j, m)'
  <2>1. /\ CopyOK(j, m) /\ failures[m] \in Nat
        /\ Count(w.meta) \in Nat /\ Count(v.meta) \in Nat /\ Threshold \in Nat
    BY <1>1, <1>3, <1>4, Here, RowFields, DataAssumption
  <2>2. ASSUME SameRow(j, m)'
        PROVE  /\ Count(v.meta) <= failures'[m]
               /\ v.meta.missing => m \in unlisted
               /\ v.active \/ (failures'[m] >= Threshold /\ m \in unlisted)
    <3>1. SameRow(j, m)
      BY <1>2, <1>4, <1>6, <2>2 DEF SameRow
    <3>2. Count(w.meta) <= failures[m] /\ (w.meta.missing => m \in unlisted)
      BY <1>3, <2>1, <3>1, RowFields DEF CopyOK, Backed
    <3>3. failures'[m] = IF result = "failed" THEN failures[m] + 1 ELSE failures[m]
      BY <1>2, <3>1 DEF MInv, TypeOK
    <3>4. Count(v.meta) <= failures'[m]
      BY <1>4, <2>1, <3>2, <3>3
    <3>5. v.active \/ (failures'[m] >= Threshold /\ m \in unlisted)
      BY <1>4, <2>1, <3>2, <3>3
    <3> QED BY <1>4, <3>2, <3>4, <3>5
  <2>3. loaded' = loaded /\ unlisted' = unlisted /\ inserts' = inserts
    BY <1>2
  <2>4. SameRow(j, m)' => Backed(mine[j][m], m)'
    BY <1>6, <2>2, <2>3 DEF Backed
  <2> QED BY <1>3, <1>4, <1>6, <2>1, <2>2, <2>3, <2>4 DEF CopyOK
<1>9. ASSUME NEW n \in Model PROVE CopyOK(j, n)' /\ NewOK(j, n)'
  <2>1. CASE n = m
    <3>1. loaded'[j][m] # Nothing
      BY <1>2, <1>3, RowFields
    <3> QED BY <1>8, <2>1, <3>1 DEF NewOK
  <2>2. CASE n # m
    BY <1>1, <1>2, <1>5, <1>6, <1>7, <2>2, OwnCopyKept
  <2> QED BY <2>1, <2>2
<1>10. PlaceOK(j)'
  <2>1. PlaceOK(j)
    BY <1>1, Here
  <2>2. todo[j] \subseteq Model
    BY <1>1 DEF MInv, TypeOK
  <2> QED BY <1>2, <1>6, <2>1, <2>2 DEF PlaceOK
<1> QED BY <1>1, <1>5, <1>7, <1>9, <1>10, SessionStepOK

(* A mark is set on the copies and recorded for their rows alike.          *)
LEMMA ListStep ==
  ASSUME MInv, NEW j \in Cleaner, NEW listed \in SUBSET Model, List(j, listed)
  PROVE  MInv'
<1> DEFINE lacking == {m \in Model : mine[j][m] # Nothing /\ mine[j][m].active /\ m \notin listed}
           new == [m \in Model |-> IF m \in lacking THEN [mine[j][m] EXCEPT !.meta.missing = TRUE]
                                   ELSE mine[j][m]]
<1>1. j \in Job
  BY DEF Job
<1>2. /\ pc[j] = "probing"
      /\ mine' = [mine EXCEPT ![j] = new]
      /\ unlisted' = unlisted \cup {m \in lacking : SameRow(j, m)}
      /\ Goto(j, "finishing")
      /\ UNCHANGED << row, provider, writer, tx, loaded, todo, cur, offer, alive, down,
                      failures, starts, inserts >>
  BY DEF List
<1>3. ASSUME NEW m \in Model, mine[j][m] # Nothing
      PROVE  /\ new[m] \in Row
             /\ new[m].id = mine[j][m].id /\ new[m].active = mine[j][m].active
             /\ Count(new[m].meta) = Count(mine[j][m].meta)
             /\ new[m].meta.price = mine[j][m].meta.price
             /\ m \notin lacking => new[m] = mine[j][m]
  <2>1. mine[j][m] \in Row
    BY <1>1, <1>3, Here
  <2>2. CASE m \in lacking
    <3>1. new[m] = [mine[j][m] EXCEPT !.meta.missing = TRUE]
      BY <2>2
    <3> QED BY <2>1, <2>2, <3>1, MarkedRow
  <2>3. CASE m \notin lacking
    BY <2>1, <2>3
  <2> QED BY <2>2, <2>3
<1>4. \A m \in Model : mine[j][m] = Nothing => new[m] = Nothing
  OBVIOUS
<1>5. lacking \subseteq Model
  OBVIOUS
<1> HIDE DEF new, lacking
<1>6. TypeOK'
  <2>1. new \in [Model -> Row \cup {Nothing}]
    BY <1>3, <1>4 DEF new
  <2> QED BY <1>1, <1>2, <1>5, <2>1 DEF MInv, TypeOK, Goto, Places
<1>7. mine'[j] = new /\ pc'[j] = "finishing" /\ \A k \in Job \ {j} : mine'[k] = mine[k] /\ pc'[k] = pc[k]
  BY <1>1, <1>2 DEF MInv, TypeOK, Goto
<1>8. SessionStep(j)
  <2>1. Grow
    BY <1>2 DEF MInv, TypeOK, Grow
  <2> QED BY <1>2, <1>7, <2>1 DEF SessionStep, Elsewhere
<1>9. ASSUME NEW m \in Model PROVE CopyOK(j, m)' /\ NewOK(j, m)'
  <2>1. NewOK(j, m)'
    <3>1. j \notin Importer
      BY JobAssumption
    <3> QED BY <1>1, <1>2, <1>4, <1>7, <3>1, Here DEF NewOK
  <2>2. CopyOK(j, m)'
    <3> SUFFICES ASSUME loaded[j][m] # Nothing PROVE CopyOK(j, m)'
      BY <1>2 DEF CopyOK
    <3>1. CopyOK(j, m) /\ mine[j][m] # Nothing /\ mine[j][m] \in Row
      BY <1>1, Here DEF CopyOK
    <3>2. SameRow(j, m)' <=> SameRow(j, m)
      BY <1>2, <1>3, <1>7, <3>1 DEF SameRow
    <3>3. ASSUME SameRow(j, m)
          PROVE  Count(new[m].meta) <= failures[m] /\ (new[m].meta.missing => m \in unlisted')
      <4>1. Backed(mine[j][m], m)
        BY <3>1, <3>3 DEF CopyOK
      <4>2. Count(new[m].meta) <= failures[m]
        BY <1>3, <3>1, <4>1 DEF Backed
      <4>3. new[m].meta.missing => m \in unlisted'
        BY <1>2, <1>3, <3>1, <3>3, <4>1 DEF Backed
      <4> QED BY <4>2, <4>3
    <3>4. new[m] # Nothing
      BY <1>3, <3>1, RowFields
    <3>5. SameRow(j, m)' => Backed(mine[j][m], m)'
      BY <1>2, <1>7, <3>2, <3>3 DEF Backed
    <3>6. unlisted \subseteq unlisted'
      BY <1>2
    <3> QED BY <1>2, <1>3, <1>7, <3>1, <3>2, <3>4, <3>5, <3>6 DEF CopyOK
  <2> QED BY <2>1, <2>2
<1>10. PlaceOK(j)'
  BY <1>7 DEF PlaceOK
<1> QED BY <1>1, <1>6, <1>8, <1>9, <1>10, SessionStepOK

LEMMA DiscoverStep ==
  ASSUME MInv, NEW j \in Importer, NEW listed \in SUBSET Model, NEW priced \in {"none", "listed"},
         Discover(j, listed, priced)
  PROVE  MInv'
<1>1. j \in Job
  BY DEF Job
<1>2. TypeOK'
  BY <1>1, BoundAssumption DEF Discover, Start, Goto, MInv, TypeOK, Places
<1>3. SessionStep(j)
  BY <1>1 DEF Discover, Start, Goto, MInv, TypeOK, SessionStep, Elsewhere, Grow
<1>4. PlaceOK(j)'
  <2>1. pc[j] = "idle" /\ pc'[j] = "importing" /\ loaded' = loaded /\ mine' = mine /\ todo'[j] = listed
    BY <1>1 DEF Discover, Start, Goto, MInv, TypeOK
  <2>2. loaded[j] = Empty /\ mine[j] = Empty
    BY <1>1, <2>1 DEF MInv, PlaceOK
  <2> QED BY <2>1, <2>2 DEF PlaceOK, Empty
<1> QED BY <1>1, <1>2, <1>3, <1>4, SameCopiesOK DEF Discover

(* A row is read, and its copy changed in what no observation is about.    *)
LEMMA CopiedOK ==
  ASSUME MInv, NEW j \in Job, NEW m \in Model, row[m] # Nothing, NEW v \in Row,
         UNCHANGED << row, provider, writer, alive, down, failures, unlisted, inserts >>,
         loaded' = [loaded EXCEPT ![j][m] = row[m]],
         mine' = [mine EXCEPT ![j][m] = v],
         \A k \in Job \ {j} : pc'[k] = pc[k] /\ todo'[k] = todo[k] /\ cur'[k] = cur[k],
         v.id = row[m].id, v.active = row[m].active,
         Count(v.meta) = Count(row[m].meta), v.meta.missing = row[m].meta.missing,
         j \notin Editor /\ row[m].meta.price \in Manual => v.meta.price = row[m].meta.price,
         tx' \in [Job -> {"none", "open", "pinned", "doomed"}], pc' \in [Job -> Places],
         todo' \in [Job -> SUBSET Model], cur' \in [Job -> Model \cup {Nothing}],
         offer' \in [Job -> {"none", "listed"}], starts' \in 0 .. MaxStarts,
         PlaceOK(j)'
  PROVE  MInv'
<1>1. TypeOK'
  <2>1. loaded' \in [Job -> [Model -> Row \cup {Nothing}]]
    BY DEF MInv, TypeOK
  <2>2. mine' \in [Job -> [Model -> Row \cup {Nothing}]]
    BY DEF MInv, TypeOK
  <2> QED BY <2>1, <2>2 DEF MInv, TypeOK
<1>2. /\ loaded'[j][m] = row[m] /\ mine'[j][m] = v
      /\ \A n \in Model \ {m} : loaded'[j][n] = loaded[j][n] /\ mine'[j][n] = mine[j][n]
      /\ \A k \in Job \ {j} : loaded'[k] = loaded[k] /\ mine'[k] = mine[k]
  BY DEF MInv, TypeOK
<1>3. SessionStep(j)
  <2>1. Grow
    BY DEF MInv, TypeOK, Grow
  <2> QED BY <1>2, <2>1 DEF SessionStep, Elsewhere
<1>4. RowOK(m) /\ row[m] \in Row
  BY Here
<1>5. CopyOK(j, m)' /\ NewOK(j, m)'
  <2>1. Backed(mine[j][m], m)'
    BY <1>2, <1>4 DEF RowOK, Backed
  <2>2. v # Nothing /\ v.active \in BOOLEAN
    BY RowFields
  <2> QED BY <1>2, <1>4, <2>1, <2>2 DEF CopyOK, NewOK, RowOK
<1>6. ASSUME NEW n \in Model, n # m PROVE CopyOK(j, n)' /\ NewOK(j, n)'
  BY <1>1, <1>2, <1>3, <1>6, OwnCopyKept
<1> QED BY <1>1, <1>3, <1>5, <1>6, SessionStepOK

LEMMA MergeModelStep ==
  ASSUME MInv, NEW j \in Importer, NEW m \in Model, MergeModel(j, m)
  PROVE  MInv'
<1> DEFINE v == [row[m] EXCEPT !.meta = Merged(@, offer[j])]
<1>1. j \in Job
  BY DEF Job
<1>2. row[m] \in Row /\ row[m] # Nothing /\ offer[j] \in {"none", "listed"}
  BY <1>1 DEF MergeModel, MInv, TypeOK
<1>3. /\ v \in Row /\ v.id = row[m].id /\ v.active = row[m].active
      /\ Count(v.meta) = Count(row[m].meta) /\ v.meta.missing = row[m].meta.missing
      /\ row[m].meta.price \in Manual => v.meta.price = row[m].meta.price
  BY <1>2, MergedRow
<1>4. /\ pc[j] = "importing" /\ m \in todo[j]
      /\ loaded' = [loaded EXCEPT ![j][m] = row[m]]
      /\ mine' = [mine EXCEPT ![j][m] = v]
      /\ todo' = [todo EXCEPT ![j] = @ \ {m}]
      /\ Pin(j)
      /\ UNCHANGED << row, provider, writer, pc, cur, offer, alive, down, failures, unlisted,
                      starts, inserts >>
  BY DEF MergeModel
<1> HIDE DEF v
<1>5. PlaceOK(j)'
  <2>1. todo'[j] = todo[j] \ {m} /\ pc'[j] = "importing" /\ todo[j] \subseteq Model
    BY <1>1, <1>4 DEF MInv, TypeOK
  <2>2. \A n \in Model \ {m} : loaded'[j][n] = loaded[j][n] /\ mine'[j][n] = mine[j][n]
    BY <1>1, <1>4 DEF MInv, TypeOK
  <2>3. \A n \in todo[j] : loaded[j][n] = Nothing /\ mine[j][n] = Nothing
    BY <1>1, <1>4, Here DEF PlaceOK
  <2> QED BY <2>1, <2>2, <2>3 DEF PlaceOK
<1>6. /\ tx' \in [Job -> {"none", "open", "pinned", "doomed"}]
      /\ todo' \in [Job -> SUBSET Model]
      /\ \A k \in Job \ {j} : todo'[k] = todo[k]
  BY <1>1, <1>4 DEF Pin, MInv, TypeOK
<1>7. /\ pc' \in [Job -> Places] /\ cur' \in [Job -> Model \cup {Nothing}]
      /\ offer' \in [Job -> {"none", "listed"}] /\ starts' \in 0 .. MaxStarts
  BY <1>4 DEF MInv, TypeOK
<1> QED BY <1>1, <1>2, <1>3, <1>4, <1>5, <1>6, <1>7, CopiedOK

LEMMA OverrideStep ==
  ASSUME MInv, NEW j \in Editor, NEW m \in Model, NEW price \in Manual, Override(j, m, price)
  PROVE  MInv'
<1> DEFINE v == [row[m] EXCEPT !.meta.price = price]
<1>1. j \in Job
  BY DEF Job
<1>2. row[m] \in Row /\ row[m] # Nothing
  BY <1>1 DEF Override, MInv, TypeOK
<1>3. /\ v \in Row /\ v.id = row[m].id /\ v.active = row[m].active
      /\ Count(v.meta) = Count(row[m].meta) /\ v.meta.missing = row[m].meta.missing
  BY <1>2, PricedRow DEF Prices
<1>4. /\ Start(j, "finishing")
      /\ loaded' = [loaded EXCEPT ![j][m] = row[m]]
      /\ mine' = [mine EXCEPT ![j][m] = v]
      /\ UNCHANGED << row, provider, writer, tx, todo, cur, offer, alive, down, failures,
                      unlisted, inserts >>
  BY DEF Override
<1> HIDE DEF v
<1>5. pc'[j] = "finishing" /\ pc' \in [Job -> Places] /\ \A k \in Job \ {j} : pc'[k] = pc[k]
  BY <1>1, <1>4 DEF Start, Goto, MInv, TypeOK, Places
<1>6. PlaceOK(j)'
  BY <1>5 DEF PlaceOK
<1>7. starts' \in 0 .. MaxStarts
  BY <1>4, BoundAssumption DEF Start, MInv, TypeOK
<1>8. /\ tx' \in [Job -> {"none", "open", "pinned", "doomed"}]
      /\ todo' \in [Job -> SUBSET Model] /\ cur' \in [Job -> Model \cup {Nothing}]
      /\ offer' \in [Job -> {"none", "listed"}]
  BY <1>4 DEF MInv, TypeOK
<1> QED BY <1>1, <1>2, <1>3, <1>4, <1>5, <1>6, <1>7, <1>8, CopiedOK

LEMMA MissModelStep ==
  ASSUME MInv, NEW j \in Importer, NEW m \in Model, MissModel(j, m)
  PROVE  MInv'
<1>1. j \in Job
  BY DEF Job
<1>2. TypeOK'
  BY <1>1 DEF MissModel, Pin, Goto, MInv, TypeOK, Places
<1>3. SessionStep(j)
  BY <1>1 DEF MissModel, Goto, MInv, TypeOK, SessionStep, Elsewhere, Grow
<1>4. PlaceOK(j)'
  <2>1. /\ pc[j] = "importing" /\ m \in todo[j]
        /\ pc'[j] = "inserting" /\ cur'[j] = m /\ todo'[j] = todo[j] \ {m}
        /\ loaded' = loaded /\ mine' = mine
    BY <1>1 DEF MissModel, Goto, MInv, TypeOK
  <2>2. \A n \in todo[j] : loaded[j][n] = Nothing /\ mine[j][n] = Nothing
    BY <1>1, <2>1, Here DEF PlaceOK
  <2> QED BY <2>1, <2>2 DEF PlaceOK
<1> QED BY <1>1, <1>2, <1>3, <1>4, SameCopiesOK DEF MissModel

LEMMA SkipStep ==
  ASSUME MInv, NEW j \in Importer, SkipConflict(j) \/ SkipLocked(j)
  PROVE  MInv'
<1>1. j \in Job
  BY DEF Job
<1>2. TypeOK'
  BY <1>1 DEF SkipConflict, SkipLocked, Goto, MInv, TypeOK, Places
<1>3. SessionStep(j)
  BY <1>1 DEF SkipConflict, SkipLocked, Goto, MInv, TypeOK, SessionStep, Elsewhere, Grow
<1>4. PlaceOK(j)'
  <2>1. /\ pc[j] = "inserting" /\ pc'[j] = "importing" /\ todo' = todo
        /\ loaded' = loaded /\ mine' = mine
    BY <1>1 DEF SkipConflict, SkipLocked, Goto, MInv, TypeOK
  <2>2. PlaceOK(j)
    BY <1>1 DEF MInv
  <2> QED BY <2>1, <2>2 DEF PlaceOK
<1> QED BY <1>1, <1>2, <1>3, <1>4, SameCopiesOK DEF SkipConflict, SkipLocked

LEMMA ImportedStep ==
  ASSUME MInv, NEW j \in Importer, Imported(j) \/ Tested(j)
  PROVE  MInv'
<1>1. j \in Job
  BY DEF Job
<1>2. TypeOK'
  <2>1. pc' \in [Job -> Places]
    BY <1>1 DEF Imported, Tested, Goto, MInv, TypeOK, Places
  <2>2. todo' \in [Job -> SUBSET Model]
    <3> DEFINE all == {m \in Model : mine[j][m] # Nothing}
    <3>1. todo' = [todo EXCEPT ![j] = all] \/ todo' = todo
      BY DEF Imported, Tested
    <3>2. all \in SUBSET Model
      OBVIOUS
    <3> HIDE DEF all
    <3> QED BY <1>1, <3>1, <3>2 DEF MInv, TypeOK
  <2> QED BY <2>1, <2>2 DEF Imported, Tested, MInv, TypeOK
<1>3. SessionStep(j)
  BY <1>1 DEF Imported, Tested, Goto, MInv, TypeOK, SessionStep, Elsewhere, Grow
<1>4. PlaceOK(j)'
  <2>1. /\ loaded' = loaded /\ mine' = mine
        /\ \/ pc'[j] = "testing" /\ todo'[j] = {m \in Model : mine[j][m] # Nothing}
           \/ pc'[j] = "finishing"
    BY <1>1 DEF Imported, Tested, Goto, MInv, TypeOK
  <2> QED BY <2>1 DEF PlaceOK
<1> QED BY <1>1, <1>2, <1>3, <1>4, SameCopiesOK DEF Imported, Tested

(* A test changes nothing that an observation is about.                    *)
LEMMA TestStep ==
  ASSUME MInv, NEW j \in Importer, NEW m \in Model, NEW premium \in BOOLEAN, Test(j, m, premium)
  PROVE  MInv'
<1> DEFINE w == mine[j][m]
           v == [w EXCEPT !.meta.premium = @ \/ premium]
<1>1. j \in Job
  BY DEF Job
<1>2. /\ pc[j] = "testing" /\ m \in todo[j]
      /\ mine' = [mine EXCEPT ![j][m] = v]
      /\ todo' = [todo EXCEPT ![j] = @ \ {m}]
      /\ UNCHANGED << row, provider, writer, tx, pc, loaded, cur, offer, alive, down, failures,
                      unlisted, starts, inserts >>
  BY DEF Test
<1>3. w \in Row /\ w # Nothing
  BY <1>1, <1>2, Here DEF PlaceOK
<1>4. /\ v \in Row /\ v # Nothing /\ v.id = w.id /\ v.active = w.active
      /\ Count(v.meta) = Count(w.meta) /\ v.meta.missing = w.meta.missing
      /\ v.meta.price = w.meta.price
  BY <1>3, TestedRow, RowFields
<1> HIDE DEF v
<1>5. TypeOK'
  <2>1. mine' \in [Job -> [Model -> Row \cup {Nothing}]]
    BY <1>1, <1>2, <1>4 DEF MInv, TypeOK
  <2>2. todo' \in [Job -> SUBSET Model]
    BY <1>1, <1>2 DEF MInv, TypeOK
  <2> QED BY <1>2, <2>1, <2>2 DEF MInv, TypeOK
<1>6. /\ mine'[j][m] = v
      /\ \A n \in Model \ {m} : mine'[j][n] = mine[j][n]
      /\ todo'[j] = todo[j] \ {m}
      /\ \A k \in Job \ {j} : mine'[k] = mine[k] /\ todo'[k] = todo[k]
  BY <1>1, <1>2 DEF MInv, TypeOK
<1>7. SessionStep(j)
  <2>1. Grow
    BY <1>2 DEF MInv, TypeOK, Grow
  <2> QED BY <1>2, <1>6, <2>1 DEF SessionStep, Elsewhere
<1>8. CopyOK(j, m)' /\ NewOK(j, m)'
  <2>1. CopyOK(j, m) /\ NewOK(j, m) /\ v.active \in BOOLEAN
    BY <1>1, <1>4, Here, RowFields
  <2>2. SameRow(j, m)' <=> SameRow(j, m)
    BY <1>2, <1>4, <1>6 DEF SameRow
  <2>3. Backed(mine[j][m], m)' <=> Backed(mine[j][m], m)
    BY <1>2, <1>4, <1>6 DEF Backed
  <2>4. CopyOK(j, m)'
    BY <1>2, <1>4, <1>6, <2>1, <2>2, <2>3 DEF CopyOK
  <2>5. NewOK(j, m)'
    BY <1>2, <1>3, <1>4, <1>6, <2>1 DEF NewOK
  <2> QED BY <2>4, <2>5
<1>9. ASSUME NEW n \in Model, n # m PROVE CopyOK(j, n)' /\ NewOK(j, n)'
  BY <1>1, <1>2, <1>5, <1>6, <1>7, <1>9, OwnCopyKept
<1>10. PlaceOK(j)'
  <2>1. \A n \in todo[j] : mine[j][n] # Nothing
    BY <1>1, <1>2, Here DEF PlaceOK
  <2>2. todo[j] \subseteq Model
    BY <1>1 DEF MInv, TypeOK
  <2> QED BY <1>2, <1>6, <2>1, <2>2 DEF PlaceOK
<1> QED BY <1>1, <1>5, <1>7, <1>8, <1>9, <1>10, SessionStepOK

-----------------------------------------------------------------------------
(* Steps that change rows *)

(* With the lock free there is no row that waits for its commit.           *)
LEMMA NothingPending ==
  ASSUME MInv, NEW j \in Job, NEW m \in Model, writer = NoJob
  PROVE  loaded[j][m] = Nothing => mine[j][m] = Nothing
BY Here, JobAssumption DEF NewOK

(* What a commit makes of a row that was read: both items it may write are *)
(* backed, and it switches off only what its copy was right to switch off. *)
LEMMA WrittenRow ==
  ASSUME MInv, NEW j \in Job, NEW m \in Changed(j), ~ Stale(j), loaded[j][m] # Nothing
  PROVE  /\ SameRow(j, m) /\ row[m] \in Row
         /\ Written(j, m) \in Row
         /\ Written(j, m).id = row[m].id
         /\ Backed(Written(j, m), m)
         /\ Written(j, m).active => row[m].active
         /\ \/ Written(j, m).active
            \/ ~ row[m].active
            \/ failures[m] >= Threshold /\ m \in unlisted
         /\ \/ Written(j, m).meta = row[m].meta
            \/ Written(j, m).meta = mine[j][m].meta /\ mine[j][m].meta # loaded[j][m].meta
<1> DEFINE on   == IF mine[j][m].active # loaded[j][m].active THEN mine[j][m].active ELSE row[m].active
           data == IF mine[j][m].meta # loaded[j][m].meta THEN mine[j][m].meta ELSE row[m].meta
           v    == [row[m] EXCEPT !.active = on, !.meta = data]
<1>1. m \in Model /\ SameRow(j, m)
  BY DEF Changed, Stale
<1>2. /\ row[m] \in Row /\ row[m] # Nothing /\ mine[j][m] \in Row /\ loaded[j][m] \in Row
      /\ mine[j][m] # Nothing /\ CopyOK(j, m) /\ RowOK(m)
  BY <1>1, Here DEF CopyOK, SameRow
<1>3. /\ row[m].active \in BOOLEAN /\ mine[j][m].active \in BOOLEAN /\ loaded[j][m].active \in BOOLEAN
      /\ row[m].meta \in Meta /\ mine[j][m].meta \in Meta
  BY <1>2, RowFields
<1>4. /\ Backed(mine[j][m], m) /\ Backed(row[m], m)
      /\ mine[j][m].active => loaded[j][m].active
      /\ mine[j][m].active \/ ~ loaded[j][m].active \/ (failures[m] >= Threshold /\ m \in unlisted)
  BY <1>1, <1>2 DEF CopyOK, RowOK
<1>5. Written(j, m) = v
  BY DEF Written
<1>6. on \in BOOLEAN /\ data \in Meta
  BY <1>3
<1>7. on => row[m].active
  BY <1>3, <1>4
<1>8. on \/ ~ row[m].active \/ (failures[m] >= Threshold /\ m \in unlisted)
  BY <1>3, <1>4
<1>9. data = row[m].meta \/ (data = mine[j][m].meta /\ mine[j][m].meta # loaded[j][m].meta)
  OBVIOUS
<1> HIDE DEF on, data
<1>10. v \in Row /\ v.id = row[m].id /\ v.active = on /\ v.meta = data
  BY <1>2, <1>6 DEF Row
<1> HIDE DEF v
<1>11. Backed(v, m)
  BY <1>4, <1>9, <1>10 DEF Backed
<1> QED BY <1>1, <1>2, <1>5, <1>7, <1>8, <1>9, <1>10, <1>11

LEMMA CommitStep == ASSUME MInv, NEW j \in Job, Commit(j) PROVE MInv'
<1>1. /\ ~ Stale(j)
      /\ NeedsLock(j) => MayWrite(j)
      /\ row' = [m \in Model |-> IF m \in Changed(j) THEN Written(j, m) ELSE row[m]]
      /\ UNCHANGED << failures, unlisted, starts, inserts >>
  BY DEF Commit
<1>2. Changed(j) # {} => MayWrite(j)
  BY <1>1 DEF NeedsLock
<1>3. ASSUME NEW m \in Model
      PROVE  /\ row'[m] \in Row \cup {Nothing}
             /\ \/ row'[m] = row[m]
                \/ row[m] # Nothing /\ row'[m] # Nothing /\ row'[m].id = row[m].id
                \/ loaded[j][m] = Nothing /\ mine[j][m] # Nothing /\ row'[m] = mine[j][m]
             /\ row'[m] # Nothing => row'[m].id <= inserts /\ Backed(row'[m], m)
  <2>0. RowOK(m) /\ row[m] \in Row \cup {Nothing} /\ NewOK(j, m) /\ mine[j][m] \in Row \cup {Nothing} /\ failures[m] \in Nat
    BY Here
  <2>1. CASE m \notin Changed(j)
    BY <1>1, <2>0, <2>1 DEF RowOK
  <2>2. CASE m \in Changed(j) /\ loaded[j][m] # Nothing
    <3>1. /\ SameRow(j, m) /\ Written(j, m) \in Row /\ Written(j, m).id = row[m].id
          /\ Backed(Written(j, m), m)
      BY <1>1, <2>2, WrittenRow
    <3> QED BY <1>1, <2>0, <2>2, <3>1, RowFields DEF RowOK, SameRow
  <2>3. CASE m \in Changed(j) /\ loaded[j][m] = Nothing
    <3>1. row'[m] = mine[j][m] /\ mine[j][m] # Nothing
      BY <1>1, <2>3 DEF Written, Changed
    <3> QED BY <2>0, <2>3, <3>1 DEF NewOK, Backed
  <2> QED BY <2>1, <2>2, <2>3
<1>4. TypeOK'
  <2>1. row' \in [Model -> Row \cup {Nothing}]
    BY <1>1, <1>3
  <2>2. tx' \in [Job -> {"none", "open", "pinned", "doomed"}]
    BY DEF Commit, Outdated, MInv, TypeOK
  <2> QED BY <2>1, <2>2 DEF Commit, Ended, Goto, MInv, TypeOK, Places, Empty
<1>5. /\ loaded'[j] = Empty /\ mine'[j] = Empty /\ pc'[j] = "idle" /\ Elsewhere(j)
      /\ writer' = IF writer = j THEN NoJob ELSE writer
  BY DEF Commit, Ended, Goto, MInv, TypeOK, Elsewhere
<1>6. ASSUME NEW m \in Model PROVE RowOK(m)'
  <2>1. row'[m] # Nothing => row'[m].id <= inserts' /\ Backed(row[m], m)'
    BY <1>1, <1>3 DEF Backed
  <2> QED BY <2>1 DEF RowOK
<1>7. ASSUME NEW m \in Model PROVE CopyOK(j, m)' /\ NewOK(j, m)'
  BY <1>5 DEF CopyOK, NewOK, Empty
<1>8. ASSUME NEW k \in Job, NEW m \in Model, k # j PROVE CopyOK(k, m)' /\ NewOK(k, m)'
  <2>1. /\ loaded'[k][m] = loaded[k][m] /\ mine'[k][m] = mine[k][m]
        /\ inserts' = inserts /\ inserts \in Nat /\ failures' = failures /\ failures[m] \in Nat
        /\ unlisted' = unlisted
    BY <1>1, <1>5, <1>8, Here DEF Elsewhere
  <2>2. CASE loaded[k][m] # Nothing
    <3>1. SameRow(k, m)' => SameRow(k, m)
      <4>1. mine[k][m].id = loaded[k][m].id
        BY <2>2, Here DEF CopyOK
      <4>2. NewOK(j, m)
        BY Here
      <4> QED BY <1>3, <2>1, <2>2, <4>1, <4>2 DEF SameRow, NewOK
    <3>2. CopyOK(k, m)'
      BY <2>1, <3>1, KeptCopy
    <3> QED BY <2>1, <2>2, <3>2 DEF NewOK
  <2>3. CASE loaded[k][m] = Nothing
    <3>1. CopyOK(k, m)'
      BY <2>1, <2>3 DEF CopyOK
    <3>2. NoneElseRead(m)
      BY <1>5 DEF NoneElseRead, Elsewhere, Empty
    <3>3. writer = k => writer' = k /\ row' = row
      <4> SUFFICES ASSUME writer = k PROVE writer' = k /\ row' = row
        OBVIOUS
      <4>1. Changed(j) = {}
        BY <1>2, <1>8, JobAssumption DEF MayWrite
      <4>2. row \in [Model -> Row \cup {Nothing}]
        BY DEF MInv, TypeOK
      <4> QED BY <1>1, <1>5, <1>8, <4>1, <4>2
    <3>4. NewOK(k, m)'
      BY <2>1, <3>2, <3>3, KeptNew
    <3> QED BY <3>1, <3>4
  <2> QED BY <2>2, <2>3
<1>9. ASSUME NEW k \in Job PROVE PlaceOK(k)'
  <2>1. CASE k = j
    BY <1>5, <2>1 DEF PlaceOK, Empty
  <2>2. CASE k # j
    BY <1>5, <2>2, PlaceKept DEF MInv, Elsewhere
  <2> QED BY <2>1, <2>2
<1>10. ASSUME NEW k \in Job, NEW m \in Model PROVE CopyOK(k, m)' /\ NewOK(k, m)'
  BY <1>7, <1>8
<1> QED BY <1>4, <1>6, <1>9, <1>10 DEF MInv

(* A model that has no row gets one, or will when a transaction commits:   *)
(* its id is new and its history empty, so nothing is said of any copy.    *)
LEMMA InsertionElsewhere ==
  ASSUME MInv, NEW m \in Model, row[m] = Nothing, Forget(m),
         \A n \in Model \ {m} : row'[n] = row[n],
         row'[m] # Nothing => row'[m].id = inserts + 1,
         NEW k \in Job, NEW n \in Model,
         loaded'[k][n] = loaded[k][n], mine'[k][n] = mine[k][n]
  PROVE  CopyOK(k, n)'
<1>1. inserts \in Nat /\ inserts' = inserts + 1 /\ failures[n] \in Nat
  BY Here DEF Forget
<1>2. CASE n # m
  <2>1. failures'[n] = failures[n] /\ (n \in unlisted => n \in unlisted')
    BY <1>2 DEF Forget, MInv, TypeOK
  <2>2. SameRow(k, n)' => SameRow(k, n)
    BY <1>2 DEF SameRow
  <2> QED BY <1>1, <2>1, <2>2, KeptCopy
<1>3. CASE n = m
  <2>1. failures'[n] = 0
    BY <1>3 DEF Forget, MInv, TypeOK
  <2> SUFFICES ASSUME loaded[k][m] # Nothing PROVE CopyOK(k, n)'
    BY <1>3 DEF CopyOK
  <2>2. mine[k][m].id = loaded[k][m].id /\ loaded[k][m].id <= inserts /\ mine[k][m].id \in Nat
    BY Here DEF CopyOK
  <2>3. ~ SameRow(k, n)'
    BY <1>1, <1>3, <2>2 DEF SameRow
  <2> QED BY <1>1, <2>1, <2>3, KeptCopy
<1> QED BY <1>2, <1>3

LEMMA InsertionRows ==
  ASSUME MInv, NEW m \in Model, Forget(m),
         \A n \in Model \ {m} : row'[n] = row[n],
         row'[m] # Nothing =>
           row'[m].id = inserts + 1 /\ Count(row'[m].meta) = 0 /\ ~ row'[m].meta.missing,
         NEW n \in Model
  PROVE  RowOK(n)'
<1>1. inserts \in Nat /\ inserts' = inserts + 1 /\ RowOK(n) /\ row[n] \in Row \cup {Nothing}
  <2>1. RowOK(n) /\ row[n] \in Row \cup {Nothing} /\ inserts \in Nat
    BY DEF MInv, TypeOK
  <2> QED BY <2>1 DEF Forget
<1>2. CASE n = m
  <2>1. failures'[m] = 0
    BY DEF Forget, MInv, TypeOK
  <2> QED BY <1>1, <1>2, <2>1 DEF RowOK, Backed
<1>3. CASE n # m
  <2>1. failures'[n] = failures[n] /\ (n \in unlisted => n \in unlisted')
    BY <1>3 DEF Forget, MInv, TypeOK
  <2>2. row[n] # Nothing => row[n].id \in Nat
    BY <1>1, RowFields
  <2> QED BY <1>1, <1>3, <2>1, <2>2 DEF RowOK, Backed
<1> QED BY <1>2, <1>3

LEMMA ForgetTypes ==
  ASSUME TypeOK, NEW m \in Model, Forget(m)
  PROVE  inserts' \in Nat /\ failures' \in [Model -> Nat] /\ unlisted' \subseteq Model
BY DEF TypeOK, Forget

LEMMA InsertAloneStep == ASSUME MInv, NEW j \in Importer, InsertAlone(j) PROVE MInv'
<1> DEFINE m == cur[j]
           v == NewRow(offer[j])
<1>1. j \in Job
  BY DEF Job
<1>2. /\ pc[j] = "inserting" /\ writer = NoJob /\ row[m] = Nothing
      /\ row' = [row EXCEPT ![m] = v]
      /\ loaded' = [loaded EXCEPT ![j][m] = row'[m]]
      /\ mine' = [mine EXCEPT ![j][m] = row'[m]]
      /\ Forget(m)
      /\ tx' = Outdated
      /\ cur' = [cur EXCEPT ![j] = Nothing]
      /\ pc' = [pc EXCEPT ![j] = "importing"]
      /\ UNCHANGED << provider, writer, todo, offer, alive, down, starts >>
  BY DEF InsertAlone, Goto
<1>3. m \in Model \ todo[j]
  BY <1>1, <1>2 DEF MInv, PlaceOK
<1>4. /\ v \in Row /\ v # Nothing /\ v.active /\ v.id = inserts + 1
      /\ Count(v.meta) = 0 /\ ~ v.meta.missing
  BY <1>1, FreshRow, RowFields DEF MInv, TypeOK
<1> HIDE DEF m, v
<1>5. /\ row'[m] = v /\ \A n \in Model \ {m} : row'[n] = row[n]
      /\ loaded'[j][m] = v /\ mine'[j][m] = v
      /\ \A n \in Model \ {m} : loaded'[j][n] = loaded[j][n] /\ mine'[j][n] = mine[j][n]
      /\ \A k \in Job \ {j} : loaded'[k] = loaded[k] /\ mine'[k] = mine[k] /\ pc'[k] = pc[k] /\ cur'[k] = cur[k]
      /\ pc'[j] = "importing"
  BY <1>1, <1>2, <1>3 DEF MInv, TypeOK
<1>6. TypeOK'
  <2>1. row' \in [Model -> Row \cup {Nothing}]
    BY <1>2, <1>4 DEF MInv, TypeOK
  <2>2. loaded' \in [Job -> [Model -> Row \cup {Nothing}]] /\ mine' \in [Job -> [Model -> Row \cup {Nothing}]]
    BY <1>2, <1>4, <1>5 DEF MInv, TypeOK
  <2>3. tx' \in [Job -> {"none", "open", "pinned", "doomed"}]
    BY <1>2 DEF Outdated, MInv, TypeOK
  <2>4. cur' \in [Job -> Model \cup {Nothing}] /\ pc' \in [Job -> Places]
    BY <1>2 DEF MInv, TypeOK, Places
  <2>5. inserts' \in Nat /\ failures' \in [Model -> Nat] /\ unlisted' \subseteq Model
    BY <1>2, <1>3, ForgetTypes DEF MInv
  <2> QED BY <1>2, <2>1, <2>2, <2>3, <2>4, <2>5 DEF MInv, TypeOK
<1>7. ASSUME NEW n \in Model PROVE RowOK(n)'
  BY <1>2, <1>3, <1>4, <1>5, InsertionRows
<1>8. ASSUME NEW k \in Job, NEW n \in Model PROVE CopyOK(k, n)' /\ NewOK(k, n)'
  <2>1. CASE k = j /\ n = m
    <3>0. mine'[k][n] = v /\ loaded'[k][n] = v
      BY <1>5, <2>1
    <3>1. Backed(mine[k][n], n)'
      <4>1. failures'[n] = 0
        BY <1>2, <1>3, <2>1 DEF Forget, MInv, TypeOK
      <4> QED BY <1>4, <3>0, <4>1 DEF Backed
    <3>2. v.id <= inserts'
      BY <1>2, <1>4 DEF Forget, MInv, TypeOK
    <3> QED BY <1>4, <3>0, <3>1, <3>2 DEF CopyOK, NewOK
  <2>2. CASE k # j \/ n # m
    <3>1. loaded'[k][n] = loaded[k][n] /\ mine'[k][n] = mine[k][n]
      BY <1>5, <2>2
    <3>2. CopyOK(k, n)'
      BY <1>2, <1>3, <1>4, <1>5, <3>1, InsertionElsewhere
    <3>3. NewOK(k, n)'
      BY <1>2, <3>1, NothingPending DEF NewOK
    <3> QED BY <3>2, <3>3
  <2> QED BY <2>1, <2>2
<1>9. ASSUME NEW k \in Job PROVE PlaceOK(k)'
  <2>1. CASE k = j
    <3>1. \A n \in todo[j] : loaded[j][n] = Nothing /\ mine[j][n] = Nothing
      BY <1>1, <1>2 DEF MInv, PlaceOK
    <3>2. todo'[j] = todo[j] /\ todo[j] \subseteq Model
      BY <1>1, <1>2 DEF MInv, TypeOK
    <3> QED BY <1>3, <1>5, <2>1, <3>1, <3>2 DEF PlaceOK
  <2>2. CASE k # j
    BY <1>2, <1>5, <2>2, PlaceKept DEF MInv
  <2> QED BY <2>1, <2>2
<1> QED BY <1>6, <1>7, <1>8, <1>9 DEF MInv

LEMMA InsertInsideStep == ASSUME MInv, NEW j \in Importer, InsertInside(j) PROVE MInv'
<1> DEFINE m == cur[j]
           v == NewRow(offer[j])
<1>1. j \in Job
  BY DEF Job
<1>2. /\ pc[j] = "inserting" /\ MayWrite(j) /\ row[m] = Nothing
      /\ writer' = j
      /\ mine' = [mine EXCEPT ![j][m] = v]
      /\ Forget(m)
      /\ cur' = [cur EXCEPT ![j] = Nothing]
      /\ pc' = [pc EXCEPT ![j] = "importing"]
      /\ UNCHANGED << row, provider, tx, loaded, todo, offer, alive, down, starts >>
  BY DEF InsertInside, Goto
<1>3. m \in Model \ todo[j] /\ loaded[j][m] = Nothing
  BY <1>1, <1>2 DEF MInv, PlaceOK
<1>4. /\ v \in Row /\ v # Nothing /\ v.active /\ v.id = inserts + 1
      /\ Count(v.meta) = 0 /\ ~ v.meta.missing
  BY <1>1, FreshRow, RowFields DEF MInv, TypeOK
<1> HIDE DEF m, v
<1>5. /\ mine'[j][m] = v
      /\ \A n \in Model \ {m} : mine'[j][n] = mine[j][n]
      /\ \A k \in Job \ {j} : mine'[k] = mine[k] /\ pc'[k] = pc[k] /\ cur'[k] = cur[k]
      /\ pc'[j] = "importing"
  BY <1>1, <1>2, <1>3 DEF MInv, TypeOK
<1>6. TypeOK'
  <2>1. mine' \in [Job -> [Model -> Row \cup {Nothing}]]
    BY <1>2, <1>4 DEF MInv, TypeOK
  <2>2. cur' \in [Job -> Model \cup {Nothing}] /\ pc' \in [Job -> Places]
    BY <1>2 DEF MInv, TypeOK, Places
  <2>3. inserts' \in Nat /\ failures' \in [Model -> Nat] /\ unlisted' \subseteq Model
    BY <1>2, <1>3, ForgetTypes DEF MInv
  <2> QED BY <1>1, <1>2, <2>1, <2>2, <2>3 DEF MInv, TypeOK
<1>7. ASSUME NEW n \in Model PROVE RowOK(n)'
  BY <1>2, <1>3, InsertionRows
<1>8. ASSUME NEW k \in Job, NEW n \in Model PROVE CopyOK(k, n)' /\ NewOK(k, n)'
  <2>0. inserts \in Nat /\ inserts' = inserts + 1
    BY <1>2 DEF Forget, MInv, TypeOK
  <2>1. CASE k = j /\ n = m
    <3>1. ASSUME NEW i \in Job, loaded'[i][m] # Nothing PROVE loaded'[i][m].id # v.id
      <4>1. CopyOK(i, m) /\ loaded[i][m] # Nothing /\ mine[i][m] \in Row
        BY <1>2, <1>3, <3>1, Here DEF CopyOK
      <4>2. loaded[i][m].id <= inserts /\ loaded[i][m].id \in Nat
        BY <4>1, RowFields DEF CopyOK
      <4> QED BY <1>2, <1>4, <2>0, <4>2
    <3> QED BY <1>2, <1>3, <1>4, <1>5, <2>0, <2>1, <3>1 DEF CopyOK, NewOK
  <2>2. CASE k # j \/ n # m
    <3>1. loaded'[k][n] = loaded[k][n] /\ mine'[k][n] = mine[k][n]
      BY <1>2, <1>5, <2>2
    <3>2. CopyOK(k, n)'
      BY <1>2, <1>3, <3>1, InsertionElsewhere
    <3>3. NoneElseRead(n)
      BY <1>2 DEF NoneElseRead
    <3>4. writer = k => writer' = k /\ row' = row
      BY <1>2, JobAssumption DEF MayWrite
    <3>5. NewOK(k, n)'
      BY <2>0, <3>1, <3>3, <3>4, KeptNew
    <3> QED BY <3>2, <3>5
  <2> QED BY <2>1, <2>2
<1>9. ASSUME NEW k \in Job PROVE PlaceOK(k)'
  <2>1. CASE k = j
    <3>1. \A n \in todo[j] : loaded[j][n] = Nothing /\ mine[j][n] = Nothing
      BY <1>1, <1>2 DEF MInv, PlaceOK
    <3>2. todo[j] \subseteq Model
      BY <1>1 DEF MInv, TypeOK
    <3> QED BY <1>2, <1>3, <1>5, <2>1, <3>1, <3>2 DEF PlaceOK
  <2>2. CASE k # j
    BY <1>2, <1>5, <2>2, PlaceKept DEF MInv
  <2> QED BY <2>1, <2>2
<1> QED BY <1>6, <1>7, <1>8, <1>9 DEF MInv

LEMMA AddModelStep == ASSUME MInv, NEW m \in Model, AddModel(m) PROVE MInv'
<1>1. PICK active \in BOOLEAN : row' = [row EXCEPT ![m] = [NewRow("none") EXCEPT !.active = active]]
  BY DEF AddModel
<1> DEFINE v == [NewRow("none") EXCEPT !.active = active]
<1>2. v \in Row /\ v # Nothing /\ v.id = inserts + 1 /\ Count(v.meta) = 0 /\ ~ v.meta.missing
  <2>1. inserts \in Nat
    BY DEF MInv, TypeOK
  <2>2. NewRow("none") \in Row /\ NewRow("none").id = inserts + 1
        /\ Count(NewRow("none").meta) = 0 /\ ~ NewRow("none").meta.missing
    BY <2>1, FreshRow
  <2>3. v \in Row /\ v.id = NewRow("none").id /\ v.meta = NewRow("none").meta
    BY <2>2, SwitchedRow
  <2> QED BY <2>2, <2>3, RowFields
<1> HIDE DEF v
<1>3. /\ row' = [row EXCEPT ![m] = v]
      /\ writer = NoJob /\ row[m] = Nothing /\ Forget(m) /\ tx' = Outdated
      /\ UNCHANGED << provider, writer, copies, starts >>
  BY <1>1 DEF AddModel, v
<1>4. row'[m] = v /\ \A n \in Model \ {m} : row'[n] = row[n]
  BY <1>3 DEF MInv, TypeOK
<1>5. UNCHANGED << pc, loaded, mine, todo, cur, offer, alive, down >>
  BY <1>3 DEF copies
<1>6. TypeOK'
  <2>1. row' \in [Model -> Row \cup {Nothing}]
    BY <1>2, <1>3 DEF MInv, TypeOK
  <2>2. tx' \in [Job -> {"none", "open", "pinned", "doomed"}]
    BY <1>3 DEF Outdated, MInv, TypeOK
  <2>3. inserts' \in Nat /\ failures' \in [Model -> Nat] /\ unlisted' \subseteq Model
    BY <1>3, ForgetTypes DEF MInv
  <2> QED BY <1>3, <1>5, <2>1, <2>2, <2>3 DEF MInv, TypeOK
<1>7. ASSUME NEW n \in Model PROVE RowOK(n)'
  BY <1>2, <1>3, <1>4, InsertionRows
<1>8. ASSUME NEW k \in Job, NEW n \in Model PROVE CopyOK(k, n)' /\ NewOK(k, n)'
  <2>1. CopyOK(k, n)'
    BY <1>2, <1>3, <1>4, <1>5, InsertionElsewhere
  <2>2. NewOK(k, n)'
    BY <1>3, <1>5, NothingPending DEF NewOK
  <2> QED BY <2>1, <2>2
<1>9. ASSUME NEW k \in Job PROVE PlaceOK(k)'
  BY <1>5, PlaceKept DEF MInv
<1> QED BY <1>6, <1>7, <1>8, <1>9 DEF MInv

LEMMA DeleteModelStep == ASSUME MInv, NEW m \in Model, DeleteModel(m) PROVE MInv'
<1>1. /\ writer = NoJob /\ row' = [row EXCEPT ![m] = Nothing] /\ tx' = Outdated
      /\ UNCHANGED << provider, writer, copies, failures, unlisted, starts, inserts >>
  BY DEF DeleteModel
<1>2. UNCHANGED << pc, loaded, mine, todo, cur, offer, alive, down >>
  BY <1>1 DEF copies
<1>3. \A n \in Model : row'[n] \in {row[n], Nothing}
  BY <1>1 DEF MInv, TypeOK
<1>4. TypeOK'
  <2>1. tx' \in [Job -> {"none", "open", "pinned", "doomed"}]
    BY <1>1 DEF Outdated, MInv, TypeOK
  <2>2. row' \in [Model -> Row \cup {Nothing}]
    BY <1>1 DEF MInv, TypeOK
  <2> QED BY <1>1, <1>2, <2>1, <2>2 DEF MInv, TypeOK
<1>5. ASSUME NEW n \in Model PROVE RowOK(n)'
  BY <1>1, <1>3 DEF MInv, RowOK, Backed
<1>6. ASSUME NEW k \in Job, NEW n \in Model PROVE CopyOK(k, n)' /\ NewOK(k, n)'
  <2>1. SameRow(k, n)' => SameRow(k, n)
    BY <1>2, <1>3 DEF SameRow
  <2>2. inserts \in Nat /\ failures[n] \in Nat
    BY DEF MInv, TypeOK
  <2>3. CopyOK(k, n)'
    BY <1>1, <1>2, <2>1, <2>2, KeptCopy
  <2>4. NewOK(k, n)'
    BY <1>1, <1>2, NothingPending DEF NewOK
  <2> QED BY <2>3, <2>4
<1>7. ASSUME NEW k \in Job PROVE PlaceOK(k)'
  BY <1>2, PlaceKept DEF MInv
<1> QED BY <1>4, <1>5, <1>6, <1>7 DEF MInv

-----------------------------------------------------------------------------
(* The whole *)

(* A step that changes no row, copy or observation.                        *)
LEMMA NothingMoves ==
  ASSUME MInv, TypeOK', UNCHANGED << row, writer, copies, failures, unlisted, inserts >>
  PROVE  MInv'
<1>1. UNCHANGED << pc, loaded, mine, todo, cur >>
  BY DEF copies
<1>2. ASSUME NEW m \in Model PROVE RowOK(m)'
  BY DEF MInv, RowOK, Backed
<1>3. ASSUME NEW k \in Job, NEW m \in Model PROVE CopyOK(k, m)' /\ NewOK(k, m)'
  <2>1. CopyOK(k, m) /\ NewOK(k, m)
    BY DEF MInv
  <2> QED BY <1>1, <2>1 DEF CopyOK, NewOK, SameRow, Backed
<1>4. ASSUME NEW k \in Job PROVE PlaceOK(k)'
  BY <1>1, PlaceKept DEF MInv
<1> QED BY <1>2, <1>3, <1>4 DEF MInv

LEMMA ReactivateStep == ASSUME MInv, Reactivate PROVE MInv'
<1>1. TypeOK'
  <2>1. tx' \in [Job -> {"none", "open", "pinned", "doomed"}]
    BY DEF Reactivate, Outdated, MInv, TypeOK
  <2> QED BY <2>1 DEF Reactivate, copies, MInv, TypeOK
<1> QED BY <1>1, NothingMoves DEF Reactivate

LEMMA CrashStep == ASSUME MInv, Crash PROVE MInv'
<1>1. TypeOK'
  BY DEF Crash, MInv, TypeOK, Places, Empty
<1>2. \A j \in Job : pc'[j] = "idle" /\ loaded'[j] = Empty /\ mine'[j] = Empty
  BY DEF Crash
<1>3. ASSUME NEW m \in Model PROVE RowOK(m)'
  BY DEF Crash, MInv, RowOK, Backed
<1>4. ASSUME NEW k \in Job, NEW m \in Model PROVE CopyOK(k, m)' /\ NewOK(k, m)'
  BY <1>2 DEF CopyOK, NewOK, Empty
<1>5. ASSUME NEW k \in Job PROVE PlaceOK(k)'
  BY <1>2 DEF PlaceOK, Empty
<1> QED BY <1>1, <1>3, <1>4, <1>5 DEF MInv

LEMMA InitMInv == Init => MInv
<1> SUFFICES ASSUME Init PROVE MInv
  OBVIOUS
<1>1. \A m \in Model : row[m] # Nothing => row[m] \in Row /\ row[m].id = 0 /\ Count(row[m].meta) \in Nat
  BY DataAssumption, RowFields DEF Init
<1>2. TypeOK
  <2>1. row \in [Model -> Row \cup {Nothing}]
    BY DataAssumption DEF Init
  <2>2. failures \in [Model -> Nat]
    BY <1>1 DEF Init
  <2> QED BY <2>1, <2>2, BoundAssumption DEF Init, TypeOK, Places, Empty
<1>3. ASSUME NEW m \in Model PROVE RowOK(m)
  BY <1>1 DEF Init, RowOK, Backed
<1>4. ASSUME NEW k \in Job, NEW m \in Model PROVE CopyOK(k, m) /\ NewOK(k, m)
  BY DEF Init, CopyOK, NewOK, Empty
<1>5. ASSUME NEW k \in Job PROVE PlaceOK(k)
  BY DEF Init, PlaceOK
<1> QED BY <1>2, <1>3, <1>4, <1>5 DEF MInv

LEMMA StepMInv == MInv /\ [Next]_vars => MInv'
<1> SUFFICES ASSUME MInv, [Next]_vars PROVE MInv'
  OBVIOUS
<1>1. ASSUME NEW j \in Cleaner, Clean(j) PROVE MInv'
  <2>1. UnreachableLocked(j) => MInv'
    BY RollBackStep DEF UnreachableLocked, Job
  <2> QED BY <1>1, <2>1, ReachedStep, UnreachableStep, ProbeStep, ListStep DEF Clean
<1>2. ASSUME NEW j \in Importer, Import(j) PROVE MInv'
  <2>1. FlushFails(j) => MInv'
    BY RollBackStep DEF FlushFails, Job
  <2> QED BY <1>2, <2>1, MergeModelStep, MissModelStep, InsertAloneStep, InsertInsideStep,
             SkipStep, ImportedStep, TestStep DEF Import
<1>3. ASSUME NEW j \in Job, Finish(j) PROVE MInv'
  BY <1>3, CommitStep, RollBackStep DEF Finish, CommitStale, CommitLocked
<1>4. ASSUME NEW j \in Job, Proceed(j) PROVE MInv'
  BY <1>1, <1>2, <1>3, <1>4, RollBackStep DEF Proceed, Doomed
<1>5. ASSUME NEW j \in Importer, Abandon(j) PROVE MInv'
  BY <1>5, RollBackStep DEF Abandon, Job
<1>6. CASE UNCHANGED vars
  <2>1. TypeOK'
    BY <1>6 DEF vars, session, copies, MInv, TypeOK
  <2> QED BY <1>6, <2>1, NothingMoves DEF vars, session
<1> QED BY <1>4, <1>5, <1>6, BeginStep, DiscoverStep, OverrideStep, AddModelStep,
           DeleteModelStep, ReactivateStep, CrashStep DEF Next

LEMMA MInvHolds == Spec => []MInv
BY InitMInv, StepMInv, PTL DEF Spec

(* Every variable keeps its type: only cleaners that read the provider as  *)
(* active ever mark it, and an insert always has a model to insert.        *)
THEOREM TypeCorrect == Spec => []TypeOK
<1>1. MInv => TypeOK
  BY DEF MInv
<1> QED BY <1>1, MInvHolds, PTL

-----------------------------------------------------------------------------
(* What may happen to a row *)

(* Only commits, inserts and deletions touch rows.                         *)
LEMMA WhoWrites ==
  ASSUME Next
  PROVE  \/ row' = row
         \/ \E j \in Job : Commit(j)
         \/ \E j \in Importer : InsertAlone(j)
         \/ \E m \in Model : AddModel(m) \/ DeleteModel(m)
<1>1. ASSUME NEW j \in Job, RollBack(j) PROVE row' = row
  BY <1>1 DEF RollBack
<1>2. ASSUME NEW j \in Cleaner, Clean(j) PROVE row' = row
  BY <1>2, <1>1 DEF Clean, Reached, Unreachable, Load, UnreachableLocked, Probe, List, RollBack
<1>3. ASSUME NEW j \in Importer, Import(j) PROVE row' = row \/ InsertAlone(j)
  BY <1>3 DEF Import, MergeModel, MissModel, InsertInside, SkipConflict, SkipLocked, FlushFails,
              RollBack, Imported, Test, Tested
<1>4. ASSUME NEW j \in Job, Proceed(j) PROVE row' = row \/ Commit(j) \/ (j \in Importer /\ InsertAlone(j))
  BY <1>1, <1>2, <1>3, <1>4 DEF Proceed, Finish, CommitStale, CommitLocked, Doomed
<1>5. ASSUME NEW j \in Importer, Abandon(j) PROVE row' = row
  BY <1>5 DEF Abandon, RollBack
<1> QED BY <1>4, <1>5 DEF Next, Begin, Discover, Override, Reactivate, Crash

(* A row that stays changes only by the commit of a job that has a changed *)
(* copy of it.                                                             *)
LEMMA WhoChanges ==
  ASSUME MInv, Next, NEW m \in Model, StillThere(m), row'[m] # row[m]
  PROVE  \E j \in Job : /\ Commit(j) /\ m \in Changed(j) /\ ~ Stale(j)
                        /\ loaded[j][m] # Nothing
                        /\ row'[m] = Written(j, m)
<1>1. ASSUME NEW j \in Importer, InsertAlone(j) PROVE FALSE
  <2>1. row[cur[j]] = Nothing /\ row' = [row EXCEPT ![cur[j]] = NewRow(offer[j])]
    BY <1>1 DEF InsertAlone
  <2> QED BY <2>1 DEF StillThere, MInv, TypeOK
<1>2. ASSUME NEW n \in Model, AddModel(n) \/ DeleteModel(n) PROVE FALSE
  <2>1. CASE AddModel(n)
    <3>1. PICK v : row[n] = Nothing /\ row' = [row EXCEPT ![n] = v]
      BY <2>1 DEF AddModel
    <3> QED BY <3>1 DEF StillThere, MInv, TypeOK
  <2>2. CASE DeleteModel(n)
    <3>1. row' = [row EXCEPT ![n] = Nothing]
      BY <2>2 DEF DeleteModel
    <3> QED BY <3>1 DEF StillThere, MInv, TypeOK
  <2> QED BY <1>2, <2>1, <2>2
<1>3. PICK j \in Job : Commit(j)
  BY <1>1, <1>2, WhoWrites
<1>4. /\ ~ Stale(j)
      /\ row'[m] = IF m \in Changed(j) THEN Written(j, m) ELSE row[m]
  BY <1>3 DEF Commit
<1>5. m \in Changed(j) /\ row'[m] = Written(j, m)
  BY <1>4
<1>6. loaded[j][m] # Nothing
  <2> SUFFICES ASSUME loaded[j][m] = Nothing PROVE FALSE
    OBVIOUS
  <2>1. mine[j][m] # Nothing
    BY <1>5 DEF Changed
  <2>2. row[m] = Nothing
    BY <2>1, Here DEF NewOK
  <2> QED BY <2>2 DEF StillThere
<1> QED BY <1>3, <1>4, <1>5, <1>6

(* A model is switched off only after its row has failed Threshold probes  *)
(* and a listing has lacked it, whatever copies of it were about.          *)
THEOREM DeactivationIsEarned == Spec => DeactivationEarned
<1> DEFINE Earned(m) ==
             StillThere(m) /\ row[m].active /\ ~ row'[m].active
               => failures[m] >= Threshold /\ m \in unlisted
<1>1. ASSUME MInv, Next, NEW m \in Model PROVE Earned(m)
  <2> SUFFICES ASSUME StillThere(m), row[m].active, ~ row'[m].active
               PROVE  failures[m] >= Threshold /\ m \in unlisted
    OBVIOUS
  <2>1. row'[m] # row[m]
    OBVIOUS
  <2>2. PICK j \in Job : /\ Commit(j) /\ m \in Changed(j) /\ ~ Stale(j)
                         /\ loaded[j][m] # Nothing
                         /\ row'[m] = Written(j, m)
    BY <1>1, <2>1, WhoChanges
  <2> QED BY <1>1, <2>2, WrittenRow
<1>2. MInv /\ [Next]_vars =>
        [\A m \in Model :
           StillThere(m) /\ row[m].active /\ ~ row'[m].active
             => failures[m] >= Threshold /\ m \in unlisted]_vars
  BY <1>1
<1> QED BY <1>2, MInvHolds, PTL DEF Spec, DeactivationEarned

(* A model that is switched off stays so as long as its row is there.      *)
THEOREM DeactivatedStaysSo == Spec => NeverReactivated
<1>1. ASSUME MInv, Next, NEW m \in Model, StillThere(m), ~ row[m].active
      PROVE  ~ row'[m].active
  <2>1. CASE row'[m] = row[m]
    BY <1>1, <2>1
  <2>2. CASE row'[m] # row[m]
    <3>1. PICK j \in Job : /\ Commit(j) /\ m \in Changed(j) /\ ~ Stale(j)
                           /\ loaded[j][m] # Nothing
                           /\ row'[m] = Written(j, m)
      BY <1>1, <2>2, WhoChanges
    <3> QED BY <1>1, <3>1, WrittenRow
  <2> QED BY <2>1, <2>2
<1>2. MInv /\ [Next]_vars =>
        [\A m \in Model : StillThere(m) /\ ~ row[m].active => ~ row'[m].active]_vars
  BY <1>1
<1> QED BY <1>2, MInvHolds, PTL DEF Spec, NeverReactivated

(* A manual price is replaced only by the commit of an override or of a    *)
(* job that had read another price.                                        *)
THEOREM ManualIsRespected == Spec => ManualRespected
<1>1. ASSUME MInv, Next, NEW m \in Model, StillThere(m),
             row[m].meta.price \in Manual, row'[m].meta.price # row[m].meta.price
      PROVE  \E j \in Job :
               /\ pc[j] = "finishing" /\ pc'[j] = "idle"
               /\ j \in Editor \/ loaded[j][m].meta.price # row[m].meta.price
  <2>1. PICK j \in Job : /\ Commit(j) /\ m \in Changed(j) /\ ~ Stale(j)
                         /\ loaded[j][m] # Nothing
                         /\ row'[m] = Written(j, m)
    BY <1>1, WhoChanges
  <2>2. pc[j] = "finishing" /\ pc'[j] = "idle"
    BY <1>1, <2>1 DEF Commit, Ended, Goto, MInv, TypeOK
  <2>3. row'[m].meta.price = mine[j][m].meta.price
    BY <1>1, <2>1, WrittenRow
  <2>4. CopyOK(j, m)
    BY <1>1, Here
  <2>5. j \in Editor \/ loaded[j][m].meta.price # row[m].meta.price
    BY <1>1, <2>1, <2>3, <2>4 DEF CopyOK
  <2> QED BY <2>2, <2>5
<1>2. MInv /\ [Next]_vars =>
        [\A m \in Model :
           StillThere(m) /\ row[m].meta.price \in Manual /\ row'[m].meta.price # row[m].meta.price
             => \E j \in Job :
                  /\ pc[j] = "finishing" /\ pc'[j] = "idle"
                  /\ j \in Editor \/ loaded[j][m].meta.price # row[m].meta.price]_vars
  BY <1>1
<1> QED BY <1>2, MInvHolds, PTL DEF Spec, ManualRespected

=============================================================================
