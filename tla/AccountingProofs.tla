-------------------------- MODULE AccountingProofs --------------------------
(***************************************************************************)
(* Type correctness of Accounting, that the cost and the flags of a row    *)
(* come from one price, and that an undisturbed override reaches the rows, *)
(* for any number of overrides, requests, prices and listings.             *)
(***************************************************************************)
EXTENDS Accounting, TLAPS

(* ------------------------- prices and rows ----------------------------- *)

LEMMA MetaFields ==
  ASSUME NEW m \in Meta
  PROVE  m.free \in BOOLEAN /\ m.token \in Amounts /\ m.request \in Amounts /\ m.manual \in BOOLEAN
BY DEF Meta

LEMMA CostIsNatural ==
  ASSUME NEW m \in Meta, NEW kind \in Kinds
  PROVE  Cost(m, kind) \in Nat
<1>1. Amount(m.token) \in Nat /\ Amount(m.request) \in Nat
  BY DEF Amount
<1>2. CASE kind = "hit"
  <2>1. Tokens(kind) = 0
    BY <1>2 DEF Tokens
  <2>. QED BY <1>1, <2>1 DEF Cost
<1>3. CASE kind # "hit"
  <2>1. Tokens(kind) = 1
    BY <1>3 DEF Tokens
  <2>. QED BY <1>1, <2>1 DEF Cost
<1>. QED BY <1>2, <1>3

(* The four columns of a row.                                              *)
LEMMA RowFields ==
  ASSUME NEW kind \in Kinds, NEW cost \in Nat, NEW free \in BOOLEAN, NEW known \in BOOLEAN
  PROVE  /\ Row(kind, cost, free, known) \in RowType
         /\ Row(kind, cost, free, known).kind = kind
         /\ Row(kind, cost, free, known).cost = cost
         /\ Row(kind, cost, free, known).free = free
         /\ Row(kind, cost, free, known).known = known
BY DEF Row, RowType

(* A cost and flags that one price explains; `settled` is whether an       *)
(* override has reconciled the row.                                        *)
Priced(row, prices, settled) ==
  /\ row.known \/ row.cost = 0
  /\ IF settled \/ row.kind = "hit"
     THEN row.free => row.cost = 0
     ELSE row.free <=> (row.known /\ row.cost <= Negligible)
  /\ \/ row.cost \in {0, Reported}
     \/ \E m \in prices : ~ m.free /\ row.cost = Cost(m, row.kind)

LEMMA ReconciledRow ==
  ASSUME NEW m \in Meta, NEW row \in RowType, NEW prices, m \in prices
  PROVE  /\ Reconciled(m, row) \in RowType
         /\ Reconciled(m, row).kind = row.kind
         /\ Priced(Reconciled(m, row), prices, TRUE)
<1> DEFINE cost == IF ~ m.free /\ HasEntry(m) THEN Cost(m, row.kind) ELSE 0
           known == m.free \/ HasEntry(m)
<1>1. row.kind \in Kinds /\ m.free \in BOOLEAN
  BY DEF RowType, Meta
<1>2. cost \in Nat /\ known \in BOOLEAN
  BY <1>1, CostIsNatural
<1>3. Reconciled(m, row) = Row(row.kind, cost, m.free, known)
  BY DEF Reconciled
<1>4. (m.free \/ ~ known => cost = 0) /\ (cost = 0 \/ (~ m.free /\ cost = Cost(m, row.kind)))
  OBVIOUS
<1> HIDE DEF cost, known
<1>5. /\ Reconciled(m, row) \in RowType
      /\ Reconciled(m, row).kind = row.kind
      /\ Reconciled(m, row).cost = cost
      /\ Reconciled(m, row).free = m.free
      /\ Reconciled(m, row).known = known
  BY <1>1, <1>2, <1>3, RowFields
<1>. QED BY <1>4, <1>5 DEF Priced

LEMMA InsertedRow ==
  ASSUME NEW m \in Meta, NEW kind \in Kinds, NEW prices, m \in prices
  PROVE  /\ Inserted(m, kind) \in RowType
         /\ Inserted(m, kind).kind = kind
         /\ Priced(Inserted(m, kind), prices, FALSE)
<1> DEFINE cost == CASE m.free \/ kind = "hit" -> 0
                     [] kind = "reported" /\ ~ m.free -> Reported
                     [] OTHER -> IF HasNumber(m) THEN Cost(m, kind) ELSE 0
           known == IF kind = "hit" THEN HasNumber(m) ELSE m.free \/ kind = "reported" \/ HasNumber(m)
           free == m.free \/ (kind # "hit" /\ known /\ cost <= Negligible)
<1>1. m.free \in BOOLEAN /\ HasNumber(m) \in BOOLEAN
  BY DEF Meta, HasNumber
<1>2. cost \in Nat
  <2>1. Reported \in Nat /\ Cost(m, kind) \in Nat
    BY AccountingAssumption, CostIsNatural
  <2>2. CASE m.free \/ kind = "hit"
    BY <2>2
  <2>3. CASE ~ m.free /\ kind = "reported"
    BY <2>1, <2>3
  <2>4. CASE ~ m.free /\ kind \notin {"hit", "reported"}
    BY <2>1, <2>4
  <2>. QED BY <2>2, <2>3, <2>4
<1>3. known \in BOOLEAN
  BY <1>1
<1>4. cost \in {0, Reported} \/ (~ m.free /\ cost = Cost(m, kind))
  OBVIOUS
<1>5. ~ known => cost = 0
  BY <1>1
<1>6. IF kind = "hit" THEN free => cost = 0 ELSE free <=> (known /\ cost <= Negligible)
  <2>1. CASE m.free \/ kind = "hit"
    <3>1. cost = 0 /\ 0 <= Negligible
      BY <2>1, AccountingAssumption
    <3>2. m.free /\ kind # "hit" => known
      OBVIOUS
    <3>. QED BY <1>1, <2>1, <3>1, <3>2
  <2>2. CASE ~ m.free /\ kind # "hit"
    <3>1. free <=> (known /\ cost <= Negligible)
      BY <1>1, <2>2
    <3>. QED BY <2>2, <3>1
  <2>. QED BY <2>1, <2>2
<1>7. Inserted(m, kind) = Row(kind, cost, free, known)
  BY DEF Inserted
<1>8. free \in BOOLEAN
  BY <1>1, <1>3
<1> HIDE DEF cost, known, free
<1>9. /\ Inserted(m, kind) \in RowType
      /\ Inserted(m, kind).kind = kind
      /\ Inserted(m, kind).cost = cost
      /\ Inserted(m, kind).free = free
      /\ Inserted(m, kind).known = known
  BY <1>2, <1>3, <1>7, <1>8, RowFields
<1>. QED BY <1>4, <1>5, <1>6, <1>9 DEF Priced

(* Reconciling twice is reconciling once.                                  *)
LEMMA ReconciledTwice ==
  ASSUME NEW m \in Meta, NEW row \in RowType
  PROVE  Reconciled(m, Reconciled(m, row)) = Reconciled(m, row)
<1>1. Reconciled(m, row).kind = row.kind
  BY ReconciledRow
<1>. QED BY <1>1 DEF Reconciled

(* What an override writes to a row that has not changed since it was read *)
(* is the whole of the reconciled row.                                     *)
LEMMA WrittenUndisturbed ==
  ASSUME NEW e \in Editor, NEW r, copy[e] \in Meta, loaded[e][r] \in RowType, rows[r] = loaded[e][r]
  PROVE  Written(e, r) = Reconciled(copy[e], rows[r])
<1> DEFINE new == Reconciled(copy[e], loaded[e][r])
<1>1. new \in RowType
  BY ReconciledRow
<1>2. new = [c \in DOMAIN new |-> new[c]]
  BY <1>1 DEF RowType
<1>3. Written(e, r) = [c \in DOMAIN new |-> IF new[c] # loaded[e][r][c] THEN new[c] ELSE rows[r][c]]
  BY DEF Written
<1> HIDE DEF new
<1>4. \A c : (IF new[c] # loaded[e][r][c] THEN new[c] ELSE rows[r][c]) = new[c]
  OBVIOUS
<1>5. Written(e, r) = new
  BY <1>2, <1>3, <1>4
<1>. QED BY <1>5 DEF new

LEMMA WrittenRow ==
  ASSUME NEW e \in Editor, NEW r, copy[e] \in Meta, loaded[e][r] \in RowType, rows[r] \in RowType
  PROVE  Written(e, r) \in RowType
<1> DEFINE new == Reconciled(copy[e], loaded[e][r])
<1>1. new \in RowType
  BY ReconciledRow
<1>2. Written(e, r) = [c \in DOMAIN new |-> IF new[c] # loaded[e][r][c] THEN new[c] ELSE rows[r][c]]
  BY DEF Written
<1> HIDE DEF new
<1>3. DOMAIN new = {"kind", "cost", "free", "known"}
  BY <1>1 DEF RowType
<1>. QED BY <1>1, <1>2, <1>3 DEF RowType

(* What an override or a listing makes of the metadata.                    *)
LEMMA ChangedMeta ==
  ASSUME NEW m \in Meta, NEW d \in Edits \cup Listings
  PROVE  Changed(m, d) \in Meta /\ [Changed(m, d) EXCEPT !.manual = TRUE] \in Meta
<1>1. DOMAIN m = {"free", "token", "request", "manual"}
  BY DEF Meta
<1>2. DOMAIN d \subseteq Fields /\ \A f \in DOMAIN d : d[f] \in IF f = "free" THEN BOOLEAN ELSE Amounts
  BY AccountingAssumption
<1>3. "manual" \notin DOMAIN d
  BY <1>2 DEF Fields
<1>4. Changed(m, d) \in Meta
  BY <1>1, <1>2, <1>3, MetaFields DEF Changed, Meta
<1>. QED BY <1>4 DEF Meta

LEMMA PricedStays ==
  ASSUME NEW row, NEW prices, NEW more, NEW settled, Priced(row, prices, settled), prices \subseteq more
  PROVE  Priced(row, more, settled)
BY DEF Priced

LEMMA UnpricedIsMeta == Unpriced \in Meta
BY DEF Unpriced, Meta, Amounts

(* --------------------------- the invariant ----------------------------- *)

(* A price that is held, by a resolution or by an override past its        *)
(* commit, is one that the model has had.                                  *)
EverInv ==
  /\ {meta, registry, Unpriced} \subseteq ever
  /\ \A r \in Request : snap[r] \in ever
  /\ \A e \in Editor : Past(e) => copy[e] \in ever

(* What an override has selected are rows, of requests that have ended, as *)
(* is what an override has reconciled.                                     *)
LoadedInv ==
  /\ DOMAIN loaded = Editor
  /\ touched \subseteq {r \in Request : call[r] = "done"}
  /\ \A e \in Editor :
       /\ DOMAIN loaded[e] \subseteq {r \in Request : call[r] = "done"}
       /\ \A r \in DOMAIN loaded[e] : loaded[e][r] \in RowType

PricedInv == \A r \in DOMAIN rows \ mixed : Priced(rows[r], ever, r \in touched)

IInv == TypeOK /\ EverInv /\ LoadedInv /\ PricedInv

LEMMA PricedIsOnePrice == PricedInv <=> OnePrice
BY DEF PricedInv, Priced, OnePrice

LEMMA NoRowsAreNone == DOMAIN NoRows = {}
BY DEF NoRows

LEMMA InitInv == Init => IInv
<1> SUFFICES ASSUME Init PROVE IInv
  OBVIOUS
<1>1. TypeOK
  BY UnpricedIsMeta, NoRowsAreNone, AccountingAssumption DEF Init, TypeOK, Past
<1>2. EverInv
  BY DEF Init, EverInv, Past
<1>3. LoadedInv /\ PricedInv
  BY NoRowsAreNone DEF Init, LoadedInv, PricedInv
<1>. QED BY <1>1, <1>2, <1>3 DEF IInv

(* -------------------------- the steps ---------------------------------- *)

(* A step that leaves the rows, the calls and the selected rows alone and  *)
(* removes no price keeps what the rows say.                               *)
LEMMA RowsAlone ==
  ASSUME IInv, UNCHANGED << rows, loaded, mixed, touched >>, ever \subseteq ever',
         \A r \in Request : call[r] = "done" => call'[r] = "done"
  PROVE  LoadedInv' /\ PricedInv'
<1>1. LoadedInv'
  BY DEF IInv, LoadedInv
<1>2. PricedInv'
  BY PricedStays DEF IInv, PricedInv
<1>. QED BY <1>1, <1>2

LEMMA ReadModelInv == ASSUME IInv, NEW e \in Editor, ReadModel(e) PROVE IInv'
<1>1. PICK d \in Edits : copy' = [copy EXCEPT ![e] = [Changed(meta, d) EXCEPT !.manual = TRUE]]
  BY DEF ReadModel
<1>2. [Changed(meta, d) EXCEPT !.manual = TRUE] \in Meta
  BY ChangedMeta DEF IInv, TypeOK
<1>3. copy' \in [Editor -> Meta]
  BY <1>1, <1>2 DEF IInv, TypeOK
<1>4. \A f \in Editor : Past(f)' <=> Past(f)
  BY DEF ReadModel, Past, IInv, TypeOK
<1>5. edits' \in 0 .. MaxEdits
  BY AccountingAssumption DEF ReadModel, IInv, TypeOK
<1>6. TypeOK'
  BY <1>3, <1>4, <1>5 DEF ReadModel, IInv, TypeOK, history
<1>7. EverInv'
  <2>1. \A f \in Editor : Past(f)' => f # e /\ copy'[f] = copy[f]
    BY <1>1, <1>4 DEF ReadModel, Past, IInv, TypeOK
  <2>. QED BY <1>4, <2>1 DEF ReadModel, history, IInv, EverInv
<1>8. LoadedInv' /\ PricedInv'
  BY RowsAlone DEF ReadModel, history
<1>. QED BY <1>6, <1>7, <1>8 DEF IInv

LEMMA CommitEditInv == ASSUME IInv, NEW e \in Editor, CommitEdit(e) PROVE IInv'
<1>1. at' = [at EXCEPT ![e] = "committed"] /\ meta' = copy[e] /\ ever' = ever \cup {copy[e]} /\ copy[e] \in Meta
  BY DEF CommitEdit, IInv, TypeOK
<1>2. \A f \in Editor : (Past(f) => Past(f)') /\ (f # e => (Past(f)' <=> Past(f))) /\ Past(e)'
  BY <1>1 DEF Past, IInv, TypeOK
<1>3. meeting' \subseteq {f \in Editor : Past(f)'}
  BY <1>2 DEF CommitEdit, IInv, TypeOK
<1>4. TypeOK'
  BY <1>1, <1>3 DEF CommitEdit, IInv, TypeOK
<1>5. EverInv'
  BY <1>1, <1>2 DEF CommitEdit, IInv, EverInv
<1>6. LoadedInv' /\ PricedInv'
  BY <1>1, RowsAlone DEF CommitEdit
<1>. QED BY <1>4, <1>5, <1>6 DEF IInv

LEMMA RefreshRegistryInv == ASSUME IInv, NEW e \in Editor, RefreshRegistry(e) PROVE IInv'
<1>1. \A f \in Editor : Past(f)' <=> Past(f)
  BY DEF RefreshRegistry, Past, IInv, TypeOK
<1>2. TypeOK'
  BY <1>1 DEF RefreshRegistry, history, IInv, TypeOK
<1>3. EverInv'
  BY <1>1 DEF RefreshRegistry, history, IInv, EverInv
<1>4. LoadedInv' /\ PricedInv'
  BY RowsAlone DEF RefreshRegistry, history
<1>. QED BY <1>2, <1>3, <1>4 DEF IInv

LEMMA LoadRowsInv == ASSUME IInv, NEW e \in Editor, LoadRows(e) PROVE IInv'
<1>1. \A f \in Editor : Past(f)' <=> Past(f)
  BY DEF LoadRows, Past, IInv, TypeOK
<1>2. loaded' = [loaded EXCEPT ![e] = rows] /\ DOMAIN loaded = Editor
  BY DEF LoadRows, IInv, LoadedInv
<1>3. TypeOK'
  BY <1>1, <1>2 DEF LoadRows, history, IInv, TypeOK
<1>4. EverInv'
  BY <1>1 DEF LoadRows, history, IInv, EverInv
<1>5. LoadedInv'
  <2>1. DOMAIN loaded' = Editor
    BY <1>2
  <2>2. loaded'[e] = rows /\ \A f \in Editor : f # e => loaded'[f] = loaded[f]
    BY <1>2
  <2>3. DOMAIN rows \subseteq {r \in Request : call[r] = "done"} /\ \A r \in DOMAIN rows : rows[r] \in RowType
    BY DEF IInv, TypeOK
  <2>4. call' = call
    BY DEF LoadRows
  <2>5. touched' = touched
    BY DEF LoadRows, history
  <2>. QED BY <2>1, <2>2, <2>3, <2>4, <2>5 DEF IInv, LoadedInv
<1>6. PricedInv'
  BY DEF LoadRows, history, IInv, PricedInv
<1>. QED BY <1>3, <1>4, <1>5, <1>6 DEF IInv

(* The end of an override, however it comes about.                         *)
LEMMA EndedInv ==
  ASSUME IInv, NEW e \in Editor, Ended(e), UNCHANGED << meta, registry, ever, call, snap >>
  PROVE  /\ at' \in [Editor -> {"idle", "read", "committed", "refreshed", "loaded"}]
         /\ copy' \in [Editor -> Meta]
         /\ \A f \in Editor : loaded'[f] # NoRows => at'[f] = "loaded"
         /\ meeting' \subseteq {f \in Editor : Past(f)'}
         /\ EverInv'
         /\ (touched' \subseteq touched \cup DOMAIN loaded[e] => LoadedInv')
<1>1. at' = [at EXCEPT ![e] = "idle"] /\ copy' = [copy EXCEPT ![e] = Unpriced] /\ loaded' = [loaded EXCEPT ![e] = NoRows]
      /\ meeting' = meeting \ {e}
  BY DEF Ended
<1>2. at \in [Editor -> {"idle", "read", "committed", "refreshed", "loaded"}] /\ copy \in [Editor -> Meta] /\ DOMAIN loaded = Editor
  BY DEF IInv, TypeOK, LoadedInv
<1>3. at'[e] = "idle" /\ loaded'[e] = NoRows /\ \A f \in Editor : f # e => at'[f] = at[f] /\ loaded'[f] = loaded[f] /\ copy'[f] = copy[f]
  BY <1>1, <1>2
<1>4. ~ Past(e)' /\ \A f \in Editor : f # e => (Past(f)' <=> Past(f))
  BY <1>3 DEF Past
<1>5. EverInv'
  BY <1>3, <1>4 DEF IInv, EverInv
<1>6. ASSUME touched' \subseteq touched \cup DOMAIN loaded[e] PROVE LoadedInv'
  <2>1. DOMAIN loaded' = Editor
    BY <1>1, <1>2
  <2>2. touched' \subseteq {r \in Request : call'[r] = "done"}
    BY <1>6 DEF IInv, LoadedInv
  <2>. QED BY <1>3, <2>1, <2>2, NoRowsAreNone DEF IInv, LoadedInv
<1>7. meeting' \subseteq {f \in Editor : Past(f)'}
  BY <1>1, <1>4 DEF IInv, TypeOK
<1>8. \A f \in Editor : loaded'[f] # NoRows => at'[f] = "loaded"
  BY <1>3 DEF IInv, TypeOK
<1>. QED BY <1>1, <1>2, <1>5, <1>6, <1>7, <1>8, UnpricedIsMeta

(* A row that was still what the override had selected is the reconciled   *)
(* row of one price; a row that had changed counts as mixed.               *)
LEMMA WriteRowsInv == ASSUME IInv, NEW e \in Editor, WriteRows(e) PROVE IInv'
<1> DEFINE done == ToReconcile(e) \cap DOMAIN rows
<1>1. done = DOMAIN loaded[e] \cap DOMAIN rows
  BY DEF ToReconcile
<1>2. rows' = [r \in DOMAIN rows |-> IF r \in done THEN Written(e, r) ELSE rows[r]]
  BY DEF WriteRows
<1>3. copy[e] \in Meta /\ copy[e] \in ever /\ ever' = ever /\ call' = call
  BY DEF WriteRows, IInv, TypeOK, EverInv, Past
<1>4. \A r \in done : rows[r] \in RowType /\ loaded[e][r] \in RowType
  BY <1>1 DEF IInv, TypeOK, LoadedInv
<1>5. DOMAIN rows' = DOMAIN rows /\ \A r \in DOMAIN rows : rows'[r] = IF r \in done THEN Written(e, r) ELSE rows[r]
  BY <1>2
<1>6. \A r \in DOMAIN rows' : rows'[r] \in RowType
  BY <1>3, <1>4, <1>5, WrittenRow DEF IInv, TypeOK
<1>7. DOMAIN loaded[e] \subseteq Request /\ Disturbed(e) \subseteq Request
  BY DEF IInv, LoadedInv, Disturbed
<1>8. TypeOK'
  BY <1>5, <1>6, <1>7, EndedInv DEF WriteRows, IInv, TypeOK
<1>9. PricedInv'
  <2> SUFFICES ASSUME NEW r \in DOMAIN rows, r \notin mixed'
               PROVE  Priced(rows'[r], ever, r \in touched')
    BY <1>3, <1>5 DEF PricedInv
  <2>1. CASE r \in done
    <3>1. rows[r] = loaded[e][r]
      BY <1>1, <2>1 DEF WriteRows, Disturbed
    <3>2. rows'[r] = Reconciled(copy[e], rows[r])
      BY <1>3, <1>4, <1>5, <2>1, <3>1, WrittenUndisturbed
    <3>3. r \in touched'
      BY <1>1, <2>1 DEF WriteRows
    <3>4. Priced(Reconciled(copy[e], rows[r]), ever, TRUE)
      BY <1>3, <1>4, <2>1, ReconciledRow
    <3>5. Priced(rows'[r], ever, TRUE)
      BY <3>2, <3>4
    <3>. QED BY <3>3, <3>5
  <2>2. CASE r \notin done
    <3>1. r \notin mixed /\ rows'[r] = rows[r] /\ (r \in touched' <=> r \in touched)
      BY <1>1, <1>5, <2>2 DEF WriteRows
    <3>2. Priced(rows[r], ever, r \in touched)
      BY <3>1 DEF IInv, PricedInv
    <3>. QED BY <3>1, <3>2
  <2>. QED BY <2>1, <2>2
<1>10. EverInv' /\ LoadedInv'
  BY EndedInv DEF WriteRows
<1>. QED BY <1>8, <1>9, <1>10 DEF IInv

LEMMA FailEditInv == ASSUME IInv, NEW e \in Editor, FailEdit(e) PROVE IInv'
<1>1. TypeOK'
  BY EndedInv DEF FailEdit, IInv, TypeOK
<1>2. EverInv' /\ LoadedInv'
  BY EndedInv DEF FailEdit
<1>3. PricedInv'
  BY DEF FailEdit, IInv, PricedInv
<1>. QED BY <1>1, <1>2, <1>3 DEF IInv

LEMMA ResolveInv == ASSUME IInv, NEW r \in Request, Resolve(r) PROVE IInv'
<1>1. call' = [call EXCEPT ![r] = "calling"] /\ call[r] = "idle" /\ snap' = [snap EXCEPT ![r] = registry]
  BY DEF Resolve
<1>2. \A q \in Request : call[q] = "done" => call'[q] = "done"
  BY <1>1 DEF IInv, TypeOK
<1>3. \A f \in Editor : Past(f)' <=> Past(f)
  BY DEF Resolve, editVars, Past
<1>4. TypeOK'
  BY <1>1, <1>2, <1>3 DEF Resolve, editVars, history, IInv, TypeOK
<1>5. EverInv'
  BY <1>1, <1>3 DEF Resolve, editVars, history, IInv, TypeOK, EverInv
<1>6. LoadedInv' /\ PricedInv'
  BY <1>2, RowsAlone DEF Resolve, editVars, history
<1>. QED BY <1>4, <1>5, <1>6 DEF IInv

LEMMA InsertRowInv == ASSUME IInv, NEW r \in Request, InsertRow(r) PROVE IInv'
<1>1. PICK kind \in Kinds :
        rows' = [q \in DOMAIN rows \cup {r} |-> IF q = r THEN Inserted(snap[r], kind) ELSE rows[q]]
  BY DEF InsertRow
<1>2. call' = [call EXCEPT ![r] = "done"] /\ snap' = [snap EXCEPT ![r] = Unpriced]
  BY DEF InsertRow
<1>3. snap[r] \in Meta /\ snap[r] \in ever /\ ever' = ever /\ mixed' = mixed
  BY DEF InsertRow, IInv, TypeOK, EverInv
<1>4. DOMAIN rows' = DOMAIN rows \cup {r} /\ rows'[r] = Inserted(snap[r], kind)
      /\ \A q \in DOMAIN rows \ {r} : rows'[q] = rows[q]
  BY <1>1
<1>5. Inserted(snap[r], kind) \in RowType /\ Priced(Inserted(snap[r], kind), ever, FALSE)
  BY <1>3, InsertedRow
<1>6. \A q \in Request : call'[q] = IF q = r THEN "done" ELSE call[q]
  BY <1>2 DEF IInv, TypeOK
<1>7. \A f \in Editor : Past(f)' <=> Past(f)
  BY DEF InsertRow, editVars, Past
<1>8. TypeOK'
  <2>1. call' \in [Request -> {"idle", "calling", "done"}] /\ snap' \in [Request -> Meta]
    BY <1>2, UnpricedIsMeta DEF IInv, TypeOK
  <2>2. DOMAIN rows' \subseteq {q \in Request : call'[q] = "done"} /\ \A q \in DOMAIN rows' : rows'[q] \in RowType
    BY <1>4, <1>5, <1>6 DEF IInv, TypeOK
  <2>3. touched' \cup late' \cup mixed' \subseteq Request /\ meeting' \subseteq {f \in Editor : Past(f)'}
    BY <1>7 DEF InsertRow, IInv, TypeOK
  <2>. QED BY <2>1, <2>2, <2>3 DEF InsertRow, editVars, IInv, TypeOK
<1>9. EverInv'
  BY <1>2, <1>3, <1>7 DEF InsertRow, editVars, IInv, TypeOK, EverInv
<1>10. LoadedInv'
  BY <1>6 DEF InsertRow, editVars, IInv, LoadedInv
<1>11. PricedInv'
  <2> SUFFICES ASSUME NEW q \in DOMAIN rows', q \notin mixed
               PROVE  Priced(rows'[q], ever, q \in touched)
    BY <1>3 DEF InsertRow, PricedInv
  <2>1. CASE q = r
    <3>1. q \notin touched
      BY <2>1 DEF InsertRow, IInv, LoadedInv
    <3>2. rows'[q] = Inserted(snap[r], kind)
      BY <1>4, <2>1
    <3> DEFINE new == Inserted(snap[r], kind)
    <3>3. Priced(new, ever, FALSE) /\ rows'[q] = new
      BY <1>5, <3>2
    <3> HIDE DEF new
    <3>. QED BY <3>1, <3>3 DEF Priced
  <2>2. CASE q # r
    BY <1>4, <2>2 DEF IInv, PricedInv
  <2>. QED BY <2>1, <2>2
<1>. QED BY <1>8, <1>9, <1>10, <1>11 DEF IInv

LEMMA RemoveRowInv == ASSUME IInv, NEW r \in Request, RemoveRow(r) PROVE IInv'
<1>1. DOMAIN rows' = DOMAIN rows \ {r} /\ \A q \in DOMAIN rows \ {r} : rows'[q] = rows[q]
  BY DEF RemoveRow
<1>2. \A f \in Editor : Past(f)' <=> Past(f)
  BY DEF RemoveRow, editVars, Past
<1>3. events' \in 0 .. MaxEvents
  BY AccountingAssumption DEF RemoveRow, IInv, TypeOK
<1>4. TypeOK'
  BY <1>1, <1>2, <1>3 DEF RemoveRow, editVars, history, IInv, TypeOK
<1>5. EverInv' /\ LoadedInv'
  BY <1>2 DEF RemoveRow, editVars, history, IInv, EverInv, LoadedInv
<1>6. PricedInv'
  BY <1>1 DEF RemoveRow, history, IInv, PricedInv
<1>. QED BY <1>4, <1>5, <1>6 DEF IInv

LEMMA ImportInv == ASSUME IInv, Import PROVE IInv'
<1>1. PICK l \in Listings : meta' = Changed(meta, l) /\ ever' = ever \cup {meta'}
  BY DEF Import
<1>2. meta' \in Meta
  BY <1>1, ChangedMeta DEF IInv, TypeOK
<1>3. \A f \in Editor : Past(f)' <=> Past(f)
  BY DEF Import, editVars, Past
<1>4. events' \in 0 .. MaxEvents
  BY AccountingAssumption DEF Import, IInv, TypeOK
<1>5. TypeOK'
  BY <1>1, <1>2, <1>3, <1>4 DEF Import, editVars, IInv, TypeOK
<1>6. EverInv'
  BY <1>1, <1>3 DEF Import, editVars, IInv, EverInv
<1>7. LoadedInv' /\ PricedInv'
  BY <1>1, RowsAlone DEF Import, editVars
<1>. QED BY <1>5, <1>6, <1>7 DEF IInv

LEMMA OtherRefreshInv == ASSUME IInv, OtherRefresh PROVE IInv'
<1>1. \A f \in Editor : Past(f)' <=> Past(f)
  BY DEF OtherRefresh, editVars, Past
<1>2. TypeOK'
  BY <1>1 DEF OtherRefresh, editVars, history, IInv, TypeOK
<1>3. EverInv'
  BY <1>1 DEF OtherRefresh, editVars, history, IInv, EverInv
<1>4. LoadedInv' /\ PricedInv'
  BY RowsAlone DEF OtherRefresh, editVars, history
<1>. QED BY <1>2, <1>3, <1>4 DEF IInv

LEMMA CrashInv == ASSUME IInv, Crash PROVE IInv'
<1>1. /\ at' = [e \in Editor |-> "idle"] /\ loaded' = [e \in Editor |-> NoRows]
      /\ copy' = [e \in Editor |-> Unpriced] /\ snap' = [r \in Request |-> Unpriced]
      /\ call' = [r \in Request |-> IF call[r] = "calling" THEN "done" ELSE call[r]]
  BY DEF Crash
<1>2. \A r \in Request : call[r] = "done" => call'[r] = "done"
  BY <1>1
<1>3. \A f \in Editor : ~ Past(f)'
  BY <1>1 DEF Past
<1>4. events' \in 0 .. MaxEvents
  BY AccountingAssumption DEF Crash, IInv, TypeOK
<1>5. TypeOK'
  <2>1. call' \in [Request -> {"idle", "calling", "done"}]
    BY <1>1 DEF IInv, TypeOK
  <2>2. DOMAIN rows' \subseteq {r \in Request : call'[r] = "done"} /\ \A r \in DOMAIN rows' : rows'[r] \in RowType
    BY <1>2 DEF Crash, IInv, TypeOK
  <2>. QED BY <1>1, <1>3, <1>4, <2>1, <2>2, UnpricedIsMeta DEF Crash, IInv, TypeOK
<1>6. EverInv'
  BY <1>1, <1>3 DEF Crash, IInv, EverInv
<1>7. LoadedInv'
  <2>1. touched' \subseteq {r \in Request : call'[r] = "done"}
    BY <1>2 DEF Crash, IInv, LoadedInv
  <2>. QED BY <1>1, <2>1, NoRowsAreNone DEF LoadedInv
<1>8. PricedInv'
  BY DEF Crash, IInv, PricedInv
<1>. QED BY <1>5, <1>6, <1>7, <1>8 DEF IInv

LEMMA StutterInv == ASSUME IInv, UNCHANGED vars PROVE IInv'
<1>1. \A f \in Editor : Past(f)' <=> Past(f)
  BY DEF vars, editVars, Past
<1>. QED BY <1>1 DEF vars, editVars, history, IInv, TypeOK, EverInv, LoadedInv, PricedInv

LEMMA StepInv == IInv /\ [Next]_vars => IInv'
<1> SUFFICES ASSUME IInv, [Next]_vars PROVE IInv'
  OBVIOUS
<1>1. ASSUME NEW e \in Editor,
             ReadModel(e) \/ CommitEdit(e) \/ RefreshRegistry(e) \/ LoadRows(e) \/ WriteRows(e) \/ FailEdit(e)
      PROVE  IInv'
  BY <1>1, ReadModelInv, CommitEditInv, RefreshRegistryInv, LoadRowsInv, WriteRowsInv, FailEditInv
<1>2. ASSUME NEW r \in Request, Resolve(r) \/ InsertRow(r) \/ RemoveRow(r)
      PROVE  IInv'
  BY <1>2, ResolveInv, InsertRowInv, RemoveRowInv
<1>3. CASE Import \/ OtherRefresh \/ Crash
  BY <1>3, ImportInv, OtherRefreshInv, CrashInv
<1>4. CASE UNCHANGED vars
  BY <1>4, StutterInv
<1>. QED BY <1>1, <1>2, <1>3, <1>4 DEF Next

LEMMA InvHolds == Spec => []IInv
BY InitInv, StepInv, PTL DEF Spec

(* --------------------------- the theorems ------------------------------ *)

(* Every variable has its type, in every reachable state.                  *)
THEOREM TypeCorrect == Spec => []TypeOK
<1>1. IInv => TypeOK
  BY DEF IInv
<1>. QED BY <1>1, InvHolds, PTL

(* The cost and the flags of a usage row come from one price the model has *)
(* had, for any number of overrides, imports and requests at once, unless  *)
(* the row changed between the select and the update of an override.       *)
THEOREM RowsHaveOnePrice == Spec => []OnePrice
<1>1. IInv => OnePrice
  BY PricedIsOnePrice DEF IInv
<1>. QED BY <1>1, InvHolds, PTL

(* ------------- an undisturbed override reaches the rows ---------------- *)

(* An override that met no other between its commit and its end is alone,  *)
(* the price in force is its own, and no listing can change it any more.   *)
MineInv ==
  /\ \A e \in Editor : at[e] = "read" \/ Past(e) => copy[e].manual
  /\ \A e \in Editor : Past(e) => meta.manual
  /\ \A e \in Editor : Past(e) /\ e \notin meeting =>
       meta = copy[e] /\ \A f \in Editor : Past(f) => f = e

(* A row has the figures of the price in force.                            *)
Carries(r) ==
  rows[r] = IF r \in touched THEN Reconciled(meta, rows[r]) ELSE Inserted(meta, rows[r].kind)

SettledInv ==
  (\A e \in Editor : ~ Past(e)) /\ ~ unsettled => \A r \in DOMAIN rows \ late : Carries(r)

(* Such an override has selected the rows as they are; the ones inserted   *)
(* since have no other figures than those of its price, unless they are    *)
(* late.                                                                   *)
SelectedInv ==
  \A e \in Editor : at[e] = "loaded" /\ e \notin meeting =>
    \A r \in DOMAIN rows :
      IF r \in DOMAIN loaded[e]
      THEN rows[r] = loaded[e][r]
      ELSE r \notin late => r \notin touched /\ rows[r] = Inserted(meta, rows[r].kind)

CarryInv == MineInv /\ SettledInv /\ SelectedInv

LEMMA InitCarry == Init => CarryInv
BY NoRowsAreNone DEF Init, CarryInv, MineInv, SettledInv, SelectedInv, Past

(* A step that is not about the price, the rows or what an override past   *)
(* its commit holds; it may remove rows.                                   *)
LEMMA CarryAlone ==
  ASSUME CarryInv,
         UNCHANGED << meta, touched, late, unsettled, meeting, loaded >>,
         \A r \in DOMAIN rows' : r \in DOMAIN rows /\ rows'[r] = rows[r],
         \A e \in Editor : Past(e)' <=> Past(e),
         \A e \in Editor : at'[e] = "loaded" => at[e] = "loaded",
         \A e \in Editor : Past(e) => copy'[e] = copy[e],
         \A e \in Editor : at'[e] = "read" => copy'[e].manual,
         \A r \in Request : call[r] = "done" => call'[r] = "done"
  PROVE  CarryInv'
<1>1. MineInv'
  BY DEF CarryInv, MineInv
<1>2. SettledInv'
  BY DEF CarryInv, SettledInv, Carries
<1>3. SelectedInv'
  BY DEF CarryInv, SelectedInv
<1>. QED BY <1>1, <1>2, <1>3 DEF CarryInv

LEMMA ReadModelCarry == ASSUME IInv, CarryInv, NEW e \in Editor, ReadModel(e) PROVE CarryInv'
<1>1. PICK d \in Edits : copy' = [copy EXCEPT ![e] = [Changed(meta, d) EXCEPT !.manual = TRUE]]
  BY DEF ReadModel
<1>2. Changed(meta, d) \in Meta
  BY ChangedMeta DEF IInv, TypeOK
<1> DEFINE new == [Changed(meta, d) EXCEPT !.manual = TRUE]
<1>3. new.manual
  BY <1>2 DEF Meta
<1>4. copy' = [copy EXCEPT ![e] = new] /\ at' = [at EXCEPT ![e] = "read"] /\ at[e] = "idle"
  BY <1>1 DEF ReadModel
<1> HIDE DEF new
<1>5. copy'[e] = new /\ at'[e] = "read" /\ \A f \in Editor : f # e => copy'[f] = copy[f] /\ at'[f] = at[f]
  BY <1>4 DEF IInv, TypeOK
<1>6. \A f \in Editor : (Past(f)' <=> Past(f)) /\ (Past(f) => f # e)
  BY <1>4, <1>5 DEF Past
<1>7. \A f \in Editor : at'[f] = "read" => copy'[f].manual
  BY <1>3, <1>5 DEF CarryInv, MineInv
<1>8. \A f \in Editor : (at'[f] = "loaded" => at[f] = "loaded") /\ (Past(f) => copy'[f] = copy[f])
  BY <1>5, <1>6
<1>9. UNCHANGED << meta, touched, late, unsettled, meeting, loaded, rows, call >>
  BY DEF ReadModel, history
<1>. QED BY <1>6, <1>7, <1>8, <1>9, CarryAlone

LEMMA RefreshRegistryCarry == ASSUME IInv, CarryInv, NEW e \in Editor, RefreshRegistry(e) PROVE CarryInv'
<1>1. at[e] = "committed" /\ at' = [at EXCEPT ![e] = "refreshed"]
  BY DEF RefreshRegistry
<1>2. \A f \in Editor : at'[f] = IF f = e THEN "refreshed" ELSE at[f]
  BY <1>1 DEF IInv, TypeOK
<1>3. \A f \in Editor : (Past(f)' <=> Past(f)) /\ (at'[f] = "loaded" => at[f] = "loaded") /\ (at'[f] = "read" => at[f] = "read")
  BY <1>1, <1>2 DEF Past
<1>4. UNCHANGED << meta, touched, late, unsettled, meeting, loaded, rows, call, copy >>
  BY DEF RefreshRegistry, history
<1>5. \A f \in Editor : at'[f] = "read" => copy'[f].manual
  BY <1>3, <1>4 DEF CarryInv, MineInv
<1>. QED BY <1>3, <1>4, <1>5, CarryAlone

(* Nothing that concerns the rows changes: a refresh, a resolution, a      *)
(* removed row or no step at all.                                          *)
LEMMA OtherCarry ==
  ASSUME IInv, CarryInv, UNCHANGED << meta, editVars, history >>,
         \A r \in DOMAIN rows' : r \in DOMAIN rows /\ rows'[r] = rows[r],
         \A r \in Request : call[r] = "done" => call'[r] = "done"
  PROVE  CarryInv'
<1>1. UNCHANGED << meta, touched, late, unsettled, meeting, loaded, at, copy >>
  BY DEF editVars, history
<1>2. \A f \in Editor : Past(f)' <=> Past(f)
  BY <1>1 DEF Past
<1>3. \A f \in Editor : at'[f] = "read" => copy'[f].manual
  BY <1>1 DEF CarryInv, MineInv
<1>. QED BY <1>1, <1>2, <1>3, CarryAlone

LEMMA ResolveCarry == ASSUME IInv, CarryInv, NEW r \in Request, Resolve(r) PROVE CarryInv'
<1>1. \A q \in Request : call[q] = "done" => call'[q] = "done"
  BY DEF Resolve, IInv, TypeOK
<1>. QED BY <1>1, OtherCarry DEF Resolve

LEMMA RemoveRowCarry == ASSUME IInv, CarryInv, NEW r \in Request, RemoveRow(r) PROVE CarryInv'
<1>1. \A q \in DOMAIN rows' : q \in DOMAIN rows /\ rows'[q] = rows[q]
  BY DEF RemoveRow
<1>. QED BY <1>1, OtherCarry DEF RemoveRow

(* The one that commits is alone, or it meets all that are past theirs.    *)
LEMMA CommitEditCarry == ASSUME IInv, CarryInv, NEW e \in Editor, CommitEdit(e) PROVE CarryInv'
<1> DEFINE met == {f \in Editor : Past(f)}
<1>1. /\ at[e] = "read" /\ at' = [at EXCEPT ![e] = "committed"] /\ meta' = copy[e]
      /\ meeting' = IF met = {} THEN meeting ELSE meeting \cup met \cup {e}
      /\ UNCHANGED << copy, loaded, call, rows, touched, late, unsettled >>
  BY DEF CommitEdit
<1>2. at'[e] = "committed" /\ \A f \in Editor : f # e => at'[f] = at[f]
  BY <1>1 DEF IInv, TypeOK
<1>3. Past(e)' /\ \A f \in Editor : f # e => (Past(f)' <=> Past(f))
  BY <1>2 DEF Past
<1>4. \A f \in Editor : Past(f)' /\ f \notin meeting' => f = e /\ met = {}
  <2> SUFFICES ASSUME NEW f \in Editor, Past(f)', f \notin meeting' PROVE f = e /\ met = {}
    OBVIOUS
  <2>1. CASE met = {}
    BY <1>3, <2>1
  <2>2. CASE met # {}
    BY <1>1, <1>3, <2>2
  <2>. QED BY <2>1, <2>2
<1>5. MineInv'
  <2>1. copy[e].manual /\ \A f \in Editor : at'[f] = "read" \/ Past(f)' => copy'[f].manual
    BY <1>1, <1>2, <1>3 DEF CarryInv, MineInv
  <2>2. \A f \in Editor : Past(f)' /\ f \notin meeting' =>
          meta' = copy'[f] /\ \A g \in Editor : Past(g)' => g = f
    BY <1>1, <1>3, <1>4
  <2>. QED BY <1>1, <2>1, <2>2 DEF MineInv
<1>6. SettledInv'
  BY <1>3 DEF SettledInv
<1>7. SelectedInv'
  <2>1. \A f \in Editor : at'[f] = "loaded" => f # e /\ Past(f)'
    BY <1>2, <1>3 DEF Past
  <2>. QED BY <1>4, <2>1 DEF SelectedInv
<1>. QED BY <1>5, <1>6, <1>7 DEF CarryInv

LEMMA LoadRowsCarry == ASSUME IInv, CarryInv, NEW e \in Editor, LoadRows(e) PROVE CarryInv'
<1>1. /\ at[e] = "refreshed" /\ at' = [at EXCEPT ![e] = "loaded"] /\ loaded' = [loaded EXCEPT ![e] = rows]
      /\ UNCHANGED << meta, copy, call, rows, touched, late, unsettled, meeting >>
  BY DEF LoadRows, history
<1>2. at'[e] = "loaded" /\ loaded'[e] = rows /\ \A f \in Editor : f # e => at'[f] = at[f] /\ loaded'[f] = loaded[f]
  BY <1>1 DEF IInv, TypeOK, LoadedInv
<1>3. \A f \in Editor : (Past(f)' <=> Past(f)) /\ (at'[f] = "read" => at[f] = "read")
  BY <1>1, <1>2 DEF Past
<1>4. MineInv'
  BY <1>1, <1>3 DEF CarryInv, MineInv
<1>5. SettledInv'
  BY <1>1, <1>3 DEF CarryInv, SettledInv, Carries
<1>6. SelectedInv'
  <2> SUFFICES ASSUME NEW f \in Editor, at'[f] = "loaded", f \notin meeting', NEW r \in DOMAIN rows
               PROVE  IF r \in DOMAIN loaded'[f]
                      THEN rows[r] = loaded'[f][r]
                      ELSE r \notin late => r \notin touched /\ rows[r] = Inserted(meta, rows[r].kind)
    BY <1>1 DEF SelectedInv
  <2>1. CASE f = e
    BY <1>2, <2>1
  <2>2. CASE f # e
    BY <1>1, <1>2, <2>2 DEF CarryInv, SelectedInv
  <2>. QED BY <2>1, <2>2
<1>. QED BY <1>4, <1>5, <1>6 DEF CarryInv

(* What is left of MineInv and SelectedInv when an override ends.          *)
LEMMA EndedCarry ==
  ASSUME IInv, CarryInv, NEW e \in Editor, Past(e), Ended(e), UNCHANGED << meta, call >>
  PROVE  /\ MineInv'
         /\ e \notin meeting => \A f \in Editor : ~ Past(f)'
         /\ \A f \in Editor : ~ (at'[f] = "loaded" /\ f \notin meeting')
<1>1. at' = [at EXCEPT ![e] = "idle"] /\ copy' = [copy EXCEPT ![e] = Unpriced] /\ meeting' = meeting \ {e}
  BY DEF Ended
<1>2. at'[e] = "idle" /\ \A f \in Editor : f # e => at'[f] = at[f] /\ copy'[f] = copy[f]
  BY <1>1 DEF IInv, TypeOK
<1>3. ~ Past(e)' /\ \A f \in Editor : f # e => (Past(f)' <=> Past(f))
  BY <1>2 DEF Past
<1>4. \A f \in Editor : ~ (Past(f)' /\ f \notin meeting')
  BY <1>1, <1>3 DEF CarryInv, MineInv
<1>5. MineInv'
  <2>1. \A f \in Editor : at'[f] = "read" \/ Past(f)' => copy'[f].manual
    BY <1>2, <1>3 DEF CarryInv, MineInv
  <2>. QED BY <1>3, <1>4, <2>1 DEF CarryInv, MineInv
<1>6. e \notin meeting => \A f \in Editor : ~ Past(f)'
  BY <1>3 DEF CarryInv, MineInv
<1>7. \A f \in Editor : at'[f] = "loaded" => Past(f)'
  BY DEF Past
<1>. QED BY <1>4, <1>5, <1>6, <1>7

(* Every selected row is written whole; the others are as they were        *)
(* inserted since the commit.                                              *)
LEMMA WriteRowsCarry == ASSUME IInv, CarryInv, NEW e \in Editor, WriteRows(e) PROVE CarryInv'
<1> DEFINE done == DOMAIN loaded[e] \cap DOMAIN rows
<1>1. /\ at[e] = "loaded" /\ Ended(e)
      /\ rows' = [r \in DOMAIN rows |-> IF r \in done THEN Written(e, r) ELSE rows[r]]
      /\ touched' = touched \cup DOMAIN loaded[e]
      /\ late' = IF e \in meeting THEN late ELSE late \ DOMAIN loaded[e]
      /\ unsettled' = (e \in meeting)
      /\ UNCHANGED << meta, call >>
  BY DEF WriteRows, ToReconcile
<1>2. Past(e)
  BY <1>1 DEF Past
<1>3. /\ MineInv' /\ (e \notin meeting => \A f \in Editor : ~ Past(f)')
      /\ \A f \in Editor : ~ (at'[f] = "loaded" /\ f \notin meeting')
  BY <1>1, <1>2, EndedCarry
<1>4. SelectedInv'
  BY <1>3 DEF SelectedInv
<1>5. SettledInv'
  <2> SUFFICES ASSUME e \notin meeting, NEW r \in DOMAIN rows, r \notin late'
               PROVE  Carries(r)'
    BY <1>1 DEF SettledInv
  <2>1. meta = copy[e] /\ copy[e] \in Meta
    BY <1>2 DEF CarryInv, MineInv, IInv, TypeOK
  <2>2. CASE r \in DOMAIN loaded[e]
    <3>1. rows[r] = loaded[e][r]
      BY <1>1, <2>2 DEF CarryInv, SelectedInv
    <3>2. rows[r] \in RowType /\ loaded[e][r] \in RowType
      BY <2>2 DEF IInv, TypeOK, LoadedInv
    <3>3. rows'[r] = Reconciled(meta, rows[r])
      BY <1>1, <2>1, <2>2, <3>1, <3>2, WrittenUndisturbed
    <3>4. rows'[r] = Reconciled(meta, rows'[r])
      BY <2>1, <3>2, <3>3, ReconciledTwice
    <3>5. r \in touched' /\ meta' = meta
      BY <1>1, <2>2
    <3>. QED BY <3>4, <3>5 DEF Carries
  <2>3. CASE r \notin DOMAIN loaded[e]
    <3>1. r \notin late
      BY <1>1, <2>3
    <3>2. r \notin touched /\ rows[r] = Inserted(meta, rows[r].kind)
      BY <1>1, <2>3, <3>1 DEF CarryInv, SelectedInv
    <3>3. rows'[r] = rows[r] /\ r \notin touched' /\ meta' = meta
      BY <1>1, <2>3, <3>2
    <3>. QED BY <3>2, <3>3 DEF Carries
  <2>. QED BY <2>2, <2>3
<1>. QED BY <1>3, <1>4, <1>5 DEF CarryInv

LEMMA FailEditCarry == ASSUME IInv, CarryInv, NEW e \in Editor, FailEdit(e) PROVE CarryInv'
<1>1. Past(e) /\ Ended(e) /\ unsettled' = TRUE /\ UNCHANGED << meta, call, touched >>
  BY DEF FailEdit
<1>2. MineInv' /\ \A f \in Editor : ~ (at'[f] = "loaded" /\ f \notin meeting')
  BY <1>1, EndedCarry
<1>. QED BY <1>1, <1>2 DEF CarryInv, SettledInv, SelectedInv

(* A row inserted with a price no longer in force is late.                 *)
LEMMA InsertRowCarry == ASSUME IInv, CarryInv, NEW r \in Request, InsertRow(r) PROVE CarryInv'
<1>1. PICK kind \in Kinds :
        rows' = [q \in DOMAIN rows \cup {r} |-> IF q = r THEN Inserted(snap[r], kind) ELSE rows[q]]
  BY DEF InsertRow
<1>2. /\ call[r] = "calling" /\ call' = [call EXCEPT ![r] = "done"]
      /\ late' = IF snap[r] = meta THEN late ELSE late \cup {r}
      /\ UNCHANGED << meta, at, copy, loaded, touched, meeting, unsettled >>
  BY DEF InsertRow, editVars
<1>3. DOMAIN rows' = DOMAIN rows \cup {r} /\ rows'[r] = Inserted(snap[r], kind)
      /\ \A q \in DOMAIN rows \ {r} : rows'[q] = rows[q]
  BY <1>1
<1>4. r \notin touched /\ \A e \in Editor : r \notin DOMAIN loaded[e]
  BY <1>2 DEF IInv, LoadedInv
<1>5. r \notin late' => rows'[r] = Inserted(meta, rows'[r].kind)
  <2>1. Inserted(snap[r], kind).kind = kind
    BY InsertedRow DEF IInv, TypeOK
  <2>. QED BY <1>2, <1>3, <2>1
<1>6. \A q \in DOMAIN rows' : q # r => q \in DOMAIN rows /\ rows'[q] = rows[q] /\ (q \notin late' => q \notin late)
  BY <1>2, <1>3
<1>7. \A f \in Editor : Past(f)' <=> Past(f)
  BY <1>2 DEF Past
<1>8. MineInv'
  BY <1>2, <1>7 DEF CarryInv, MineInv
<1>9. SettledInv'
  <2> SUFFICES ASSUME \A f \in Editor : ~ Past(f), ~ unsettled, NEW q \in DOMAIN rows', q \notin late'
               PROVE  Carries(q)'
    BY <1>2, <1>7 DEF SettledInv
  <2>1. CASE q = r
    BY <1>2, <1>4, <1>5, <2>1 DEF Carries
  <2>2. CASE q # r
    <3>1. Carries(q)
      BY <1>6, <2>2 DEF CarryInv, SettledInv
    <3>. QED BY <1>2, <1>6, <2>2, <3>1 DEF Carries
  <2>. QED BY <2>1, <2>2
<1>10. SelectedInv'
  <2> SUFFICES ASSUME NEW e \in Editor, at[e] = "loaded", e \notin meeting, NEW q \in DOMAIN rows'
               PROVE  IF q \in DOMAIN loaded[e]
                      THEN rows'[q] = loaded[e][q]
                      ELSE q \notin late' => q \notin touched /\ rows'[q] = Inserted(meta, rows'[q].kind)
    BY <1>2 DEF SelectedInv
  <2>1. CASE q = r
    BY <1>4, <1>5, <2>1
  <2>2. CASE q # r
    BY <1>6, <2>2 DEF CarryInv, SelectedInv
  <2>. QED BY <2>1, <2>2
<1>. QED BY <1>8, <1>9, <1>10 DEF CarryInv

(* A listing comes through only before the first override.                 *)
LEMMA ImportCarry == ASSUME IInv, CarryInv, Import PROVE CarryInv'
<1>1. unsettled' /\ UNCHANGED << at, copy, loaded, call, rows, touched, late, meeting >>
  BY DEF Import, editVars
<1>2. \A f \in Editor : ~ Past(f) /\ ~ Past(f)'
  BY <1>1 DEF Import, CarryInv, MineInv, Past
<1>3. \A f \in Editor : at'[f] # "loaded"
  BY <1>2 DEF Past
<1>. QED BY <1>1, <1>2, <1>3 DEF CarryInv, MineInv, SettledInv, SelectedInv

LEMMA CrashCarry == ASSUME IInv, CarryInv, Crash PROVE CarryInv'
<1>1. /\ at' = [e \in Editor |-> "idle"]
      /\ call' = [r \in Request |-> IF call[r] = "calling" THEN "done" ELSE call[r]]
      /\ unsettled' = (unsettled \/ \E e \in Editor : Past(e))
      /\ UNCHANGED << meta, rows, touched, late >>
  BY DEF Crash
<1>2. \A f \in Editor : at'[f] = "idle" /\ ~ Past(f)'
  BY <1>1 DEF Past
<1>3. SettledInv'
  BY <1>1 DEF CarryInv, SettledInv, Carries
<1>. QED BY <1>2, <1>3 DEF CarryInv, MineInv, SelectedInv

LEMMA StepCarry == IInv /\ CarryInv /\ [Next]_vars => CarryInv'
<1> SUFFICES ASSUME IInv, CarryInv, [Next]_vars PROVE CarryInv'
  OBVIOUS
<1>1. ASSUME NEW e \in Editor,
             ReadModel(e) \/ CommitEdit(e) \/ RefreshRegistry(e) \/ LoadRows(e) \/ WriteRows(e) \/ FailEdit(e)
      PROVE  CarryInv'
  BY <1>1, ReadModelCarry, CommitEditCarry, RefreshRegistryCarry, LoadRowsCarry, WriteRowsCarry, FailEditCarry
<1>2. ASSUME NEW r \in Request, Resolve(r) \/ InsertRow(r) \/ RemoveRow(r)
      PROVE  CarryInv'
  BY <1>2, ResolveCarry, InsertRowCarry, RemoveRowCarry
<1>3. CASE OtherRefresh
  BY <1>3, OtherCarry DEF OtherRefresh
<1>4. CASE Import \/ Crash
  BY <1>4, ImportCarry, CrashCarry
<1>5. CASE UNCHANGED vars
  BY <1>5, OtherCarry DEF vars
<1>. QED BY <1>1, <1>2, <1>3, <1>4, <1>5 DEF Next

(* After an override that ended normally and met no other, every row has   *)
(* the figures of the price in force, but for those inserted by requests   *)
(* resolved before it: for any number of overrides, requests and listings. *)
THEOREM OverridesReachTheRows == Spec => []RowsCarryThePrice
<1>1. Init => IInv /\ CarryInv
  BY InitInv, InitCarry
<1>2. IInv /\ CarryInv /\ [Next]_vars => (IInv /\ CarryInv)'
  BY StepInv, StepCarry
<1>3. IInv /\ CarryInv => RowsCarryThePrice
  <2> SUFFICES ASSUME CarryInv, \A e \in Editor : at[e] = "idle", ~ unsettled, NEW r \in DOMAIN rows \ late
               PROVE  Carries(r)
    BY DEF RowsCarryThePrice, Carries
  <2>1. \A e \in Editor : ~ Past(e)
    BY DEF Past
  <2>. QED BY <2>1 DEF CarryInv, SettledInv
<1>. QED BY <1>1, <1>2, <1>3, PTL DEF Spec
=============================================================================
