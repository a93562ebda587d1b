---------------------------- MODULE Accounting ----------------------------
(***************************************************************************)
(* The price of one model and the usage rows of its requests: the price    *)
(* override of the administration (ProviderManager.update_model_pricing)   *)
(* with its reconciliation of rows, the prices that discovery imports, and *)
(* the cost chat_completion computes for a row (dispatch._resolve_cost).   *)
(*                                                                         *)
(* A step runs from one await to the next.  A handler reads the model,     *)
(* commits the merged metadata, refreshes the registry, selects the rows   *)
(* and commits their new figures: four places for others to come between.  *)
(* How often a row is tried on a locked database is in Dispatch, how the   *)
(* jobs' copies of the metadata collide in Maintenance; here both are one  *)
(* step.  A call uses one token, a cached answer none; a price has a part  *)
(* per token and a part per request.                                       *)
(***************************************************************************)
EXTENDS Naturals, FiniteSets

CONSTANTS
  Editor,     \* concurrent price overrides
  Request,    \* requests for the model, each with at most one usage row
  Edits,      \* bodies of an override: functions on some of the fields
  Listings,   \* what a provider's listing says of the model, likewise
  Reported,   \* a cost that a provider reports by itself
  Negligible, \* the largest cost of a request that is marked free: 1e-6 dollars
  Absent,     \* a price that is not there
  Null,       \* a price that was set to null
  MaxEdits,   \* bound on the overrides of a behaviour
  MaxEvents   \* bound on imports, removed rows and crashes

Amounts == Nat \cup {Absent, Null}
Meta == [free : BOOLEAN, token : Amounts, request : Amounts, manual : BOOLEAN]
Fields == {"free", "token", "request"}

ASSUME AccountingAssumption ==
  /\ Absent \notin Nat \cup {Null} /\ Null \notin Nat
  /\ {Reported, Negligible, MaxEdits, MaxEvents} \subseteq Nat
  /\ \A d \in Edits \cup Listings :
       /\ DOMAIN d \subseteq Fields
       /\ \A f \in DOMAIN d : d[f] \in IF f = "free" THEN BOOLEAN ELSE Amounts

VARIABLES
  meta,      \* the metadata column of the model's row
  registry,  \* the metadata the registry resolves with
  at,        \* where each override stands
  copy,      \* the metadata an override has read and merged its body into
  loaded,    \* the rows an override has selected
  call,      \* where each request stands
  snap,      \* the metadata each request was resolved with
  rows,      \* the usage rows
  edits, events,
  \* history
  ever,      \* every metadata the model has had
  touched,   \* rows that a reconciliation has written
  late,      \* rows inserted with figures of a price no longer in force
  mixed,     \* rows that changed between the select and the update of an override
  meeting,   \* overrides that met another between commit and end
  unsettled  \* the last change of price may not have reached the rows

editVars == << at, copy, loaded, edits >>
history == << ever, touched, late, mixed, meeting, unsettled >>
vars == << meta, registry, editVars, call, snap, rows, events, history >>

----------------------------------------------------------------------------
(* Prices and rows.                                                        *)

Kinds == {"call", "reported", "hit"}
Tokens(kind) == IF kind = "hit" THEN 0 ELSE 1
Amount(a) == IF a \in Nat THEN a ELSE 0

(* A price exists if the dictionary has an entry; the registry skips null. *)
HasEntry(m) == {m.token, m.request} # {Absent}
HasNumber(m) == {m.token, m.request} \cap Nat # {}
Cost(m, kind) == Tokens(kind) * Amount(m.token) + Amount(m.request)

Row(kind, cost, free, known) == [kind |-> kind, cost |-> cost, free |-> free, known |-> known]

(* What _record_db_usage is given: a cached answer costs nothing; a free   *)
(* model costs nothing; else the reported cost, the computed one, or none. *)
(* A request of a known and negligible cost is marked free as well, and    *)
(* its row carries that cost all the same.                                 *)
Inserted(m, kind) ==
  LET cost == CASE m.free \/ kind = "hit" -> 0
                [] kind = "reported" /\ ~ m.free -> Reported
                [] OTHER -> IF HasNumber(m) THEN Cost(m, kind) ELSE 0
      known == IF kind = "hit" THEN HasNumber(m) ELSE m.free \/ kind = "reported" \/ HasNumber(m)
  IN  Row(kind, cost, m.free \/ (kind # "hit" /\ known /\ cost <= Negligible), known)

(* Variant: a free row keeps its cost.                                     *)
ReconciledFlags(m, row) ==
  Row(row.kind, IF m.free THEN row.cost ELSE IF HasEntry(m) THEN Cost(m, row.kind) ELSE 0, m.free, m.free \/ HasEntry(m))

(* _reconcile_usage_by_model: every row of the model, reported or cached.  *)
Reconciled(m, row) ==
  Row(row.kind, IF ~ m.free /\ HasEntry(m) THEN Cost(m, row.kind) ELSE 0, m.free, m.free \/ HasEntry(m))

(* Variant: rows of a known price are left as they are.                    *)
ToReconcileUnknown(e) == {r \in DOMAIN loaded[e] : ~ loaded[e][r].known}
ToReconcile(e) == DOMAIN loaded[e]

----------------------------------------------------------------------------
(* An override.                                                            *)

(* A model imported without a price.                                       *)
Unpriced == [free |-> FALSE, token |-> Absent, request |-> Absent, manual |-> FALSE]

NoRows == [r \in {} |-> Row("call", 0, FALSE, FALSE)]

(* Between the commit and the end.                                         *)
Past(e) == at[e] \in {"committed", "refreshed", "loaded"}

(* Variant: the selected rows are still held afterwards.                   *)
EndedHolding(e) ==
  /\ at' = [at EXCEPT ![e] = "idle"]
  /\ copy' = [copy EXCEPT ![e] = Unpriced]
  /\ meeting' = meeting \ {e}
  /\ UNCHANGED loaded

Ended(e) ==
  /\ at' = [at EXCEPT ![e] = "idle"]
  /\ copy' = [copy EXCEPT ![e] = Unpriced]
  /\ loaded' = [loaded EXCEPT ![e] = NoRows]
  /\ meeting' = meeting \ {e}

Changed(m, d) == [f \in DOMAIN m |-> IF f \in DOMAIN d THEN d[f] ELSE m[f]]

ReadModel(e) ==
  /\ at[e] = "idle" /\ edits < MaxEdits
  /\ edits' = edits + 1
  /\ at' = [at EXCEPT ![e] = "read"]
  /\ \E d \in Edits : copy' = [copy EXCEPT ![e] = [Changed(meta, d) EXCEPT !.manual = TRUE]]
  /\ UNCHANGED << meta, registry, loaded, call, snap, rows, events, history >>

(* The whole column is written from the copy.                              *)
CommitEdit(e) ==
  LET met == {f \in Editor : Past(f)}
  IN  /\ at[e] = "read"
      /\ at' = [at EXCEPT ![e] = "committed"]
      /\ meta' = copy[e]
      /\ ever' = ever \cup {copy[e]}
      /\ meeting' = IF met = {} THEN meeting ELSE meeting \cup met \cup {e}
      /\ UNCHANGED << registry, copy, loaded, edits, call, snap, rows, events, touched, late, mixed, unsettled >>

RefreshRegistry(e) ==
  /\ at[e] = "committed"
  /\ at' = [at EXCEPT ![e] = "refreshed"]
  /\ registry' = meta
  /\ UNCHANGED << meta, copy, loaded, edits, call, snap, rows, events, history >>

LoadRows(e) ==
  /\ at[e] = "refreshed"
  /\ at' = [at EXCEPT ![e] = "loaded"]
  /\ loaded' = [loaded EXCEPT ![e] = rows]
  /\ UNCHANGED << meta, registry, copy, edits, call, snap, rows, events, history >>

(* A null price times a number of tokens raises, for the first row.        *)
Raises(e) == ~ copy[e].free /\ HasEntry(copy[e]) /\ Null \in {copy[e].token, copy[e].request}

(* Only the columns that differ from what was loaded are written.          *)
Written(e, r) ==
  LET new == Reconciled(copy[e], loaded[e][r])
  IN  [c \in DOMAIN new |-> IF new[c] # loaded[e][r][c] THEN new[c] ELSE rows[r][c]]

Disturbed(e) == {r \in DOMAIN loaded[e] \cap DOMAIN rows : rows[r] # loaded[e][r]}
Gone(e) == {r \in ToReconcile(e) \ DOMAIN rows : Reconciled(copy[e], loaded[e][r]) # loaded[e][r]}

WriteRows(e) ==
  LET done == ToReconcile(e) \cap DOMAIN rows
  IN  /\ at[e] = "loaded" /\ Gone(e) = {}
      /\ Raises(e) => DOMAIN loaded[e] = {}
      /\ rows' = [r \in DOMAIN rows |-> IF r \in done THEN Written(e, r) ELSE rows[r]]
      /\ Ended(e)
      /\ touched' = touched \cup DOMAIN loaded[e]
      /\ mixed' = (mixed \ DOMAIN loaded[e]) \cup Disturbed(e)
      /\ late' = IF e \in meeting THEN late ELSE late \ DOMAIN loaded[e]
      /\ unsettled' = (e \in meeting)
      /\ UNCHANGED << meta, registry, edits, call, snap, events, ever >>

(* Between its commit and its end an override can fail: the row was        *)
(* deleted or the database locked for too long, a null price raises, or a  *)
(* row to update has been removed.  The price stands, the rows stay.       *)
FailEdit(e) ==
  /\ Past(e)
  /\ Ended(e)
  /\ unsettled' = TRUE
  /\ UNCHANGED << meta, registry, edits, call, snap, rows, events, ever, touched, late, mixed >>

----------------------------------------------------------------------------
(* Requests.                                                               *)

Resolve(r) ==
  /\ call[r] = "idle"
  /\ call' = [call EXCEPT ![r] = "calling"]
  /\ snap' = [snap EXCEPT ![r] = registry]
  /\ UNCHANGED << meta, registry, editVars, rows, events, history >>

InsertRow(r) ==
  /\ call[r] = "calling"
  /\ call' = [call EXCEPT ![r] = "done"]
  /\ \E kind \in Kinds :
       rows' = [q \in DOMAIN rows \cup {r} |-> IF q = r THEN Inserted(snap[r], kind) ELSE rows[q]]
  /\ snap' = [snap EXCEPT ![r] = Unpriced]
  /\ late' = IF snap[r] = meta THEN late ELSE late \cup {r}
  /\ UNCHANGED << meta, registry, editVars, events, ever, touched, mixed, meeting, unsettled >>

----------------------------------------------------------------------------
(* The jobs and the process.                                               *)

(* A listing's prices are merged unless an override has been made; `free`  *)
(* is set by a listing and never cleared.  No row is touched.              *)
Import ==
  /\ events < MaxEvents /\ ~ meta.manual
  /\ \E l \in Listings :
       /\ meta' = Changed(meta, l)
       /\ ever' = ever \cup {meta'}
  /\ unsettled' = TRUE
  /\ events' = events + 1
  /\ UNCHANGED << registry, editVars, call, snap, rows, touched, late, mixed, meeting >>

(* The refresh of some other operation, or of polling.                     *)
OtherRefresh ==
  /\ registry # meta
  /\ registry' = meta
  /\ UNCHANGED << meta, editVars, call, snap, rows, events, history >>

(* The retention of a cleanup.                                             *)
RemoveRow(r) ==
  /\ r \in DOMAIN rows /\ events < MaxEvents
  /\ events' = events + 1
  /\ rows' = [q \in DOMAIN rows \ {r} |-> rows[q]]
  /\ UNCHANGED << meta, registry, editVars, call, snap, history >>

Crash ==
  /\ events < MaxEvents
  /\ events' = events + 1
  /\ registry' = meta
  /\ at' = [e \in Editor |-> "idle"]
  /\ loaded' = [e \in Editor |-> NoRows]
  /\ call' = [r \in Request |-> IF call[r] = "calling" THEN "done" ELSE call[r]]
  /\ copy' = [e \in Editor |-> Unpriced] /\ snap' = [r \in Request |-> Unpriced]
  /\ unsettled' = (unsettled \/ \E e \in Editor : Past(e))
  /\ meeting' = {}
  /\ UNCHANGED << meta, edits, rows, ever, touched, late, mixed >>

Init ==
  /\ meta = Unpriced /\ registry = Unpriced /\ ever = {Unpriced}
  /\ at = [e \in Editor |-> "idle"]
  /\ copy = [e \in Editor |-> Unpriced]
  /\ loaded = [e \in Editor |-> NoRows]
  /\ call = [r \in Request |-> "idle"] /\ snap = [r \in Request |-> Unpriced] /\ rows = NoRows
  /\ edits = 0 /\ events = 0
  /\ touched = {} /\ late = {} /\ mixed = {} /\ meeting = {} /\ unsettled = FALSE

Next ==
  \/ \E e \in Editor : ReadModel(e) \/ CommitEdit(e) \/ RefreshRegistry(e) \/ LoadRows(e) \/ WriteRows(e) \/ FailEdit(e)
  \/ \E r \in Request : Resolve(r) \/ InsertRow(r) \/ RemoveRow(r)
  \/ Import \/ OtherRefresh \/ Crash

Spec == Init /\ [][Next]_vars

----------------------------------------------------------------------------
(* Properties.                                                             *)

RowType == [kind : Kinds, cost : Nat, free : BOOLEAN, known : BOOLEAN]

TypeOK ==
  /\ {meta, registry} \cup ever \subseteq Meta
  /\ at \in [Editor -> {"idle", "read", "committed", "refreshed", "loaded"}]
  /\ copy \in [Editor -> Meta] /\ snap \in [Request -> Meta]
  /\ call \in [Request -> {"idle", "calling", "done"}]
  /\ DOMAIN rows \subseteq {r \in Request : call[r] = "done"}
  /\ \A r \in DOMAIN rows : rows[r] \in RowType
  /\ \A e \in Editor : loaded[e] # NoRows => at[e] = "loaded"
  /\ edits \in 0 .. MaxEdits /\ events \in 0 .. MaxEvents
  /\ touched \cup late \cup mixed \subseteq Request /\ meeting \subseteq {e \in Editor : Past(e)}

(* docs/provider-setup.md 89: after an override "existing usage rows are   *)
(* reconciled".  When no override is under way and the last change of      *)
(* price was an override that ended normally and met no other, every row   *)
(* has the figures of the price in force: what the reconciliation makes of *)
(* it, or what it was inserted with since.  Only a request that was        *)
(* resolved before the change may have added another.                      *)
RowsCarryThePrice ==
  ((\A e \in Editor : at[e] = "idle") /\ ~ unsettled) =>
    \A r \in DOMAIN rows \ late :
      rows[r] = IF r \in touched THEN Reconciled(meta, rows[r]) ELSE Inserted(meta, rows[r].kind)

(* dispatch.py 112: "Free models always cost $0".  A row's cost and flags  *)
(* come from one price the model has had: its cost is the sum at a price   *)
(* of a time when the model was not free, or what the provider reported,   *)
(* or nothing, and nothing if the price was unknown.  A row that an        *)
(* override has reconciled, or of a cached answer, costs nothing if it is  *)
(* free; one that is as a request left it is free exactly if its cost is   *)
(* known and negligible, and has that cost.  Rows that changed between the *)
(* select and the update of an override are excepted: the columns of two   *)
(* prices meet in them.                                                    *)
OnePrice ==
  \A r \in DOMAIN rows \ mixed :
    LET row == rows[r]
    IN  /\ row.known \/ row.cost = 0
        /\ IF r \in touched \/ row.kind = "hit"
           THEN row.free => row.cost = 0
           ELSE row.free <=> (row.known /\ row.cost <= Negligible)
        /\ \/ row.cost \in {0, Reported}
           \/ \E m \in ever : ~ m.free /\ row.cost = Cost(m, row.kind)
=============================================================================
