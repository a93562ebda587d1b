---------------------------- MODULE Maintenance ----------------------------
(***************************************************************************)
(* The jobs that keep a provider's model rows up to date, over a database  *)
(* of SQLite's kind: run_cleanup (services/cleanup.py), the discovery with *)
(* its optional test (discover_and_test_stream, services/discovery.py) and *)
(* the administrator who overrides a price, adds, deletes a model or puts  *)
(* the provider back in service.                                           *)
(*                                                                         *)
(* A job works on the copies of its own session.  Minutes of upstream calls*)
(* lie between its reads and its commit, which writes the columns that it  *)
(* has changed: `is_active`, and `meta` as a whole.  A write takes the     *)
(* database's only write lock until the transaction ends.  The SAVEPOINT   *)
(* around an import starts a transaction if there is none: releasing it    *)
(* commits the import at once, while rolling back to it leaves the         *)
(* transaction open, after a conflict with the lock in hand.               *)
(*                                                                         *)
(* One provider is modelled: the jobs treat several one after the other and*)
(* share nothing between them.  The groups, API keys and old usage rows a  *)
(* cleanup also looks at are left out.                                     *)
(***************************************************************************)
EXTENDS Naturals, FiniteSets

CONSTANTS
  Cleaner,     \* runs of the cleanup: the loop's and POST /v1/admin/cleanup
  Importer,    \* runs of the discovery
  Editor,      \* price overrides
  Model,       \* the provider's model names
  NoJob,
  Nothing,     \* no row; a count that metadata does not hold
  Manual,      \* prices an administrator sets
  Threshold,   \* MODEL_FAIL_THRESHOLD (3)
  FirstRows,   \* the tables a behaviour may start with
  MaxStarts,   \* bound on the number of jobs started
  MaxInserts   \* bound on the number of rows inserted, for the administrator's part

Job == Cleaner \cup Importer \cup Editor

Prices == {"none", "listed"} \cup Manual

(* What the jobs tell apart in the metadata column, and a row.             *)
Meta == [fails : Nat \cup {Nothing}, missing : BOOLEAN, premium : BOOLEAN, price : Prices]
Row  == [id : Nat, active : BOOLEAN, meta : Meta]

Count(meta) == IF meta.fails = Nothing THEN 0 ELSE meta.fails

ASSUME JobAssumption ==
  /\ Cleaner \cap Importer = {} /\ Cleaner \cap Editor = {} /\ Importer \cap Editor = {}
  /\ NoJob \notin Job
ASSUME DataAssumption ==
  /\ Nothing \notin Row /\ Nothing \notin Nat
  /\ Manual \cap {"none", "listed"} = {}
  /\ Threshold \in Nat \ {0}
  /\ FirstRows \subseteq [Model -> Row \cup {Nothing}]
  /\ \A first \in FirstRows, m \in Model : first[m] # Nothing => first[m].id = 0
ASSUME BoundAssumption == MaxStarts \in Nat /\ MaxInserts \in Nat

VARIABLES
  row,       \* the committed row of each model
  provider,  \* is the provider's row active?
  writer,    \* the job whose transaction holds the write lock
  tx,        \* an importer's transaction that a failed import has left open:
             \* "open", "pinned" to what it has read, or "doomed": others have
             \* committed since, and whatever it writes is refused
  pc,        \* where each job stands
  loaded,    \* the rows a job has read, as it read them
  mine,      \* ... and as its session has them now
  todo,      \* models a job has still to look at
  cur,       \* the model an importer is about to insert
  offer,     \* what an importer's listing says of prices: "none" or "listed"
  alive,     \* cleaners that read the provider as active
  down,      \* cleaners that have marked it inactive in their session
  \* history and bounds
  failures,  \* probes of the present row that failed
  unlisted,  \* models whose present row a listing has lacked
  starts, inserts

copies  == << pc, loaded, mine, todo, cur, offer, alive, down >>
session == << tx, copies >>
vars    == << row, provider, writer, session, failures, unlisted, starts, inserts >>

Places == {"idle", "pinging", "probing", "listing", "importing", "inserting", "testing", "finishing"}

TypeOK ==
  /\ row \in [Model -> Row \cup {Nothing}]
  /\ provider \in BOOLEAN
  /\ writer \in Job \cup {NoJob}
  /\ tx \in [Job -> {"none", "open", "pinned", "doomed"}]
  /\ pc \in [Job -> Places]
  /\ loaded \in [Job -> [Model -> Row \cup {Nothing}]]
  /\ mine \in [Job -> [Model -> Row \cup {Nothing}]]
  /\ todo \in [Job -> SUBSET Model]
  /\ cur \in [Job -> Model \cup {Nothing}]
  /\ offer \in [Job -> {"none", "listed"}]
  /\ alive \subseteq Cleaner
  /\ down \subseteq alive
  /\ failures \in [Model -> Nat]
  /\ unlisted \subseteq Model
  /\ starts \in 0 .. MaxStarts
  /\ inserts \in Nat

Empty == [m \in Model |-> Nothing]

Goto(j, where) == pc' = [pc EXCEPT ![j] = where]

-----------------------------------------------------------------------------
(* Sessions and transactions *)

(* The models whose copy differs from what was read, or is new.            *)
Changed(j) == {m \in Model : mine[j][m] # loaded[j][m]}

(* A discovery always writes: its run goes into the history.               *)
NeedsLock(j) == Changed(j) # {} \/ j \in down \/ j \in Importer

MayWrite(j) == writer \in {NoJob, j}

(* The row a copy was made of is still there.                              *)
SameRow(j, m) == row[m] # Nothing /\ row[m].id = mine[j][m].id

(* A changed row is not there any more: the UPDATE matches no row.         *)
Stale(j) ==
  \E m \in Changed(j) : loaded[j][m] # Nothing /\ ~ SameRow(j, m)

(* Variant: the whole row is written back.                                 *)
WrittenWhole(j, m) == mine[j][m]

(* The row after the UPDATE of the changed columns, or the INSERT.         *)
Written(j, m) ==
  IF loaded[j][m] = Nothing
    THEN mine[j][m]
    ELSE [row[m] EXCEPT
           !.active = IF mine[j][m].active # loaded[j][m].active THEN mine[j][m].active ELSE @,
           !.meta   = IF mine[j][m].meta # loaded[j][m].meta THEN mine[j][m].meta ELSE @]

(* Variant: the provider's mark survives its session.                      *)
EndedButMarked(j) ==
  /\ Goto(j, "idle")
  /\ writer' = IF writer = j THEN NoJob ELSE writer
  /\ loaded' = [loaded EXCEPT ![j] = Empty]
  /\ mine' = [mine EXCEPT ![j] = Empty]
  /\ todo' = [todo EXCEPT ![j] = {}]
  /\ cur' = [cur EXCEPT ![j] = Nothing]
  /\ offer' = [offer EXCEPT ![j] = "none"]
  /\ alive' = alive \ {j}
  /\ down' = down

(* The session is closed: its copies are dropped, its lock is released.    *)
Ended(j) ==
  /\ Goto(j, "idle")
  /\ writer' = IF writer = j THEN NoJob ELSE writer
  /\ loaded' = [loaded EXCEPT ![j] = Empty]
  /\ mine' = [mine EXCEPT ![j] = Empty]
  /\ todo' = [todo EXCEPT ![j] = {}]
  /\ cur' = [cur EXCEPT ![j] = Nothing]
  /\ offer' = [offer EXCEPT ![j] = "none"]
  /\ alive' = alive \ {j}
  /\ down' = down \ {j}

(* What somebody's commit does to the transactions that have read already. *)
Outdated == [j \in Job |-> IF tx[j] = "pinned" THEN "doomed" ELSE tx[j]]

(* The transaction is rolled back by an exception, and the job is over.    *)
RollBack(j) ==
  /\ Ended(j)
  /\ tx' = [tx EXCEPT ![j] = "none"]
  /\ UNCHANGED << row, provider, failures, unlisted, starts, inserts >>

(* The final flush and commit.                                             *)
Commit(j) ==
  /\ pc[j] = "finishing"
  /\ NeedsLock(j) => MayWrite(j)
  /\ ~ Stale(j)
  /\ row' = [m \in Model |-> IF m \in Changed(j) THEN Written(j, m) ELSE row[m]]
  /\ provider' = (provider /\ j \notin down)
  /\ tx' = [IF NeedsLock(j) THEN Outdated ELSE tx EXCEPT ![j] = "none"]
  /\ Ended(j)
  /\ UNCHANGED << failures, unlisted, starts, inserts >>

(* StaleDataError.                                                         *)
CommitStale(j) ==
  /\ pc[j] = "finishing"
  /\ MayWrite(j)
  /\ Stale(j)
  /\ RollBack(j)

(* The lock was not free within busy_timeout: "database is locked".        *)
CommitLocked(j) ==
  /\ pc[j] = "finishing"
  /\ NeedsLock(j)
  /\ ~ MayWrite(j)
  /\ RollBack(j)

-----------------------------------------------------------------------------
(* Cleanup *)

Start(j, where) ==
  /\ pc[j] = "idle"
  /\ starts < MaxStarts
  /\ starts' = starts + 1
  /\ Goto(j, where)

(* The provider is read.                                                   *)
Begin(j) ==
  /\ Start(j, "pinging")
  /\ alive' = IF provider THEN alive \cup {j} ELSE alive
  /\ UNCHANGED << row, provider, writer, tx, loaded, mine, todo, cur, offer, down,
                  failures, unlisted, inserts >>

(* The active models are read; those known to be premium are not probed.   *)
Load(j) ==
  /\ Goto(j, "probing")
  /\ LET active == [m \in Model |-> IF row[m] # Nothing /\ row[m].active THEN row[m] ELSE Nothing]
     IN  /\ loaded' = [loaded EXCEPT ![j] = active]
         /\ mine' = [mine EXCEPT ![j] = active]
         /\ todo' = [todo EXCEPT ![j] = {m \in Model : active[m] # Nothing /\ ~ active[m].meta.premium}]
  /\ UNCHANGED << row, provider, tx, cur, offer, alive, failures, unlisted, starts, inserts >>

(* The provider answers, or is inactive already.                           *)
Reached(j) ==
  /\ pc[j] = "pinging"
  /\ Load(j)
  /\ UNCHANGED << writer, down >>

(* It does not: it is marked, and the next SELECT flushes the mark, which  *)
(* takes the lock for the rest of the pass.                                *)
Unreachable(j) ==
  /\ pc[j] = "pinging"
  /\ j \in alive
  /\ MayWrite(j)
  /\ writer' = j
  /\ down' = down \cup {j}
  /\ Load(j)

UnreachableLocked(j) ==
  /\ pc[j] = "pinging"
  /\ j \in alive
  /\ ~ MayWrite(j)
  /\ RollBack(j)

(* Variant: deactivation by failures alone.                                *)
AfterProbeOfAny(w, result) ==
  IF result = "failed"
    THEN LET n == Count(w.meta) + 1
         IN  [w EXCEPT !.meta.fails = n, !.active = n < Threshold]
    ELSE [w EXCEPT !.meta.fails = 0, !.meta.premium = @ \/ result = "premium"]

(* A working or a premium model is cleared; a failing one is counted, and  *)
(* deactivated by the count and the mark of an earlier listing.            *)
AfterProbe(w, result) ==
  IF result = "failed"
    THEN LET n == Count(w.meta) + 1
         IN  [w EXCEPT !.meta.fails = n,
                       !.active = ~ (n >= Threshold /\ w.meta.missing)]
    ELSE [w EXCEPT !.meta.fails = 0, !.meta.premium = @ \/ result = "premium"]

Probe(j, m, result) ==
  /\ pc[j] = "probing"
  /\ m \in todo[j]
  /\ mine' = [mine EXCEPT ![j][m] = AfterProbe(@, result)]
  /\ todo' = [todo EXCEPT ![j] = @ \ {m}]
  /\ failures' = IF result = "failed" /\ SameRow(j, m)
                   THEN [failures EXCEPT ![m] = @ + 1]
                   ELSE failures
  /\ UNCHANGED << row, provider, writer, tx, pc, loaded, cur, offer, alive, down, unlisted, starts, inserts >>

(* The models the second listing lacks are marked, never cleared.  One that*)
(* fails is left out, as if it lacked none.                                *)
List(j, listed) ==
  LET lacking == {m \in Model : mine[j][m] # Nothing /\ mine[j][m].active /\ m \notin listed}
  IN  /\ pc[j] = "probing"
      /\ todo[j] = {}
      /\ mine' = [mine EXCEPT ![j] =
                    [m \in Model |-> IF m \in lacking THEN [@[m] EXCEPT !.meta.missing = TRUE] ELSE @[m]]]
      /\ unlisted' = unlisted \cup {m \in lacking : SameRow(j, m)}
      /\ Goto(j, "finishing")
      /\ UNCHANGED << row, provider, writer, tx, loaded, todo, cur, offer, alive, down, failures, starts, inserts >>

-----------------------------------------------------------------------------
(* Discovery *)

(* The provider's listing has arrived; `priced` says if it holds prices.   *)
Discover(j, listed, priced) ==
  /\ Start(j, "importing")
  /\ todo' = [todo EXCEPT ![j] = listed]
  /\ offer' = [offer EXCEPT ![j] = priced]
  /\ UNCHANGED << row, provider, writer, tx, loaded, mine, cur, alive, down, failures, unlisted, inserts >>

(* Variant: a merge that does not look for a manual price.                 *)
MergedAnyway(meta, priced) == [meta EXCEPT !.price = IF priced = "none" THEN @ ELSE priced]

(* _merge_provider_meta: a manual price stays.                             *)
Merged(meta, priced) ==
  IF priced = "none" \/ meta.price \in Manual THEN meta ELSE [meta EXCEPT !.price = priced]

(* A SELECT inside the open transaction sees the same rows from then on.   *)
Pin(j) == tx' = [tx EXCEPT ![j] = IF @ = "open" THEN "pinned" ELSE @]

(* The SELECT finds a row, and merges into it ...                          *)
MergeModel(j, m) ==
  /\ pc[j] = "importing"
  /\ m \in todo[j]
  /\ row[m] # Nothing
  /\ loaded' = [loaded EXCEPT ![j][m] = row[m]]
  /\ mine' = [mine EXCEPT ![j][m] = [row[m] EXCEPT !.meta = Merged(@, offer[j])]]
  /\ Pin(j)
  /\ todo' = [todo EXCEPT ![j] = @ \ {m}]
  /\ UNCHANGED << row, provider, writer, pc, cur, offer, alive, down, failures, unlisted, starts, inserts >>

(* ... or none.                                                            *)
MissModel(j, m) ==
  /\ pc[j] = "importing"
  /\ m \in todo[j]
  /\ row[m] = Nothing
  /\ cur' = [cur EXCEPT ![j] = m]
  /\ Pin(j)
  /\ todo' = [todo EXCEPT ![j] = @ \ {m}]
  /\ Goto(j, "inserting")
  /\ UNCHANGED << row, provider, writer, loaded, mine, offer, alive, down, failures, unlisted, starts, inserts >>

NewRow(priced) ==
  [id |-> inserts + 1, active |-> TRUE,
   meta |-> [fails |-> Nothing, missing |-> FALSE, premium |-> FALSE, price |-> priced]]

(* The history of a row that has just been inserted is empty.              *)
Forget(m) ==
  /\ inserts' = inserts + 1
  /\ failures' = [failures EXCEPT ![m] = 0]
  /\ unlisted' = unlisted \ {m}

(* There is no transaction: the INSERT is released and thereby committed.  *)
InsertAlone(j) ==
  LET m == cur[j]
  IN  /\ pc[j] = "inserting"
      /\ writer = NoJob
      /\ tx[j] = "none" /\ Changed(j) = {}
      /\ row[m] = Nothing
      /\ row' = [row EXCEPT ![m] = NewRow(offer[j])]
      /\ loaded' = [loaded EXCEPT ![j][m] = row'[m]]
      /\ mine' = [mine EXCEPT ![j][m] = row'[m]]
      /\ Forget(m)
      /\ tx' = Outdated
      /\ cur' = [cur EXCEPT ![j] = Nothing]
      /\ Goto(j, "importing")
      /\ UNCHANGED << provider, writer, todo, offer, alive, down, starts >>

(* Merged metadata is flushed first, or a transaction is open already: the *)
(* INSERT is part of it, and the lock is kept until the commit.            *)
InsertInside(j) ==
  LET m == cur[j]
  IN  /\ pc[j] = "inserting"
      /\ MayWrite(j)
      /\ writer = j \/ tx[j] # "none" \/ Changed(j) # {}
      /\ ~ Stale(j)
      /\ row[m] = Nothing
      /\ writer' = j
      /\ mine' = [mine EXCEPT ![j][m] = NewRow(offer[j])]
      /\ Forget(m)
      /\ cur' = [cur EXCEPT ![j] = Nothing]
      /\ Goto(j, "importing")
      /\ UNCHANGED << row, provider, tx, loaded, todo, offer, alive, down, starts >>

(* The row is there by now.  The INSERT has taken the lock, and rolling    *)
(* back to the savepoint does not give it back.                            *)
SkipConflict(j) ==
  /\ pc[j] = "inserting"
  /\ MayWrite(j)
  /\ ~ Stale(j)
  /\ row[cur[j]] # Nothing
  /\ writer' = j
  /\ cur' = [cur EXCEPT ![j] = Nothing]
  /\ Goto(j, "importing")
  /\ UNCHANGED << row, provider, tx, loaded, mine, todo, offer, alive, down, failures, unlisted, starts, inserts >>

(* "database is locked" is taken for a conflict, too.                      *)
SkipLocked(j) ==
  /\ pc[j] = "inserting"
  /\ ~ MayWrite(j)
  /\ Changed(j) = {}
  /\ tx' = [tx EXCEPT ![j] = IF @ = "none" THEN "open" ELSE @]
  /\ cur' = [cur EXCEPT ![j] = Nothing]
  /\ Goto(j, "importing")
  /\ UNCHANGED << row, provider, writer, loaded, mine, todo, offer, alive, down, failures, unlisted, starts, inserts >>

(* The flush of the merged metadata fails: its rows are gone or the        *)
(* database is locked.  The session refuses the next statement, which ends *)
(* the run.                                                                *)
FlushFails(j) ==
  /\ pc[j] = "inserting"
  /\ Changed(j) # {}
  /\ Stale(j) \/ ~ MayWrite(j)
  /\ RollBack(j)

(* What a doomed transaction still does is undone by its end.              *)
Doomed(j) ==
  /\ tx[j] = "doomed"
  /\ RollBack(j)

(* All are imported: on to the tests, or to the end.                       *)
Imported(j) ==
  /\ pc[j] = "importing"
  /\ todo[j] = {}
  /\ \/ /\ Goto(j, "testing")
        /\ todo' = [todo EXCEPT ![j] = {m \in Model : mine[j][m] # Nothing}]
     \/ Goto(j, "finishing") /\ UNCHANGED todo
  /\ UNCHANGED << row, provider, writer, tx, loaded, mine, cur, offer, alive, down, failures, unlisted, starts, inserts >>

(* A test of the run tells if the model is premium, and nothing else.      *)
Test(j, m, premium) ==
  /\ pc[j] = "testing"
  /\ m \in todo[j]
  /\ mine' = [mine EXCEPT ![j][m].meta.premium = @ \/ premium]
  /\ todo' = [todo EXCEPT ![j] = @ \ {m}]
  /\ UNCHANGED << row, provider, writer, tx, pc, loaded, cur, offer, alive, down, failures, unlisted, starts, inserts >>

Tested(j) ==
  /\ pc[j] = "testing"
  /\ todo[j] = {}
  /\ Goto(j, "finishing")
  /\ UNCHANGED << row, provider, writer, tx, loaded, mine, todo, cur, offer, alive, down, failures, unlisted, starts, inserts >>

(* The client leaves the stream of events: its session is dropped.         *)
Abandon(j) ==
  /\ pc[j] # "idle"
  /\ RollBack(j)

-----------------------------------------------------------------------------
(* The administrator *)

(* A price is overridden: the row is read; the commit follows.             *)
Override(j, m, price) ==
  /\ Start(j, "finishing")
  /\ row[m] # Nothing
  /\ loaded' = [loaded EXCEPT ![j][m] = row[m]]
  /\ mine' = [mine EXCEPT ![j][m] = [row[m] EXCEPT !.meta.price = price]]
  /\ UNCHANGED << row, provider, writer, tx, todo, cur, offer, alive, down, failures, unlisted, inserts >>

AddModel(m) ==
  /\ inserts < MaxInserts
  /\ writer = NoJob
  /\ row[m] = Nothing
  /\ \E active \in BOOLEAN : row' = [row EXCEPT ![m] = [NewRow("none") EXCEPT !.active = active]]
  /\ Forget(m)
  /\ tx' = Outdated
  /\ UNCHANGED << provider, writer, copies, starts >>

DeleteModel(m) ==
  /\ writer = NoJob
  /\ row[m] # Nothing
  /\ row' = [row EXCEPT ![m] = Nothing]
  /\ tx' = Outdated
  /\ UNCHANGED << provider, writer, copies, failures, unlisted, starts, inserts >>

(* The provider is put back in service.                                    *)
Reactivate ==
  /\ writer = NoJob
  /\ ~ provider
  /\ provider' = TRUE
  /\ tx' = Outdated
  /\ UNCHANGED << row, writer, copies, failures, unlisted, starts, inserts >>

(* The process dies: every session is lost, and its transaction undone.    *)
Crash ==
  /\ \E j \in Job : pc[j] # "idle"
  /\ pc' = [j \in Job |-> "idle"]
  /\ writer' = NoJob
  /\ tx' = [j \in Job |-> "none"]
  /\ loaded' = [j \in Job |-> Empty]
  /\ mine' = [j \in Job |-> Empty]
  /\ todo' = [j \in Job |-> {}]
  /\ cur' = [j \in Job |-> Nothing]
  /\ offer' = [j \in Job |-> "none"]
  /\ alive' = {}
  /\ down' = {}
  /\ UNCHANGED << row, provider, failures, unlisted, starts, inserts >>

(* A behaviour may start with any tables; what their counts and marks say  *)
(* has happened.                                                           *)
Init ==
  /\ row \in FirstRows
  /\ provider \in BOOLEAN
  /\ writer = NoJob
  /\ tx = [j \in Job |-> "none"]
  /\ pc = [j \in Job |-> "idle"]
  /\ loaded = [j \in Job |-> Empty]
  /\ mine = [j \in Job |-> Empty]
  /\ todo = [j \in Job |-> {}]
  /\ cur = [j \in Job |-> Nothing]
  /\ offer = [j \in Job |-> "none"]
  /\ alive = {}
  /\ down = {}
  /\ failures = [m \in Model |-> IF row[m] = Nothing THEN 0 ELSE Count(row[m].meta)]
  /\ unlisted = {m \in Model : row[m] # Nothing /\ row[m].meta.missing}
  /\ starts = 0
  /\ inserts = 0

Finish(j) == Commit(j) \/ CommitStale(j) \/ CommitLocked(j)

Clean(j) ==
  \/ Reached(j) \/ Unreachable(j) \/ UnreachableLocked(j)
  \/ \E m \in Model, result \in {"ok", "premium", "failed"} : Probe(j, m, result)
  \/ \E listed \in SUBSET Model : List(j, listed)

Import(j) ==
  \/ \E m \in Model : MergeModel(j, m) \/ MissModel(j, m)
  \/ InsertAlone(j) \/ InsertInside(j) \/ SkipConflict(j) \/ SkipLocked(j) \/ FlushFails(j) \/ Imported(j)
  \/ \E m \in Model, premium \in BOOLEAN : Test(j, m, premium)
  \/ Tested(j)

Proceed(j) ==
  \/ tx[j] # "doomed" /\ ((j \in Cleaner /\ Clean(j)) \/ (j \in Importer /\ Import(j)) \/ Finish(j))
  \/ Doomed(j)

Next ==
  \/ \E j \in Cleaner : Begin(j)
  \/ \E j \in Importer :
       \/ Abandon(j)
       \/ \E listed \in SUBSET Model, priced \in {"none", "listed"} : Discover(j, listed, priced)
  \/ \E j \in Editor, m \in Model, price \in Manual : Override(j, m, price)
  \/ \E j \in Job : Proceed(j)
  \/ \E m \in Model : AddModel(m) \/ DeleteModel(m)
  \/ Reactivate
  \/ Crash

Spec == Init /\ [][Next]_vars

-----------------------------------------------------------------------------
(* Properties *)

StillThere(m) == row[m] # Nothing /\ row'[m] # Nothing /\ row'[m].id = row[m].id

(* cleanup.py:8-10: a model is deactivated only after it has failed the    *)
(* real test Threshold times and a listing has lacked it, counted over all *)
(* passes on this very row, however runs overlap and whatever they         *)
(* overwrite of each other's counts and marks.                             *)
DeactivationEarned ==
  [][\A m \in Model :
       StillThere(m) /\ row[m].active /\ ~ row'[m].active
         => failures[m] >= Threshold /\ m \in unlisted]_vars

(* No overlap of jobs, no stale copy and no merged listing brings a        *)
(* deactivated model back; only deleting and adding it anew does.          *)
NeverReactivated ==
  [][\A m \in Model : StillThere(m) /\ ~ row[m].active => ~ row'[m].active]_vars

(* A manual price gives way only to another override, or to a job that had *)
(* read the row when it had another price (which it may write back): no job*)
(* that has seen the price undoes it.                                      *)
ManualRespected ==
  [][\A m \in Model :
       StillThere(m) /\ row[m].meta.price \in Manual /\ row'[m].meta.price # row[m].meta.price
         => \E j \in Job :
              /\ pc[j] = "finishing" /\ pc'[j] = "idle"
              /\ j \in Editor \/ loaded[j][m].meta.price # row[m].meta.price]_vars
=============================================================================
