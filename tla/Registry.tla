------------------------------ MODULE Registry ------------------------------
(***************************************************************************)
(* The in-memory registry of ProviderManager as a cache of the database:   *)
(* _reload and refresh (services/provider_manager.py), the administrative  *)
(* handlers that commit and then refresh, the seed, the cleanup, discovery *)
(* with its many commits and its one refresh (services/discovery.py), the  *)
(* two hot-reload loops (services/hot_reload.py) and the restart of the    *)
(* process (main.py).                                                      *)
(*                                                                         *)
(* A table's contents are represented by the number of commits that have   *)
(* changed it, so the registry agrees with the database on a table exactly *)
(* when it holds that table's current number.  _reload reads the four      *)
(* tables by four statements with an await before each; every statement    *)
(* sees the latest committed rows (autocommit on SQLite, READ COMMITTED on *)
(* PostgreSQL), so commits may fall between them.  The maps are replaced   *)
(* without an await after the fourth read.                                 *)
(***************************************************************************)
EXTENDS Naturals, Sequences

CONSTANTS
  Admin,       \* coroutines that serve administrative requests or jobs
  Poller,      \* HotReload._polling_loop
  Listeners,   \* HotReload._redis_loop, if Redis is configured
  NoTask,
  Ops,         \* the operations the administrative coroutines perform
  MaxCommits,  \* bound on the number of commits and restarts of a behaviour
  MaxFailures  \* bound on the number of database reads that raise

Task == Admin \cup Listeners \cup {Poller}

(* The order in which _reload reads.                                       *)
ReadOrder == << "providers", "models", "api_keys", "provider_keys" >>
Table     == {"providers", "models", "api_keys", "provider_keys"}

AllOps == {"insert_provider", "edit_provider", "delete_provider",
           "insert_model", "edit_model", "delete_model",
           "insert_api_key", "delete_api_key",
           "insert_pool_key", "delete_pool_key",
           "discover", "cleanup", "seed"}

ASSUME TaskAssumption ==
  /\ Poller \notin Admin \cup Listeners
  /\ Admin \cap Listeners = {}
  /\ NoTask \notin Task
ASSUME OpAssumption == Ops \subseteq AllOps
ASSUME BoundAssumption == MaxCommits \in Nat /\ MaxFailures \in Nat

VARIABLES
  db,        \* commits that have changed each table
  rows,      \* row counts of the two tables _count_rows looks at
  example,   \* does the database hold the provider that run_seed inserts?
  registry,  \* the commit each table of the registry was read at
  pc,        \* where each coroutine stands
  job,       \* the operation an administrative coroutine is performing
  gone,      \* coroutines whose freshly committed row was deleted by another
  lock,      \* the coroutine that holds ProviderManager._lock
  done,      \* how many tables a coroutine's _reload has read
  snap,      \* what it has read
  counts,    \* HotReload._last_counts; << >> stands for None
  seen,      \* the counts the poller has read in its current round
  \* history and bounds
  wrote,     \* the database a coroutine's own last commit left behind
  excused,   \* tables whose last commit no refresh of its author follows
  commits,   \* commits and restarts so far
  failures   \* failed reads so far

memory == << registry, pc, job, gone, lock, done, snap, counts, seen >>
vars   == << db, rows, example, memory, wrote, excused, commits, failures >>

(* Where a coroutine may stand.                                            *)
PC == {"idle", "importing", "committed", "counting", "waiting", "reading", "dead"}

TypeOK ==
  /\ db \in [Table -> Nat]
  /\ rows \in [{"providers", "models"} -> Nat]
  /\ example \in BOOLEAN
  /\ registry \in [Table -> Nat]
  /\ pc \in [Task -> PC]
  /\ job \in [Admin -> AllOps \cup {"none"}]
  /\ gone \subseteq Admin
  /\ lock \in Task \cup {NoTask}
  /\ done \in [Task -> 0 .. 4]
  /\ snap \in [Task -> [Table -> Nat]]
  /\ counts \in Seq(Nat)
  /\ seen \in Seq(Nat)
  /\ wrote \in [Admin -> [Table -> Nat]]
  /\ excused \subseteq Table
  /\ commits \in Nat
  /\ failures \in Nat

Unread == [T \in Table |-> 0]

(* A coroutine is through with its call.                                   *)
Return(t, next) ==
  /\ pc' = [pc EXCEPT ![t] = next]
  /\ job' = [u \in Admin |-> IF u = t THEN "none" ELSE job[u]]
  /\ wrote' = [u \in Admin |-> IF u = t THEN Unread ELSE wrote[u]]

-----------------------------------------------------------------------------
(* Administrative operations *)

(* The tables whose rows an operation changes.  Deleting a provider        *)
(* cascades to its models and pool keys; cleanup commits provider, model   *)
(* and API-key flags in one transaction.                                   *)
Touched(op) ==
  CASE op \in {"insert_provider", "edit_provider", "seed"}             -> {"providers"}
    [] op = "delete_provider"               -> {"providers", "models", "provider_keys"}
    [] op \in {"insert_model", "edit_model", "delete_model", "discover"}  -> {"models"}
    [] op \in {"insert_api_key", "delete_api_key"}                      -> {"api_keys"}
    [] op \in {"insert_pool_key", "delete_pool_key"}               -> {"provider_keys"}
    [] op = "cleanup"                            -> {"providers", "models", "api_keys"}

(* Operations that re-read their row (session.refresh) before the manager's*)
(* refresh; the re-read raises if the row has been deleted meanwhile.      *)
ReReads == {"insert_provider", "edit_provider", "insert_model", "edit_model",
            "insert_api_key", "insert_pool_key"}

Deletes == {"delete_provider", "delete_model", "delete_api_key", "delete_pool_key"}

(* Variant: deletions that do not refresh.                                 *)
NoRefreshAfterDelete == {"seed"} \cup Deletes

(* Operations whose handler commits and returns without a refresh.         *)
NoRefresh == {"seed"}

(* What an operation may do to the row counts: a provider takes any number *)
(* of models with it ...                                                   *)
RowsAfter(op) ==
  CASE op \in {"insert_provider", "seed"}  -> {[rows EXCEPT !["providers"] = @ + 1]}
    [] op = "insert_model"                 -> {[rows EXCEPT !["models"] = @ + 1]}
    [] op = "delete_model"                 -> {[rows EXCEPT !["models"] = @ - 1]}
    [] op = "delete_provider"              ->
         {[rows EXCEPT !["providers"] = @ - 1, !["models"] = m] : m \in 0 .. rows["models"]}
    [] OTHER                               -> {rows}

(* ... and to the presence of the example provider.                        *)
ExampleAfter(op) ==
  CASE op = "seed"            -> {TRUE}
    [] op = "delete_provider" -> {example, FALSE}
    [] OTHER                  -> {example}

(* Variant: a handler without its 404.                                     *)
PossibleUnchecked(op) == op = "seed" => ~ example

(* The rows without which the handler answers 404 or the job has no work.  *)
Possible(op) ==
  /\ op \in {"edit_provider", "delete_provider", "insert_model", "discover",
             "insert_pool_key"} => rows["providers"] > 0
  /\ op \in {"edit_model", "delete_model"} => rows["models"] > 0
  /\ op = "seed" => ~ example

Committed(op) == [T \in Table |-> IF T \in Touched(op) THEN db[T] + 1 ELSE db[T]]

(* The tables whose last commit is t's own and not in the registry: what   *)
(* stays behind if t ends without its refresh.                             *)
Orphaned(t) ==
  {T \in Table : /\ t \in Admin /\ job[t] # "none" /\ T \in Touched(job[t])
                 /\ wrote[t][T] = db[T] /\ registry[T] # db[T]}

(* The requests whose re-read a deletion makes fail.                       *)
Victims(op) ==
  {u \in Admin : pc[u] = "committed" /\ Touched(job[u]) \cap Touched(op) # {}}

(* The commit of an operation.  Its coroutine goes on to the re-read, to   *)
(* the refresh, or, for POST /v1/admin/seed, straight back to the caller.  *)
CommitOp(t, op) ==
  /\ pc[t] = "idle"
  /\ commits < MaxCommits
  /\ Possible(op)
  /\ db' = Committed(op)
  /\ rows' \in RowsAfter(op)
  /\ example' \in ExampleAfter(op)
  /\ IF op \in NoRefresh
       THEN UNCHANGED << pc, job, wrote >>
       ELSE /\ pc' = [pc EXCEPT ![t] = IF op \in ReReads THEN "committed" ELSE "waiting"]
            /\ job' = [job EXCEPT ![t] = op]
            /\ wrote' = [wrote EXCEPT ![t] = db']
  /\ excused' = IF op = "seed" THEN excused \cup Touched(op) ELSE excused \ Touched(op)
  /\ IF op \in Deletes
       THEN \E lost \in SUBSET Victims(op) : gone' = gone \cup lost
       ELSE gone' = gone
  /\ commits' = commits + 1
  /\ UNCHANGED << registry, lock, done, snap, counts, seen, failures >>

(* session.refresh(row) succeeds; the coroutine calls manager.refresh.     *)
ReRead(t) ==
  /\ pc[t] = "committed"
  /\ t \notin gone
  /\ pc' = [pc EXCEPT ![t] = "waiting"]
  /\ UNCHANGED << db, rows, example, registry, job, gone, lock, done, snap, counts,
                  seen, wrote, excused, commits, failures >>

(* session.refresh(row) raises: the request ends before its refresh.       *)
ReReadFails(t) ==
  /\ t \in gone
  /\ gone' = gone \ {t}
  /\ Return(t, "idle")
  /\ UNCHANGED << db, rows, example, registry, lock, done, snap, counts, seen,
                  excused, commits, failures >>

-----------------------------------------------------------------------------
(* Discovery *)

(* A commit of changed models, and of m more of them.                      *)
CommitModels(t, m) ==
  /\ commits < MaxCommits
  /\ m = 0 \/ rows["providers"] > 0
  /\ db' = Committed("discover")
  /\ rows' = [rows EXCEPT !["models"] = @ + m]
  /\ wrote' = [wrote EXCEPT ![t] = db']
  /\ excused' = excused \ Touched("discover")
  /\ commits' = commits + 1

(* The provider is found and its listing asked for.                        *)
BeginDiscovery(t) ==
  /\ pc[t] = "idle"
  /\ Possible("discover")
  /\ pc' = [pc EXCEPT ![t] = "importing"]
  /\ job' = [job EXCEPT ![t] = "discover"]
  /\ UNCHANGED << db, rows, example, registry, gone, lock, done, snap, counts, seen,
                  wrote, excused, commits, failures >>

(* One model of the listing is inserted under a SAVEPOINT whose RELEASE    *)
(* commits it.  A model that is skipped changes nothing here.              *)
ImportModel(t) ==
  /\ pc[t] = "importing"
  /\ CommitModels(t, 1)
  /\ UNCHANGED << example, registry, pc, job, gone, lock, done, snap, counts, seen,
                  failures >>

(* The final commit, then refresh.  It may find nothing to write in models;*)
(* or merged metadata and premium flags; or, if merged metadata opened a   *)
(* transaction before an import, that import as well (one stands for all   *)
(* there may be).                                                          *)
FinishDiscovery(t) ==
  /\ pc[t] = "importing"
  /\ \/ \E m \in 0 .. 1 : CommitModels(t, m)
     \/ UNCHANGED << db, rows, wrote, excused, commits >>
  /\ pc' = [pc EXCEPT ![t] = "waiting"]
  /\ UNCHANGED << example, registry, job, gone, lock, done, snap, counts, seen,
                  failures >>

-----------------------------------------------------------------------------
(* refresh: the lock, the four reads, the swap *)

(* Variant: refresh without the lock.                                      *)
LockIgnored == TRUE

LockFree == lock = NoTask

(* Variant: a refresh that leaves the work to the one under way.           *)
AcquireOrJoin(t) ==
  /\ pc[t] = "waiting"
  /\ IF lock = NoTask
       THEN lock' = t /\ pc' = [pc EXCEPT ![t] = "reading"] /\ UNCHANGED << job, wrote >>
       ELSE lock' = lock /\ Return(t, "idle")
  /\ UNCHANGED << db, rows, example, registry, gone, done, snap, counts, seen,
                  excused, commits, failures >>

Acquire(t) ==
  /\ pc[t] = "waiting"
  /\ LockFree
  /\ lock' = t
  /\ pc' = [pc EXCEPT ![t] = "reading"]
  /\ UNCHANGED << db, rows, example, registry, job, gone, done, snap, counts, seen,
                  wrote, excused, commits, failures >>

ReadTable(t) ==
  /\ pc[t] = "reading"
  /\ done[t] < 4
  /\ LET T == ReadOrder[done[t] + 1]
     IN  snap' = [snap EXCEPT ![t][T] = db[T]]
  /\ done' = [done EXCEPT ![t] = @ + 1]
  /\ UNCHANGED << db, rows, example, registry, pc, job, gone, lock, counts, seen,
                  wrote, excused, commits, failures >>

(* Variant: the lock is kept.                                              *)
ReleaseForgotten(t) ==
  /\ lock' = lock
  /\ done' = [done EXCEPT ![t] = 0]
  /\ snap' = [snap EXCEPT ![t] = Unread]

(* _reload ends, one way or the other: its locals are dropped and the lock *)
(* is released.                                                            *)
Release(t) ==
  /\ lock' = NoTask
  /\ done' = [done EXCEPT ![t] = 0]
  /\ snap' = [snap EXCEPT ![t] = Unread]

(* The maps are rebuilt and the lock released.  The poller then remembers  *)
(* the counts of its round.                                                *)
Install(t) ==
  /\ pc[t] = "reading"
  /\ done[t] = 4
  /\ registry' = snap[t]
  /\ excused' = {T \in excused : snap[t][T] # db[T]}
  /\ IF t = Poller THEN counts' = seen /\ seen' = << >>
                   ELSE UNCHANGED << counts, seen >>
  /\ Release(t)
  /\ Return(t, "idle")
  /\ UNCHANGED << db, rows, example, gone, commits, failures >>

(* A read raises.  The lock is released and the registry left as it was.   *)
(* An administrator's request ends with a 500, a discovery with an error   *)
(* event, after its commit; the poller logs, keeps its old counts and      *)
(* carries on; the listener's loop is over.                                *)
FailRead(t) ==
  /\ pc[t] = "reading"
  /\ done[t] < 4
  /\ failures < MaxFailures
  /\ excused' = excused \cup Orphaned(t)
  /\ failures' = failures + 1
  /\ seen' = IF t = Poller THEN << >> ELSE seen
  /\ Release(t)
  /\ Return(t, IF t \in Listeners THEN "dead" ELSE "idle")
  /\ UNCHANGED << db, rows, example, registry, gone, counts, commits >>

(* A discovery ends before its time: the listing or a statement raises, or *)
(* the client leaves and the generator is cancelled at one of its yields or*)
(* awaits, those of refresh included.  What it has committed stays, what it*)
(* has not is rolled back, and no refresh follows.                         *)
AbandonDiscovery(t) ==
  /\ job[t] = "discover"
  /\ excused' = excused \cup Orphaned(t)
  /\ lock' = IF lock = t THEN NoTask ELSE lock
  /\ done' = [done EXCEPT ![t] = 0]
  /\ snap' = [snap EXCEPT ![t] = Unread]
  /\ Return(t, "idle")
  /\ UNCHANGED << db, rows, example, registry, gone, counts, seen, commits, failures >>

-----------------------------------------------------------------------------
(* Hot reload *)

(* _count_rows: the providers are counted, then, after an await, the models*)
(* and the pair is compared with the previous round's.                     *)
CountProviders ==
  /\ pc[Poller] = "idle"
  /\ pc' = [pc EXCEPT ![Poller] = "counting"]
  /\ seen' = << rows["providers"] >>
  /\ UNCHANGED << db, rows, example, registry, job, gone, lock, done, snap, counts,
                  wrote, excused, commits, failures >>

(* Variant: counts remembered before the refresh they call for.            *)
CountModelsRememberFirst ==
  /\ pc[Poller] = "counting"
  /\ LET now == Append(seen, rows["models"])
     IN  /\ counts' = now
         /\ IF counts # << >> /\ counts # now
              THEN pc' = [pc EXCEPT ![Poller] = "waiting"] /\ seen' = now
              ELSE pc' = [pc EXCEPT ![Poller] = "idle"] /\ seen' = << >>
  /\ UNCHANGED << db, rows, example, registry, job, gone, lock, done, snap,
                  wrote, excused, commits, failures >>

CountModels ==
  /\ pc[Poller] = "counting"
  /\ LET now == Append(seen, rows["models"])
     IN  IF counts # << >> /\ counts # now
           THEN /\ pc' = [pc EXCEPT ![Poller] = "waiting"]
                /\ seen' = now
                /\ counts' = counts
           ELSE /\ pc' = [pc EXCEPT ![Poller] = "idle"]
                /\ seen' = << >>
                /\ counts' = now
  /\ UNCHANGED << db, rows, example, registry, job, gone, lock, done, snap,
                  wrote, excused, commits, failures >>

(* A count raises: the round is logged and dropped.                        *)
CountFails ==
  /\ pc[Poller] = "counting"
  /\ failures < MaxFailures
  /\ failures' = failures + 1
  /\ pc' = [pc EXCEPT ![Poller] = "idle"]
  /\ seen' = << >>
  /\ UNCHANGED << db, rows, example, registry, job, gone, lock, done, snap, counts,
                  wrote, excused, commits >>

(* A key event whose name matches _WATCH_PATTERNS arrives from Redis.      *)
KeyEvent(t) ==
  /\ pc[t] = "idle"
  /\ pc' = [pc EXCEPT ![t] = "waiting"]
  /\ UNCHANGED << db, rows, example, registry, job, gone, lock, done, snap, counts,
                  seen, wrote, excused, commits, failures >>

-----------------------------------------------------------------------------
(* The process dies and starts again: every coroutine is lost, then the    *)
(* lifespan runs load, run_seed and refresh to the end before any request  *)
(* is served and before the loops are started.                             *)
Restart ==
  /\ commits < MaxCommits
  /\ commits' = commits + 1
  /\ IF example THEN UNCHANGED << db, rows >>
                ELSE /\ db' = Committed("seed")
                     /\ rows' = [rows EXCEPT !["providers"] = @ + 1]
  /\ example' = TRUE
  /\ registry' = db'
  /\ pc' = [t \in Task |-> "idle"]
  /\ job' = [t \in Admin |-> "none"]
  /\ gone' = {}
  /\ lock' = NoTask
  /\ done' = [t \in Task |-> 0]
  /\ snap' = [t \in Task |-> Unread]
  /\ counts' = << >>
  /\ seen' = << >>
  /\ wrote' = [t \in Admin |-> Unread]
  /\ excused' = {}
  /\ UNCHANGED failures

Init ==
  /\ db = [T \in Table |-> 0]
  /\ rows = [T \in {"providers", "models"} |-> IF T = "providers" THEN 1 ELSE 0]
  /\ example = TRUE
  /\ registry = db
  /\ pc = [t \in Task |-> "idle"]
  /\ job = [t \in Admin |-> "none"]
  /\ gone = {}
  /\ lock = NoTask
  /\ done = [t \in Task |-> 0]
  /\ snap = [t \in Task |-> Unread]
  /\ counts = << >>
  /\ seen = << >>
  /\ wrote = [t \in Admin |-> Unread]
  /\ excused = {}
  /\ commits = 0
  /\ failures = 0

Edit(t) == (\E op \in Ops \ {"discover"} : CommitOp(t, op)) \/ ReRead(t) \/ ReReadFails(t)

Discover(t) ==
  \/ "discover" \in Ops /\ BeginDiscovery(t)
  \/ ImportModel(t) \/ FinishDiscovery(t) \/ AbandonDiscovery(t)

Poll == CountProviders \/ CountModels \/ CountFails

Next ==
  \/ \E t \in Admin : Edit(t) \/ Discover(t)
  \/ \E t \in Task : Acquire(t) \/ ReadTable(t) \/ Install(t) \/ FailRead(t)
  \/ Poll
  \/ \E t \in Listeners : KeyEvent(t)
  \/ Restart

Spec == Init /\ [][Next]_vars

(* The event loop runs every coroutine that can go on, an asyncio.Lock is  *)
(* handed over in the order of arrival, and the poller sleeps for a bounded*)
(* time.  A discovery comes to its end: its listing is finite, its probes  *)
(* time out, and its client reads the events or goes away.  Nothing obliges*)
(* an administrator, Redis or a crash to act.                              *)
Fairness ==
  /\ \A t \in Admin : WF_vars(ReRead(t) \/ ReReadFails(t))
  /\ \A t \in Admin : WF_vars(pc[t] = "importing" /\ (FinishDiscovery(t) \/ AbandonDiscovery(t)))
  /\ \A t \in Task : SF_vars(Acquire(t)) /\ WF_vars(ReadTable(t)) /\ WF_vars(Install(t))
  /\ WF_vars(CountProviders) /\ WF_vars(CountModels)

FairSpec == Spec /\ Fairness

-----------------------------------------------------------------------------
(* Properties *)

HasRead(t, T) == \E i \in 1 .. done[t] : ReadOrder[i] = T

(* A coroutine that will install table T as it is in the database now.     *)
WillInstall(t, T) ==
  \/ pc[t] = "importing"
  \/ pc[t] = "committed" /\ t \notin gone
  \/ pc[t] = "waiting"
  \/ pc[t] = "reading" /\ (HasRead(t, T) => snap[t][T] = db[T])

(* The registry lags behind the database on a table only while some        *)
(* coroutine is still going to bring it up to date: neither commits that   *)
(* fall between the four reads, nor reloads queued behind each other, nor  *)
(* a re-read that fails because another request deleted the row, lose an   *)
(* update.  A discovery under way counts as such a coroutine, for it has   *)
(* its refresh at the end.  Excused is a table whose last commit is the    *)
(* seed's, or that of a request whose own refresh raised, or an import of a*)
(* discovery that was given up; any other commit to it ends the excuse.    *)
StaleOnlyWhilePending ==
  \A T \in Table :
    registry[T] # db[T] => T \in excused \/ \E t \in Task : WillInstall(t, T)

(* Read your own write: when an administrative request comes to its normal *)
(* end, the registry already holds what that request committed, whoever    *)
(* reloaded it in between; a discovery holds all it imported.  Not normal  *)
(* are a re-read or a refresh that raises, and a discovery given up.       *)
ReadYourWrite ==
  [][\A t \in Admin :
       job[t] # "none" /\ job'[t] = "none" /\ t \notin gone /\ failures' = failures
         /\ ~ AbandonDiscovery(t)
         => \A T \in Table : registry'[T] >= wrote[t][T]]_vars

(* A table that fell behind is brought up to date, or its last commit is   *)
(* one that no refresh of its author follows (see excused).                *)
FreshAgain ==
  \A T \in Table :
    registry[T] # db[T] ~> (registry[T] = db[T] \/ T \in excused)

(* A provider table left stale by a seed or a failed refresh is repaired by*)
(* polling whenever its row count is not the remembered one: also a round  *)
(* whose own refresh fails is repeated.                                    *)
PollingRepairs ==
  \A n \in 0 .. MaxCommits + 1 :
    (counts # << >> /\ counts[1] = n /\ rows["providers"] # n /\ "providers" \in excused)
      ~> ("providers" \notin excused \/ rows["providers"] = n)

(* The abstract cache: see ReadThrough.                                    *)
Cache == INSTANCE ReadThrough WITH source <- db, view <- registry

ImplementsReadThrough == Cache!Spec
=============================================================================
