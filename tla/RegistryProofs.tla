--------------------------- MODULE RegistryProofs ---------------------------
(***************************************************************************)
(* Proofs about Registry, for every set of coroutines and listeners, every *)
(* choice of operations and every bound on commits and failures.           *)
(***************************************************************************)
EXTENDS Registry, TLAPS

(* The lock is held by exactly the coroutine that reads, and only that one *)
(* has read anything.  Only a coroutine about to re-read can lose its row, *)
(* and what a coroutine is busy with fits where it stands.                 *)
LockInv ==
  /\ \A t \in Task : pc[t] = "reading" <=> lock = t
  /\ \A t \in Task : pc[t] # "reading" => done[t] = 0
  /\ \A t \in gone : pc[t] = "committed"
  /\ \A t \in Admin : pc[t] = "importing" => job[t] = "discover"
  /\ \A t \in Admin : pc[t] = "committed" => job[t] \in ReReads

(* A table is between the registry and the database at all times, and so   *)
(* is every snapshot of it that waits to be installed.                     *)
OrderInv ==
  /\ \A T \in Table : registry[T] <= db[T]
  /\ \A t \in Task, T \in Table :
       pc[t] = "reading" /\ HasRead(t, T)
         => registry[T] <= snap[t][T] /\ snap[t][T] <= db[T]

Inv == TypeOK /\ LockInv /\ OrderInv

-----------------------------------------------------------------------------
(* The order of the reads *)

(* Before its first read a reload has read nothing, after its fourth read  *)
(* it has read everything, and each read adds one table.                   *)
LEMMA Reading ==
  ASSUME TypeOK, NEW t \in Task, NEW T \in Table
  PROVE  /\ done[t] = 0 => ~ HasRead(t, T)
         /\ done[t] = 4 => HasRead(t, T)
         /\ done[t] < 4 => ReadOrder[done[t] + 1] \in Table
         /\ done' = [done EXCEPT ![t] = @ + 1] =>
              (HasRead(t, T)' <=> HasRead(t, T) \/ T = ReadOrder[done[t] + 1])
         /\ done'[t] = done[t] => (HasRead(t, T)' <=> HasRead(t, T))
<1>. done[t] \in 0 .. 4
  BY DEF TypeOK
<1>1. done[t] = 0 => ~ HasRead(t, T)
  BY DEF HasRead
<1>2. done[t] = 4 => HasRead(t, T)
  <2>1. \E i \in 1 .. 4 : ReadOrder[i] = T
    BY DEF ReadOrder, Table
  <2>. QED BY <2>1 DEF HasRead
<1>3. done[t] < 4 => ReadOrder[done[t] + 1] \in Table
  <2>1. done[t] < 4 => done[t] = 0 \/ done[t] = 1 \/ done[t] = 2 \/ done[t] = 3
    OBVIOUS
  <2>. QED BY <2>1 DEF ReadOrder, Table
<1>4. done' = [done EXCEPT ![t] = @ + 1] =>
        (HasRead(t, T)' <=> HasRead(t, T) \/ T = ReadOrder[done[t] + 1])
  <2>. SUFFICES ASSUME done' = [done EXCEPT ![t] = @ + 1]
                PROVE  HasRead(t, T)' <=> HasRead(t, T) \/ T = ReadOrder[done[t] + 1]
    OBVIOUS
  <2>1. done'[t] = done[t] + 1
    BY DEF TypeOK
  <2>2. \A i : i \in 1 .. done[t] + 1 <=> i \in 1 .. done[t] \/ i = done[t] + 1
    OBVIOUS
  <2>. QED BY <2>1, <2>2 DEF HasRead
<1>5. done'[t] = done[t] => (HasRead(t, T)' <=> HasRead(t, T))
  BY DEF HasRead
<1>. QED BY <1>1, <1>2, <1>3, <1>4, <1>5

-----------------------------------------------------------------------------
(* Types *)

LEMMA InitInv == Init => Inv
<1>. SUFFICES ASSUME Init PROVE Inv
  OBVIOUS
<1>1. TypeOK
  BY DEF Init, TypeOK, Task, Table, Unread, AllOps, PC
<1>2. LockInv
  BY TaskAssumption DEF Init, LockInv, Task
<1>3. OrderInv
  BY DEF Init, OrderInv, Table
<1>. QED BY <1>1, <1>2, <1>3 DEF Inv

(* Return and Release leave well-typed variables behind. *)
LEMMA ReturnType ==
  ASSUME TypeOK, NEW t \in Task, NEW next \in {"idle", "dead"}, Return(t, next)
  PROVE  /\ pc' = [pc EXCEPT ![t] = next]
         /\ pc' \in [Task -> PC]
         /\ job' \in [Admin -> AllOps \cup {"none"}]
         /\ wrote' \in [Admin -> [Table -> Nat]]
BY DEF TypeOK, Return, Unread, PC

LEMMA ReleaseType ==
  ASSUME TypeOK, NEW t \in Task, Release(t)
  PROVE  /\ lock' = NoTask
         /\ done' = [done EXCEPT ![t] = 0]
         /\ done' \in [Task -> 0 .. 4]
         /\ snap' \in [Task -> [Table -> Nat]]
BY DEF TypeOK, Release, Unread

LEMMA CommittedType ==
  ASSUME TypeOK, NEW op \in AllOps
  PROVE  /\ Committed(op) \in [Table -> Nat]
         /\ \A T \in Table : db[T] <= Committed(op)[T]
         /\ \A T \in Table \ Touched(op) : Committed(op)[T] = db[T]
         /\ Touched(op) \subseteq Table
<1>1. Touched(op) \subseteq Table
  BY DEF Touched, Table, AllOps
<1>. QED BY <1>1 DEF TypeOK, Committed

LEMMA RowsAfterType ==
  ASSUME TypeOK, NEW op \in AllOps, Possible(op)
  PROVE  /\ RowsAfter(op) \subseteq [{"providers", "models"} -> Nat]
         /\ ExampleAfter(op) \subseteq BOOLEAN
<1>0. /\ rows["providers"] \in Nat /\ rows["models"] \in Nat /\ example \in BOOLEAN
      /\ rows \in [{"providers", "models"} -> Nat]
  BY DEF TypeOK
<1>1. op = "delete_provider" => rows["providers"] - 1 \in Nat
  BY <1>0 DEF Possible
<1>2. op = "delete_model" => rows["models"] - 1 \in Nat
  BY <1>0 DEF Possible
<1>3. CASE op = "delete_provider"
  <2>1. RowsAfter(op) =
          {[rows EXCEPT !["providers"] = @ - 1, !["models"] = m] : m \in 0 .. rows["models"]}
    BY <1>3 DEF RowsAfter
  <2>. QED BY <1>0, <1>1, <1>3, <2>1 DEF ExampleAfter
<1>4. CASE op # "delete_provider"
  <2>1. RowsAfter(op) \subseteq [{"providers", "models"} -> Nat]
    BY <1>0, <1>2, <1>4 DEF RowsAfter
  <2>. QED BY <1>0, <1>4, <2>1 DEF ExampleAfter
<1>. QED BY <1>3, <1>4

LEMMA CommitModelsType ==
  ASSUME TypeOK, NEW t \in Admin, NEW m \in 0 .. 1, CommitModels(t, m)
  PROVE  /\ db' = Committed("discover") /\ db' \in [Table -> Nat]
         /\ rows' \in [{"providers", "models"} -> Nat]
         /\ wrote' = [wrote EXCEPT ![t] = db'] /\ wrote' \in [Admin -> [Table -> Nat]]
         /\ excused' = excused \ {"models"} /\ excused' \subseteq Table
         /\ commits' \in Nat
         /\ db'["models"] = db["models"] + 1
         /\ \A T \in Table : T # "models" => db'[T] = db[T]
         /\ Touched("discover") = {"models"}
<1>1. Touched("discover") = {"models"}
  BY DEF Touched
<1>2. db' = Committed("discover") /\ db' \in [Table -> Nat]
  BY CommittedType DEF CommitModels, AllOps
<1>3. rows' \in [{"providers", "models"} -> Nat]
  BY DEF CommitModels, TypeOK
<1>4. wrote' \in [Admin -> [Table -> Nat]] /\ excused' \subseteq Table /\ commits' \in Nat
  BY <1>2 DEF CommitModels, TypeOK
<1>5. db'["models"] = db["models"] + 1 /\ \A T \in Table : T # "models" => db'[T] = db[T]
  BY <1>1, <1>2 DEF Committed, Table
<1>. QED BY <1>1, <1>2, <1>3, <1>4, <1>5 DEF CommitModels

(* The steps of a discovery but for its end before time: a commit of       *)
(* models or none.                                                         *)
LEMMA DiscoverStep ==
  ASSUME TypeOK, NEW t \in Admin, BeginDiscovery(t) \/ ImportModel(t) \/ FinishDiscovery(t)
  PROVE  /\ \/ \E m \in 0 .. 1 : CommitModels(t, m)
            \/ UNCHANGED << db, rows, wrote, excused, commits >>
         /\ UNCHANGED << example, registry, gone, lock, done, snap, counts, seen, failures >>
         /\ \/ pc[t] = "idle" /\ pc' = [pc EXCEPT ![t] = "importing"]
               /\ job' = [job EXCEPT ![t] = "discover"] /\ db' = db
            \/ pc[t] = "importing" /\ pc' = pc /\ job' = job
            \/ pc[t] = "importing" /\ pc' = [pc EXCEPT ![t] = "waiting"] /\ job' = job
<1>1. CASE BeginDiscovery(t)
  BY <1>1 DEF BeginDiscovery
<1>2. CASE ImportModel(t)
  BY <1>2 DEF ImportModel
<1>3. CASE FinishDiscovery(t)
  BY <1>3 DEF FinishDiscovery
<1>. QED BY <1>1, <1>2, <1>3

(* They concern no other coroutine.                                        *)
LEMMA DiscoverFrame ==
  ASSUME TypeOK, NEW t \in Admin, BeginDiscovery(t) \/ ImportModel(t) \/ FinishDiscovery(t)
  PROVE  /\ \A u \in Task : u # t => pc'[u] = pc[u]
         /\ \A u \in Admin : u # t => job'[u] = job[u] /\ wrote'[u] = wrote[u]
         /\ wrote' = wrote \/ (wrote'[t] = db' /\ pc'[t] # "reading")
<1>0. t \in Task
  BY DEF Task
<1>1. \A u \in Task : u # t => pc'[u] = pc[u]
  <2>1. \E p \in PC : pc' = [pc EXCEPT ![t] = p]
    <3>1. pc' = pc \/ pc' = [pc EXCEPT ![t] = "importing"] \/ pc' = [pc EXCEPT ![t] = "waiting"]
      BY DiscoverStep
    <3>. QED BY <1>0, <3>1 DEF TypeOK, PC
  <2>. QED BY <2>1 DEF TypeOK
<1>2. \A u \in Admin : u # t => job'[u] = job[u]
  <2>1. job' = job \/ job' = [job EXCEPT ![t] = "discover"]
    BY DiscoverStep
  <2>. QED BY <2>1 DEF TypeOK
<1>3. ASSUME NEW m \in 0 .. 1, CommitModels(t, m)
      PROVE  /\ \A u \in Admin : u # t => wrote'[u] = wrote[u]
             /\ wrote'[t] = db'
  BY <1>3 DEF CommitModels, TypeOK
<1>4. pc'[t] # "reading"
  <2>1. /\ pc[t] = "idle" \/ pc[t] = "importing"
        /\ \/ pc' = pc
           \/ pc' = [pc EXCEPT ![t] = "importing"]
           \/ pc' = [pc EXCEPT ![t] = "waiting"]
    BY DiscoverStep
  <2>. QED BY <1>0, <2>1 DEF TypeOK
<1>5. wrote' = wrote \/ \E m \in 0 .. 1 : CommitModels(t, m)
  BY DiscoverStep
<1>. QED BY <1>1, <1>2, <1>3, <1>4, <1>5

LEMMA TypeStep == TypeOK /\ LockInv /\ [Next]_vars => TypeOK'
<1>. SUFFICES ASSUME TypeOK, LockInv, [Next]_vars PROVE TypeOK'
  OBVIOUS
<1>1. ASSUME NEW t \in Admin, NEW op \in Ops, CommitOp(t, op) PROVE TypeOK'
  <2>. op \in AllOps /\ t \in Task
    BY OpAssumption DEF Task
  <2>1. db' \in [Table -> Nat]
    BY <1>1, CommittedType DEF CommitOp
  <2>2. rows' \in [{"providers", "models"} -> Nat] /\ example' \in BOOLEAN
    BY <1>1, RowsAfterType DEF CommitOp
  <2>3. gone' \subseteq Admin
    BY <1>1 DEF CommitOp, Victims, TypeOK
  <2>4. excused' \subseteq Table
    BY <1>1, CommittedType DEF CommitOp, TypeOK
  <2>5. /\ pc' \in [Task -> PC]
        /\ job' \in [Admin -> AllOps \cup {"none"}]
        /\ wrote' \in [Admin -> [Table -> Nat]]
    BY <1>1, <2>1 DEF CommitOp, TypeOK, PC
  <2>6. commits' \in Nat
    BY <1>1 DEF CommitOp, TypeOK
  <2>. QED BY <1>1, <2>1, <2>2, <2>3, <2>4, <2>5, <2>6 DEF CommitOp, TypeOK
<1>2. ASSUME NEW t \in Admin, ReRead(t) PROVE TypeOK'
  BY <1>2 DEF ReRead, TypeOK, PC
<1>3. ASSUME NEW t \in Admin, ReReadFails(t) PROVE TypeOK'
  BY <1>3, ReturnType DEF ReReadFails, TypeOK, Task
<1>4. ASSUME NEW t \in Task, Acquire(t) PROVE TypeOK'
  BY <1>4 DEF Acquire, TypeOK, PC
<1>5. ASSUME NEW t \in Task, ReadTable(t) PROVE TypeOK'
  <2>1. done' \in [Task -> 0 .. 4]
    <3>1. done[t] + 1 \in 0 .. 4
      <4>1. done[t] \in 0 .. 4 /\ done[t] < 4
        BY <1>5 DEF ReadTable, TypeOK
      <4>. QED BY <4>1
    <3>. QED BY <1>5, <3>1 DEF ReadTable, TypeOK
  <2>2. ReadOrder[done[t] + 1] \in Table
    BY <1>5, Reading DEF ReadTable, Table
  <2>3. snap' \in [Task -> [Table -> Nat]]
    BY <1>5, <2>2 DEF ReadTable, TypeOK
  <2>. QED BY <1>5, <2>1, <2>3 DEF ReadTable, TypeOK
<1>6. ASSUME NEW t \in Task, Install(t) PROVE TypeOK'
  <2>1. registry' \in [Table -> Nat] /\ excused' \subseteq Table
    BY <1>6 DEF Install, TypeOK
  <2>2. counts' \in Seq(Nat) /\ seen' \in Seq(Nat)
    <3>1. << >> \in Seq(Nat) /\ counts \in Seq(Nat) /\ seen \in Seq(Nat)
      BY DEF TypeOK
    <3>2. counts' \in {counts, seen} /\ seen' \in {seen, << >>}
      BY <1>6 DEF Install
    <3>. QED BY <3>1, <3>2
  <2>. QED BY <1>6, <2>1, <2>2, ReturnType, ReleaseType DEF Install, TypeOK
<1>7. ASSUME NEW t \in Task, FailRead(t) PROVE TypeOK'
  <2>1. Return(t, "dead") \/ Return(t, "idle")
    BY <1>7 DEF FailRead
  <2>2. seen' \in Seq(Nat) /\ failures' \in Nat /\ excused' \subseteq Table
    BY <1>7 DEF FailRead, TypeOK, Orphaned
  <2>. QED BY <1>7, <2>1, <2>2, ReturnType, ReleaseType DEF FailRead, TypeOK
<1>8. CASE CountProviders
  <2>1. << rows["providers"] >> \in Seq(Nat)
    BY DEF TypeOK
  <2>. QED BY <1>8, <2>1 DEF CountProviders, TypeOK, PC
<1>9. CASE CountModels
  <2>1. Append(seen, rows["models"]) \in Seq(Nat) /\ << >> \in Seq(Nat)
    BY DEF TypeOK
  <2>2. seen' \in Seq(Nat) /\ counts' \in Seq(Nat)
    BY <1>9, <2>1 DEF CountModels, TypeOK
  <2>3. pc' \in [Task -> PC]
    BY <1>9 DEF CountModels, TypeOK, PC
  <2>. QED BY <1>9, <2>2, <2>3 DEF CountModels, TypeOK
<1>10. CASE CountFails
  <2>1. << >> \in Seq(Nat) /\ failures + 1 \in Nat
    BY DEF TypeOK
  <2>. QED BY <1>10, <2>1 DEF CountFails, TypeOK, PC
<1>11. ASSUME NEW t \in Listeners, KeyEvent(t) PROVE TypeOK'
  BY <1>11 DEF KeyEvent, TypeOK, PC
<1>12. CASE Restart
  <2>1. db' \in [Table -> Nat] /\ rows' \in [{"providers", "models"} -> Nat]
    <3>1. Committed("seed") \in [Table -> Nat]
      BY CommittedType DEF AllOps
    <3>2. [rows EXCEPT !["providers"] = @ + 1] \in [{"providers", "models"} -> Nat]
      BY DEF TypeOK
    <3>. QED BY <1>12, <3>1, <3>2 DEF Restart, TypeOK
  <2>. QED BY <1>12, <2>1 DEF Restart, TypeOK, Unread, PC
<1>13. CASE UNCHANGED vars
  BY <1>13 DEF vars, memory, TypeOK
<1>14. ASSUME NEW t \in Admin, BeginDiscovery(t) \/ ImportModel(t) \/ FinishDiscovery(t)
       PROVE  TypeOK'
  <2>1. pc' \in [Task -> PC] /\ job' \in [Admin -> AllOps \cup {"none"}]
    BY <1>14, DiscoverStep DEF TypeOK, PC, AllOps
  <2>2. /\ db' \in [Table -> Nat] /\ rows' \in [{"providers", "models"} -> Nat]
        /\ wrote' \in [Admin -> [Table -> Nat]] /\ excused' \subseteq Table /\ commits' \in Nat
    BY <1>14, DiscoverStep, CommitModelsType DEF TypeOK
  <2>. QED BY <1>14, <2>1, <2>2, DiscoverStep DEF TypeOK
<1>15. ASSUME NEW t \in Admin, AbandonDiscovery(t) PROVE TypeOK'
  <2>. t \in Task
    BY DEF Task
  <2>1. done' \in [Task -> 0 .. 4] /\ snap' \in [Task -> [Table -> Nat]] /\ lock' \in Task \cup {NoTask}
    BY <1>15 DEF AbandonDiscovery, TypeOK, Unread
  <2>2. excused' \subseteq Table
    BY <1>15 DEF AbandonDiscovery, TypeOK, Orphaned
  <2>. QED BY <1>15, <2>1, <2>2, ReturnType DEF AbandonDiscovery, TypeOK
<1>. QED
  BY <1>1, <1>2, <1>3, <1>4, <1>5, <1>6, <1>7, <1>8, <1>9, <1>10, <1>11, <1>12, <1>13, <1>14, <1>15
     DEF Next, Edit, Discover, Poll

-----------------------------------------------------------------------------
(* The lock *)

LEMMA LockStep == TypeOK /\ LockInv /\ [Next]_vars => LockInv'
<1>. SUFFICES ASSUME TypeOK, LockInv, [Next]_vars PROVE LockInv'
  OBVIOUS
<1>. USE DEF LockInv, TypeOK
<1>0. Poller \in Task /\ Admin \subseteq Task /\ Listeners \subseteq Task /\ NoTask \notin Task
      /\ Poller \notin Admin
  BY TaskAssumption DEF Task
<1>1. ASSUME NEW t \in Admin, NEW op \in Ops, CommitOp(t, op) PROVE LockInv'
  <2>1. /\ pc[t] = "idle" /\ lock' = lock /\ done' = done
        /\ \/ pc' = pc /\ job' = job
           \/ pc' = [pc EXCEPT ![t] = "committed"] /\ job' = [job EXCEPT ![t] = op] /\ op \in ReReads
           \/ pc' = [pc EXCEPT ![t] = "waiting"] /\ job' = [job EXCEPT ![t] = op]
    BY <1>1 DEF CommitOp
  <2>2. gone' \subseteq gone \cup {u \in Admin : pc[u] = "committed"}
    BY <1>1 DEF CommitOp, Victims
  <2>3. /\ \A u \in Task : pc'[u] = "reading" <=> lock' = u
        /\ \A u \in Task : pc'[u] # "reading" => done'[u] = 0
        /\ \A u \in gone' : pc'[u] = "committed"
    <3>1. \E p \in {"idle", "committed", "waiting"} : pc' = [pc EXCEPT ![t] = p]
      BY <1>0, <2>1
    <3>2. \A u \in gone' : u \in Admin /\ u # t /\ pc[u] = "committed"
      BY <2>1, <2>2
    <3>. QED BY <1>0, <2>1, <3>1, <3>2
  <2>4. ASSUME NEW u \in Admin
        PROVE  /\ pc'[u] = "importing" => job'[u] = "discover"
               /\ pc'[u] = "committed" => job'[u] \in ReReads
    <3>1. CASE u # t
      BY <1>0, <2>1, <3>1
    <3>2. CASE u = t
      BY <1>0, <2>1, <3>2
    <3>. QED BY <3>1, <3>2
  <2>. QED BY <2>3, <2>4
<1>2. ASSUME NEW t \in Admin, ReRead(t) PROVE LockInv'
  BY <1>0, <1>2 DEF ReRead
<1>3. ASSUME NEW t \in Admin, ReReadFails(t) PROVE LockInv'
  BY <1>0, <1>3 DEF ReReadFails, Return
<1>4. ASSUME NEW t \in Task, Acquire(t) PROVE LockInv'
  BY <1>0, <1>4 DEF Acquire, LockFree
<1>5. ASSUME NEW t \in Task, ReadTable(t) PROVE LockInv'
  BY <1>5 DEF ReadTable
<1>6. ASSUME NEW t \in Task, Install(t) PROVE LockInv'
  BY <1>0, <1>6 DEF Install, Return, Release
<1>7. ASSUME NEW t \in Task, FailRead(t) PROVE LockInv'
  <2>1. pc' = [pc EXCEPT ![t] = "idle"] \/ pc' = [pc EXCEPT ![t] = "dead"]
    BY <1>7 DEF FailRead, Return
  <2>2. \A u \in Admin : u # t => job'[u] = job[u]
    BY <1>7 DEF FailRead, Return
  <2>3. \A u \in Task : pc'[u] \in {pc[u], "idle", "dead"} /\ (u # t => pc'[u] = pc[u])
    BY <2>1
  <2>4. \A u \in Admin : /\ pc'[u] = "importing" => job'[u] = "discover"
                         /\ pc'[u] = "committed" => job'[u] \in ReReads
    <3>1. pc'[t] # "importing" /\ pc'[t] # "committed"
      BY <2>1
    <3>. QED BY <1>0, <2>2, <2>3, <3>1
  <2>5. /\ \A u \in Task : pc'[u] = "reading" <=> lock' = u
        /\ \A u \in Task : pc'[u] # "reading" => done'[u] = 0
        /\ \A u \in gone' : pc'[u] = "committed"
    <3>1. pc[t] = "reading" /\ gone' = gone /\ lock' = NoTask /\ done' = [done EXCEPT ![t] = 0]
      BY <1>7 DEF FailRead, Release
    <3>2. \A u \in Task : (u = t => pc'[u] # "reading") /\ (u # t => pc'[u] = pc[u])
      BY <2>1
    <3>3. \A u \in Task : pc'[u] = "reading" <=> lock' = u
      BY <1>0, <3>1, <3>2
    <3>4. \A u \in Task : pc'[u] # "reading" => done'[u] = 0
      BY <3>1, <3>2
    <3>5. \A u \in gone' : pc'[u] = "committed"
      BY <1>0, <3>1, <3>2
    <3>. QED BY <3>3, <3>4, <3>5
  <2>. QED BY <2>4, <2>5
<1>8. CASE Poll
  <2>1. /\ pc[Poller] \in {"idle", "counting"}
        /\ \E p \in {"idle", "counting", "waiting"} : pc' = [pc EXCEPT ![Poller] = p]
        /\ UNCHANGED << lock, done, gone, job >>
    BY <1>8 DEF Poll, CountProviders, CountModels, CountFails
  <2>. QED BY <1>0, <2>1
<1>9. ASSUME NEW t \in Listeners, KeyEvent(t) PROVE LockInv'
  BY <1>0, <1>9 DEF KeyEvent
<1>10. CASE Restart
  BY <1>0, <1>10 DEF Restart
<1>11. CASE UNCHANGED vars
  BY <1>11 DEF vars, memory
<1>12. ASSUME NEW t \in Admin, BeginDiscovery(t) \/ ImportModel(t) \/ FinishDiscovery(t)
       PROVE  LockInv'
  <2>1. /\ UNCHANGED << gone, lock, done >>
        /\ \/ pc[t] = "idle" /\ pc' = [pc EXCEPT ![t] = "importing"]
              /\ job' = [job EXCEPT ![t] = "discover"]
           \/ pc[t] = "importing" /\ pc' = pc /\ job' = job
           \/ pc[t] = "importing" /\ pc' = [pc EXCEPT ![t] = "waiting"] /\ job' = job
    BY <1>12, DiscoverStep
  <2>2. \E p \in {"importing", "waiting"} : pc' = [pc EXCEPT ![t] = p]
    BY <1>0, <2>1
  <2>3. pc[t] # "reading" /\ t \notin gone /\ job'[t] = "discover"
    BY <2>1
  <2>4. \A u \in Admin : u # t => job'[u] = job[u]
    BY <2>1
  <2>5. /\ \A u \in Task : pc'[u] = "reading" <=> lock' = u
        /\ \A u \in Task : pc'[u] # "reading" => done'[u] = 0
        /\ \A u \in gone' : pc'[u] = "committed"
    BY <1>0, <2>1, <2>2, <2>3
  <2>6. \A u \in Admin : /\ pc'[u] = "importing" => job'[u] = "discover"
                         /\ pc'[u] = "committed" => job'[u] \in ReReads
    BY <1>0, <2>2, <2>3, <2>4
  <2>. QED BY <2>5, <2>6
<1>13. ASSUME NEW t \in Admin, AbandonDiscovery(t) PROVE LockInv'
  <2>1. t \notin gone
    BY <1>13 DEF AbandonDiscovery, ReReads
  <2>. QED BY <1>0, <1>13, <2>1 DEF AbandonDiscovery, Return
<1>. QED
  BY <1>1, <1>2, <1>3, <1>4, <1>5, <1>6, <1>7, <1>8, <1>9, <1>10, <1>11, <1>12, <1>13
     DEF Next, Edit, Discover

-----------------------------------------------------------------------------
(* The order of registry, snapshot and database *)

(* The steps that commit. *)
LEMMA WhoCommits ==
  ASSUME TypeOK, [Next]_vars
  PROVE  \/ db' = db
         \/ \E t \in Admin, op \in Ops \ {"discover"} : CommitOp(t, op)
         \/ \E t \in Admin, m \in 0 .. 1 : CommitModels(t, m)
         \/ Restart
<1>1. ASSUME NEW t \in Admin, BeginDiscovery(t) \/ ImportModel(t) \/ FinishDiscovery(t)
      PROVE  db' = db \/ \E m \in 0 .. 1 : CommitModels(t, m)
  BY <1>1, DiscoverStep
<1>2. ASSUME NEW t \in Admin, AbandonDiscovery(t) PROVE db' = db
  BY <1>2 DEF AbandonDiscovery
<1>. QED
  BY <1>1, <1>2
     DEF Next, Edit, Discover, Poll, ReRead, ReReadFails, Acquire, ReadTable, Install,
         FailRead, CountProviders, CountModels, CountFails, KeyEvent, vars

(* The database only moves forward. *)
LEMMA DbStep ==
  ASSUME TypeOK, [Next]_vars
  PROVE  \A T \in Table : db[T] <= db'[T]
<1>. \A T \in Table : db[T] \in Nat
  BY DEF TypeOK
<1>1. ASSUME NEW t \in Admin, NEW op \in Ops, CommitOp(t, op) PROVE \A T \in Table : db[T] <= db'[T]
  BY <1>1, OpAssumption, CommittedType DEF CommitOp
<1>2. CASE Restart
  BY <1>2, CommittedType DEF Restart, AllOps
<1>3. ASSUME NEW t \in Admin, NEW m \in 0 .. 1, CommitModels(t, m) PROVE \A T \in Table : db[T] <= db'[T]
  BY <1>3, CommittedType DEF CommitModels, AllOps
<1>. QED BY <1>1, <1>2, <1>3, WhoCommits

(* What the registry may become. *)
LEMMA RegistryStep ==
  ASSUME Inv, [Next]_vars
  PROVE  \/ registry' = registry
         \/ \E t \in Task : Install(t) /\ \A T \in Table : registry[T] <= snap[t][T] /\ snap[t][T] <= db[T]
         \/ Restart /\ registry' = db'
<1>1. registry' = registry \/ (\E t \in Task : Install(t)) \/ Restart
  BY DEF Next, Edit, Discover, Poll, CommitOp, BeginDiscovery, ImportModel, FinishDiscovery, AbandonDiscovery, ReRead, ReReadFails, Acquire, ReadTable, FailRead,
         CountProviders, CountModels, CountFails, KeyEvent, vars, memory
<1>2. ASSUME NEW t \in Task, Install(t)
      PROVE  \A T \in Table : registry[T] <= snap[t][T] /\ snap[t][T] <= db[T]
  <2>1. pc[t] = "reading" /\ done[t] = 4
    BY <1>2 DEF Install
  <2>. QED BY <2>1, Reading DEF Inv, OrderInv
<1>. QED BY <1>1, <1>2 DEF Restart

(* A coroutine that reads has just read a table, or has read none, or      *)
(* nothing it depends on has moved: the lock keeps all other reloads out.  *)
LEMMA ReaderStep ==
  ASSUME Inv, [Next]_vars, NEW t \in Task, pc'[t] = "reading"
  PROVE  \/ ReadTable(t)
         \/ done'[t] = 0
         \/ /\ pc[t] = "reading" /\ registry' = registry
            /\ done'[t] = done[t] /\ snap'[t] = snap[t]
<1>. DEFINE Goal == \/ ReadTable(t)
                    \/ done'[t] = 0
                    \/ /\ pc[t] = "reading" /\ registry' = registry
                       /\ done'[t] = done[t] /\ snap'[t] = snap[t]
<1>. USE DEF Inv, TypeOK, LockInv
<1>0. Admin \subseteq Task /\ Listeners \subseteq Task /\ Poller \in Task
  BY DEF Task
<1>1. ASSUME NEW u \in Admin, NEW op \in Ops, CommitOp(u, op) PROVE Goal
  BY <1>0, <1>1 DEF CommitOp
<1>2. ASSUME NEW u \in Admin, ReRead(u) \/ ReReadFails(u) PROVE Goal
  BY <1>0, <1>2 DEF ReRead, ReReadFails, Return
<1>3. ASSUME NEW u \in Task, Acquire(u) PROVE Goal
  BY <1>3 DEF Acquire
<1>4. ASSUME NEW u \in Task, ReadTable(u) PROVE Goal
  BY <1>4 DEF ReadTable
<1>5. ASSUME NEW u \in Task, Install(u) PROVE Goal
  BY <1>5 DEF Install, Return, Release
<1>6. ASSUME NEW u \in Task, FailRead(u) PROVE Goal
  <2>1. pc' = [pc EXCEPT ![u] = "idle"] \/ pc' = [pc EXCEPT ![u] = "dead"]
    BY <1>6 DEF FailRead, Return
  <2>. QED BY <1>6, <2>1 DEF FailRead, Release
<1>7. CASE Poll
  <2>1. /\ \E p \in {"idle", "counting", "waiting"} : pc' = [pc EXCEPT ![Poller] = p]
        /\ UNCHANGED << registry, done, snap >>
    BY <1>7 DEF Poll, CountProviders, CountModels, CountFails
  <2>. QED BY <1>0, <2>1
<1>8. ASSUME NEW u \in Listeners, KeyEvent(u) PROVE Goal
  BY <1>0, <1>8 DEF KeyEvent
<1>9. CASE Restart
  BY <1>9 DEF Restart
<1>10. CASE UNCHANGED vars
  BY <1>10 DEF vars, memory
<1>11. ASSUME NEW u \in Admin, BeginDiscovery(u) \/ ImportModel(u) \/ FinishDiscovery(u) PROVE Goal
  BY <1>0, <1>11, DiscoverStep
<1>12. ASSUME NEW u \in Admin, AbandonDiscovery(u) PROVE Goal
  BY <1>0, <1>12 DEF AbandonDiscovery, Return
<1>. QED
  BY <1>1, <1>2, <1>3, <1>4, <1>5, <1>6, <1>7, <1>8, <1>9, <1>10, <1>11, <1>12 DEF Next, Edit, Discover

LEMMA OrderStep == Inv /\ [Next]_vars => OrderInv'
<1>. SUFFICES ASSUME Inv, [Next]_vars PROVE OrderInv'
  OBVIOUS
<1>. TypeOK /\ LockInv /\ OrderInv /\ TypeOK'
  BY TypeStep DEF Inv
<1>1. \A T \in Table : db[T] <= db'[T] /\ db[T] \in Nat /\ db'[T] \in Nat /\ registry[T] \in Nat
  BY DbStep DEF TypeOK
<1>2. \A t \in Task, T \in Table : snap[t][T] \in Nat
  BY DEF TypeOK
<1>3. ASSUME NEW T \in Table PROVE registry'[T] <= db'[T]
  <2>1. CASE registry' = registry
    BY <1>1, <2>1 DEF OrderInv
  <2>2. ASSUME NEW t \in Task, Install(t), snap[t][T] <= db[T] PROVE registry'[T] <= db'[T]
    BY <1>1, <1>2, <2>2 DEF Install
  <2>3. CASE registry' = db'
    BY <1>1, <2>3
  <2>. QED BY <2>1, <2>2, <2>3, RegistryStep
<1>4. ASSUME NEW t \in Task, NEW T \in Table, pc'[t] = "reading", HasRead(t, T)'
      PROVE  registry'[T] <= snap'[t][T] /\ snap'[t][T] <= db'[T]
  <2>1. ASSUME ReadTable(t) PROVE registry'[T] <= snap'[t][T] /\ snap'[t][T] <= db'[T]
    <3>1. /\ snap' = [snap EXCEPT ![t][ReadOrder[done[t] + 1]] = db[ReadOrder[done[t] + 1]]]
          /\ done' = [done EXCEPT ![t] = @ + 1] /\ done[t] < 4
          /\ pc[t] = "reading" /\ registry' = registry /\ db' = db
      BY <2>1 DEF ReadTable
    <3>2. HasRead(t, T) \/ T = ReadOrder[done[t] + 1]
      BY <1>4, <3>1, Reading
    <3>3. snap'[t][T] = IF T = ReadOrder[done[t] + 1] THEN db[T] ELSE snap[t][T]
      BY <3>1, Reading DEF TypeOK
    <3>. QED BY <1>1, <3>1, <3>2, <3>3 DEF OrderInv
  <2>2. ASSUME pc[t] = "reading", HasRead(t, T), registry' = registry, snap'[t] = snap[t]
        PROVE  registry'[T] <= snap'[t][T] /\ snap'[t][T] <= db'[T]
    BY <1>1, <1>2, <2>2 DEF OrderInv
  <2>3. done'[t] # 0
    BY <1>4 DEF HasRead
  <2>4. done'[t] = done[t] => HasRead(t, T)
    BY <1>4, Reading
  <2>. QED BY <1>4, <2>1, <2>2, <2>3, <2>4, ReaderStep
<1>. QED BY <1>3, <1>4 DEF OrderInv

-----------------------------------------------------------------------------
(* What a coroutine has committed *)

(* What a coroutine has committed is in the database, and in every table   *)
(* its own reload has read since.                                          *)
WroteInv ==
  \A t \in Admin, T \in Table :
    /\ wrote[t][T] <= db[T]
    /\ pc[t] = "reading" /\ HasRead(t, T) => wrote[t][T] <= snap[t][T]

(* What an administrative coroutine remembers of its commit. *)
LEMMA WroteChanges ==
  ASSUME Inv, [Next]_vars, NEW t \in Admin, NEW T \in Table
  PROVE  \/ wrote'[t][T] = wrote[t][T]
         \/ wrote'[t][T] = 0
         \/ wrote'[t][T] = db'[T] /\ pc'[t] # "reading"
<1>. USE DEF Inv, TypeOK, Table
<1>. DEFINE Goal == \/ wrote'[t][T] = wrote[t][T]
                    \/ wrote'[t][T] = 0
                    \/ wrote'[t][T] = db'[T] /\ pc'[t] # "reading"
<1>1. ASSUME NEW u \in Admin, NEW op \in Ops, CommitOp(u, op) PROVE Goal
  <2>1. \/ wrote' = wrote
        \/ wrote' = [wrote EXCEPT ![u] = db'] /\ pc'[u] # "reading"
    BY <1>1 DEF CommitOp, Task
  <2>. QED BY <2>1
<1>2. ASSUME NEW u \in Task, NEW next \in {"idle", "dead"}, Return(u, next) PROVE Goal
  BY <1>2 DEF Return, Unread
<1>3. CASE Restart
  BY <1>3 DEF Restart, Unread
<1>4. \/ wrote' = wrote
      \/ \E u \in Admin, op \in Ops : CommitOp(u, op)
      \/ \E u \in Task, next \in {"idle", "dead"} : Return(u, next)
      \/ \E u \in Admin : Discover(u)
      \/ Restart
  BY DEF Next, Edit, Poll, ReRead, ReReadFails, Acquire, ReadTable, Install, FailRead,
         CountProviders, CountModels, CountFails, KeyEvent, vars, Task
<1>5. ASSUME NEW u \in Admin, BeginDiscovery(u) \/ ImportModel(u) \/ FinishDiscovery(u) PROVE Goal
  BY <1>5, DiscoverFrame
<1>6. ASSUME NEW u \in Admin, AbandonDiscovery(u) PROVE Goal
  <2>1. u \in Task /\ Return(u, "idle")
    BY <1>6 DEF AbandonDiscovery, Task
  <2>. QED BY <1>2, <2>1
<1>7. ASSUME NEW u \in Admin, Discover(u) PROVE Goal
  <2>1. CASE BeginDiscovery(u) \/ ImportModel(u) \/ FinishDiscovery(u)
    BY <1>5, <2>1
  <2>2. CASE AbandonDiscovery(u)
    BY <1>6, <2>2
  <2>. QED BY <1>7, <2>1, <2>2 DEF Discover
<1>. QED BY <1>1, <1>2, <1>3, <1>4, <1>7

LEMMA WroteStep == Inv /\ Inv' /\ WroteInv /\ [Next]_vars => WroteInv'
<1>. SUFFICES ASSUME Inv, Inv', WroteInv, [Next]_vars, NEW t \in Admin, NEW T \in Table
              PROVE  /\ wrote'[t][T] <= db'[T]
                     /\ pc'[t] = "reading" /\ HasRead(t, T)' => wrote'[t][T] <= snap'[t][T]
  BY DEF WroteInv
<1>. TypeOK /\ TypeOK' /\ t \in Task
  BY DEF Inv, Task
<1>0. /\ wrote[t][T] \in Nat /\ db[T] \in Nat /\ db'[T] \in Nat /\ snap'[t][T] \in Nat
      /\ db[T] <= db'[T] /\ wrote[t][T] <= db[T]
  <2>1. wrote[t][T] \in Nat /\ db[T] \in Nat
    BY DEF TypeOK
  <2>2. db'[T] \in Nat /\ snap'[t][T] \in Nat
    BY DEF TypeOK
  <2>. QED BY <2>1, <2>2, DbStep DEF WroteInv
<1>1. wrote'[t][T] <= db'[T]
  BY <1>0, WroteChanges
<1>2. ASSUME pc'[t] = "reading", HasRead(t, T)' PROVE wrote'[t][T] <= snap'[t][T]
  <2>1. wrote'[t][T] = wrote[t][T] \/ wrote'[t][T] = 0
    BY <1>2, WroteChanges
  <2>2. ASSUME ReadTable(t) PROVE wrote[t][T] <= snap'[t][T]
    <3>1. /\ snap' = [snap EXCEPT ![t][ReadOrder[done[t] + 1]] = db[ReadOrder[done[t] + 1]]]
          /\ done' = [done EXCEPT ![t] = @ + 1] /\ done[t] < 4 /\ pc[t] = "reading"
      BY <2>2 DEF ReadTable
    <3>2. HasRead(t, T) \/ T = ReadOrder[done[t] + 1]
      BY <1>2, <3>1, Reading
    <3>3. snap'[t][T] = IF T = ReadOrder[done[t] + 1] THEN db[T] ELSE snap[t][T]
      <4>1. ReadOrder[done[t] + 1] \in Table
        BY <3>1, Reading
      <4>. QED BY <3>1, <4>1 DEF TypeOK
    <3>4. CASE T = ReadOrder[done[t] + 1]
      BY <1>0, <3>3, <3>4
    <3>5. CASE T # ReadOrder[done[t] + 1]
      BY <3>1, <3>2, <3>3, <3>5 DEF WroteInv
    <3>. QED BY <3>4, <3>5
  <2>3. ASSUME pc[t] = "reading", done'[t] = done[t], snap'[t] = snap[t]
        PROVE  wrote[t][T] <= snap'[t][T]
    <3>1. HasRead(t, T)
      BY <1>2, <2>3, Reading
    <3>. QED BY <2>3, <3>1 DEF WroteInv
  <2>4. done'[t] # 0
    BY <1>2 DEF HasRead
  <2>. QED BY <1>0, <1>2, <2>1, <2>2, <2>3, <2>4, ReaderStep
<1>. QED BY <1>1, <1>2

-----------------------------------------------------------------------------
(* No update is lost *)

(* The coroutine whose commit to a table was the last one and that will    *)
(* still refresh.                                                          *)
Owes(t, T) ==
  /\ job[t] # "none" /\ T \in Touched(job[t])
  /\ wrote[t][T] = db[T]
  /\ pc[t] \in {"importing", "committed", "waiting", "reading"}
  /\ t \notin gone

(* A table lags behind only as long as the author of its last commit has   *)
(* not refreshed: others may help, none is needed.  A coroutine whose row  *)
(* was deleted is no longer the author of the last commit.                 *)
OwnerInv ==
  /\ \A T \in Table : registry[T] # db[T] => T \in excused \/ \E t \in Admin : Owes(t, T)
  /\ \A t \in gone : \A T \in Touched(job[t]) : wrote[t][T] < db[T]

(* Operations that re-read their row touch one table. *)
LEMMA ReReadsTouchOne ==
  ASSUME NEW op \in ReReads
  PROVE  \A T \in Touched(op), S \in Touched(op) : T = S
BY DEF ReReads, Touched

(* The author of a commit goes on owing, or the debt is settled or excused.*)
LEMMA OwesStep ==
  ASSUME Inv, WroteInv, [Next]_vars, NEW T \in Table, NEW t \in Admin, Owes(t, T),
         registry[T] # db[T], db'[T] = db[T]
  PROVE  Owes(t, T)' \/ registry'[T] = db'[T] \/ T \in excused'
<1>. DEFINE Goal == Owes(t, T)' \/ registry'[T] = db'[T] \/ T \in excused'
<1>. USE DEF Inv, TypeOK, LockInv
<1>0. /\ Admin \subseteq Task /\ Listeners \subseteq Task /\ Poller \in Task
      /\ Poller \notin Admin /\ Admin \cap Listeners = {}
  BY TaskAssumption DEF Task
<1>k. ASSUME pc'[t] = pc[t], job'[t] = job[t], wrote'[t] = wrote[t], t \notin gone' PROVE Goal
  BY <1>k DEF Owes
<1>1. ASSUME NEW u \in Admin, NEW op \in Ops, CommitOp(u, op) PROVE Goal
  <2>1. u # t
    BY <1>1 DEF CommitOp, Owes
  <2>2. pc'[t] = pc[t] /\ job'[t] = job[t] /\ wrote'[t] = wrote[t]
    BY <1>0, <1>1, <2>1 DEF CommitOp
  <2>3. t \notin gone'
    <3>. SUFFICES ASSUME t \in gone' PROVE FALSE
      OBVIOUS
    <3>1. t \in Victims(op)
      BY <1>1 DEF CommitOp, Owes
    <3>2. job[t] \in ReReads /\ T \in Touched(job[t]) /\ \E S \in Touched(job[t]) : S \in Touched(op)
      BY <3>1 DEF Victims, Owes
    <3>3. T \in Touched(op)
      BY <3>2, ReReadsTouchOne
    <3>4. db'[T] = db[T] + 1 /\ db[T] \in Nat
      BY <1>1, <3>3 DEF CommitOp, Committed
    <3>. QED BY <3>4
  <2>. QED BY <1>k, <2>2, <2>3
<1>2. ASSUME NEW u \in Admin, ReRead(u) PROVE Goal
  BY <1>0, <1>2 DEF ReRead, Owes
<1>3. ASSUME NEW u \in Admin, ReReadFails(u) PROVE Goal
  <2>1. u # t
    BY <1>3 DEF ReReadFails, Owes
  <2>. QED BY <1>0, <1>3, <1>k, <2>1 DEF ReReadFails, Return, Owes
<1>4. ASSUME NEW u \in Task, Acquire(u) PROVE Goal
  BY <1>0, <1>4 DEF Acquire, Owes
<1>5. ASSUME NEW u \in Task, ReadTable(u) PROVE Goal
  BY <1>5, <1>k DEF ReadTable, Owes
<1>6. ASSUME NEW u \in Task, Install(u) PROVE Goal
  <2>1. CASE u = t
    <3>1. pc[t] = "reading" /\ HasRead(t, T) /\ registry'[T] = snap[t][T]
      BY <1>6, <2>1, Reading DEF Install
    <3>2. db[T] <= snap[t][T] /\ snap[t][T] <= db[T] /\ db[T] \in Nat /\ snap[t][T] \in Nat
      BY <1>0, <3>1 DEF WroteInv, OrderInv, Owes
    <3>. QED BY <3>1, <3>2
  <2>2. CASE u # t
    BY <1>0, <1>6, <1>k, <2>2 DEF Install, Return, Owes
  <2>. QED BY <2>1, <2>2
<1>7. ASSUME NEW u \in Task, FailRead(u) PROVE Goal
  <2>1. CASE u = t
    <3>1. T \in Orphaned(t)
      BY DEF Orphaned, Owes
    <3>. QED BY <1>7, <2>1, <3>1 DEF FailRead
  <2>2. CASE u # t
    <3>1. pc' = [pc EXCEPT ![u] = "idle"] \/ pc' = [pc EXCEPT ![u] = "dead"]
      BY <1>7 DEF FailRead, Return
    <3>. QED BY <1>0, <1>7, <1>k, <2>2, <3>1 DEF FailRead, Return, Owes
  <2>. QED BY <2>1, <2>2
<1>8. CASE Poll
  <2>1. /\ \E p \in {"idle", "counting", "waiting"} : pc' = [pc EXCEPT ![Poller] = p]
        /\ UNCHANGED << job, wrote, gone >>
    BY <1>8 DEF Poll, CountProviders, CountModels, CountFails
  <2>. QED BY <1>0, <1>k, <2>1 DEF Owes
<1>9. ASSUME NEW u \in Listeners, KeyEvent(u) PROVE Goal
  BY <1>0, <1>9, <1>k DEF KeyEvent, Owes
<1>10. CASE Restart
  BY <1>10 DEF Restart
<1>11. CASE UNCHANGED vars
  BY <1>11, <1>k DEF vars, memory, Owes
<1>12. ASSUME NEW u \in Admin, BeginDiscovery(u) \/ ImportModel(u) \/ FinishDiscovery(u) PROVE Goal
  <2>1. CASE u # t
    <3>1. pc'[t] = pc[t] /\ job'[t] = job[t] /\ wrote'[t] = wrote[t]
      BY <1>0, <1>12, <2>1, DiscoverFrame
    <3>2. gone' = gone
      BY <1>12, DiscoverStep
    <3>. QED BY <1>k, <3>1, <3>2 DEF Owes
  <2>2. CASE u = t
    <3>1. /\ pc[t] = "importing" /\ job' = job /\ gone' = gone
          /\ pc'[t] \in {"importing", "waiting"}
      BY <1>0, <1>12, <2>2, DiscoverStep DEF Owes
    <3>2. ASSUME NEW m \in 0 .. 1, CommitModels(t, m) PROVE FALSE
      <4>1. T = "models"
        BY <3>1, <3>2, CommitModelsType DEF Owes
      <4>. QED BY <3>2, <4>1, CommitModelsType
    <3>3. wrote' = wrote
      BY <1>12, <2>2, <3>2, DiscoverStep
    <3>. QED BY <3>1, <3>3 DEF Owes
  <2>. QED BY <2>1, <2>2
<1>13. ASSUME NEW u \in Admin, AbandonDiscovery(u) PROVE Goal
  <2>1. CASE u = t
    <3>1. T \in Orphaned(t)
      BY DEF Orphaned, Owes
    <3>. QED BY <1>13, <2>1, <3>1 DEF AbandonDiscovery
  <2>2. CASE u # t
    BY <1>0, <1>13, <1>k, <2>2 DEF AbandonDiscovery, Return, Owes
  <2>. QED BY <2>1, <2>2
<1>. QED
  BY <1>1, <1>2, <1>3, <1>4, <1>5, <1>6, <1>7, <1>8, <1>9, <1>10, <1>11, <1>12, <1>13
     DEF Next, Edit, Discover

(* A coroutine whose row is gone waits for its re-read to fail, or has just*)
(* become such a coroutine.                                                *)
LEMMA GoneStep ==
  ASSUME Inv, [Next]_vars, NEW t \in gone'
  PROVE  \/ t \in gone /\ job'[t] = job[t] /\ wrote'[t] = wrote[t]
         \/ /\ job'[t] = job[t] /\ wrote'[t] = wrote[t]
            /\ \E u \in Admin, op \in Ops : CommitOp(u, op) /\ t \in Victims(op)
<1>. DEFINE Goal == \/ t \in gone /\ job'[t] = job[t] /\ wrote'[t] = wrote[t]
                    \/ /\ job'[t] = job[t] /\ wrote'[t] = wrote[t]
                       /\ \E u \in Admin, op \in Ops : CommitOp(u, op) /\ t \in Victims(op)
<1>. USE DEF Inv, TypeOK, LockInv
<1>0. Admin \subseteq Task /\ Poller \in Task /\ t \in Admin
  BY TypeStep DEF Task
<1>1. ASSUME NEW u \in Admin, NEW op \in Ops, CommitOp(u, op) PROVE Goal
  <2>1. t \in gone \/ t \in Victims(op)
    BY <1>1 DEF CommitOp
  <2>2. pc[t] = "committed"
    BY <2>1 DEF Victims
  <2>3. u # t
    BY <1>1, <2>2 DEF CommitOp
  <2>. QED BY <1>0, <1>1, <2>1, <2>3 DEF CommitOp
<1>2. ASSUME NEW u \in Admin, ReRead(u) PROVE Goal
  BY <1>2 DEF ReRead
<1>3. ASSUME NEW u \in Admin, ReReadFails(u) PROVE Goal
  BY <1>0, <1>3 DEF ReReadFails, Return
<1>4. ASSUME NEW u \in Task, Acquire(u) \/ ReadTable(u) PROVE Goal
  BY <1>4 DEF Acquire, ReadTable
<1>5. ASSUME NEW u \in Task, Install(u) \/ FailRead(u) PROVE Goal
  <2>1. pc[u] = "reading" /\ gone' = gone /\ (Return(u, "idle") \/ Return(u, "dead"))
    BY <1>5 DEF Install, FailRead
  <2>2. u # t
    BY <2>1
  <2>. QED BY <1>0, <2>1, <2>2 DEF Return
<1>6. CASE Poll
  BY <1>6 DEF Poll, CountProviders, CountModels, CountFails
<1>7. ASSUME NEW u \in Listeners, KeyEvent(u) PROVE Goal
  BY <1>7 DEF KeyEvent
<1>8. CASE Restart
  BY <1>8 DEF Restart
<1>9. CASE UNCHANGED vars
  BY <1>9 DEF vars, memory
<1>10. ASSUME NEW u \in Admin, BeginDiscovery(u) \/ ImportModel(u) \/ FinishDiscovery(u) PROVE Goal
  <2>1. gone' = gone /\ (pc[u] = "idle" \/ pc[u] = "importing")
    BY <1>10, DiscoverStep
  <2>2. u # t
    BY <2>1
  <2>3. job'[t] = job[t] /\ wrote'[t] = wrote[t]
    BY <1>0, <1>10, <2>2, DiscoverFrame
  <2>. QED BY <2>1, <2>3
<1>11. ASSUME NEW u \in Admin, AbandonDiscovery(u) PROVE Goal
  <2>1. gone' = gone /\ job[u] = "discover" /\ Return(u, "idle")
    BY <1>11 DEF AbandonDiscovery
  <2>2. u # t
    BY <1>0, <2>1 DEF ReReads
  <2>. QED BY <1>0, <2>1, <2>2 DEF Return
<1>. QED
  BY <1>1, <1>2, <1>3, <1>4, <1>5, <1>6, <1>7, <1>8, <1>9, <1>10, <1>11
     DEF Next, Edit, Discover

(* Who commits to a table owes its refresh, but for the seed. *)
LEMMA CommitOwes ==
  ASSUME Inv, [Next]_vars, NEW T \in Table, db'[T] # db[T], ~ Restart
  PROVE  T \in excused' \/ \E t \in Admin : Owes(t, T)'
<1>. USE DEF Inv, TypeOK, LockInv
<1>1. ASSUME NEW u \in Admin, NEW op \in Ops \ {"discover"}, CommitOp(u, op)
      PROVE  T \in excused' \/ Owes(u, T)'
  <2>1. T \in Touched(op)
    BY <1>1, OpAssumption, CommittedType DEF CommitOp
  <2>2. CASE op = "seed"
    BY <1>1, <2>1, <2>2 DEF CommitOp
  <2>3. CASE op # "seed"
    <3>1. u \in Task /\ (pc'[u] = "waiting" \/ pc'[u] = "committed") /\ job'[u] = op /\ wrote'[u] = db'
      BY <1>1, <2>3 DEF CommitOp, NoRefresh, Task
    <3>2. u \notin gone'
      BY <1>1 DEF CommitOp, Victims
    <3>3. op # "none"
      BY OpAssumption DEF AllOps
    <3>. QED BY <2>1, <3>1, <3>2, <3>3 DEF Owes
  <2>. QED BY <2>2, <2>3
<1>2. ASSUME NEW u \in Admin, BeginDiscovery(u) \/ ImportModel(u) \/ FinishDiscovery(u)
      PROVE  Owes(u, T)'
  <2>1. PICK m \in 0 .. 1 : CommitModels(u, m)
    BY <1>2, DiscoverStep
  <2>2. T = "models" /\ wrote'[u] = db' /\ Touched("discover") = {"models"}
    BY <2>1, CommitModelsType
  <2>3. /\ pc[u] = "importing" /\ job'[u] = "discover" /\ gone' = gone
        /\ pc'[u] \in {"importing", "waiting"}
    BY <1>2, DiscoverStep DEF Task
  <2>4. u \notin gone'
    BY <2>3
  <2>. QED BY <2>2, <2>3, <2>4 DEF Owes
<1>3. \/ \E u \in Admin, op \in Ops \ {"discover"} : CommitOp(u, op)
      \/ \E u \in Admin : BeginDiscovery(u) \/ ImportModel(u) \/ FinishDiscovery(u)
  BY DEF Next, Edit, Discover, Poll, ReRead, ReReadFails, Acquire, ReadTable, Install, FailRead,
         CountProviders, CountModels, CountFails, KeyEvent, AbandonDiscovery, vars
<1>. QED BY <1>1, <1>2, <1>3

(* An excuse lasts until the table is committed to or installed. *)
LEMMA ExcuseStays ==
  ASSUME Inv, [Next]_vars, NEW T \in excused, db'[T] = db[T], ~ Restart
  PROVE  T \in excused' \/ registry'[T] = db'[T]
<1>. USE DEF Inv, TypeOK
<1>0. T \in Table
  OBVIOUS
<1>1. ASSUME NEW u \in Admin, NEW op \in Ops, CommitOp(u, op) PROVE T \in excused'
  <2>1. T \notin Touched(op)
    BY <1>0, <1>1 DEF CommitOp, Committed
  <2>. QED BY <1>1, <2>1 DEF CommitOp
<1>2. ASSUME NEW u \in Admin, BeginDiscovery(u) \/ ImportModel(u) \/ FinishDiscovery(u)
      PROVE  T \in excused'
  <2>1. ASSUME NEW m \in 0 .. 1, CommitModels(u, m) PROVE T \in excused'
    <3>1. excused' = excused \ {"models"} /\ db'["models"] = db["models"] + 1 /\ db["models"] \in Nat
      BY <2>1, CommitModelsType DEF Table
    <3>2. T # "models"
      BY <3>1
    <3>. QED BY <3>1, <3>2
  <2>. QED BY <1>2, <2>1, DiscoverStep
<1>3. ASSUME NEW u \in Task, Install(u) PROVE T \in excused' \/ registry'[T] = db'[T]
  BY <1>3 DEF Install
<1>4. ASSUME NEW u \in Task, FailRead(u) PROVE T \in excused'
  BY <1>4 DEF FailRead
<1>5. ASSUME NEW u \in Admin, AbandonDiscovery(u) PROVE T \in excused'
  BY <1>5 DEF AbandonDiscovery
<1>. QED
  BY <1>1, <1>2, <1>3, <1>4, <1>5
     DEF Next, Edit, Discover, Poll, ReRead, ReReadFails, Acquire, ReadTable,
         CountProviders, CountModels, CountFails, KeyEvent, vars

LEMMA OwnerStep == Inv /\ Inv' /\ WroteInv /\ OwnerInv /\ [Next]_vars => OwnerInv'
<1>. SUFFICES ASSUME Inv, Inv', WroteInv, OwnerInv, [Next]_vars PROVE OwnerInv'
  OBVIOUS
<1>1. ASSUME NEW T \in Table, registry'[T] # db'[T]
      PROVE  T \in excused' \/ \E t \in Admin : Owes(t, T)'
  <2>0. ~ Restart
    BY <1>1 DEF Restart
  <2>1. CASE db'[T] # db[T]
    BY <2>0, <2>1, CommitOwes
  <2>2. CASE db'[T] = db[T]
    <3>1. registry[T] # db[T]
      <4>. SUFFICES ASSUME registry[T] = db[T] PROVE FALSE
        OBVIOUS
      <4>1. PICK t \in Task : Install(t) /\ registry[T] <= snap[t][T] /\ snap[t][T] <= db[T]
        BY <1>1, <2>0, <2>2, RegistryStep
      <4>2. registry'[T] = snap[t][T] /\ snap[t][T] \in Nat /\ db[T] \in Nat
        BY <4>1 DEF Install, Inv, TypeOK
      <4>. QED BY <1>1, <2>2, <4>1, <4>2
    <3>2. CASE T \in excused
      BY <1>1, <2>0, <2>2, <3>2, ExcuseStays
    <3>3. CASE \E t \in Admin : Owes(t, T)
      BY <1>1, <2>2, <3>1, <3>3, OwesStep
    <3>. QED BY <3>1, <3>2, <3>3 DEF OwnerInv
  <2>. QED BY <2>1, <2>2
<1>2. ASSUME NEW t \in gone', NEW T \in Touched(job'[t]) PROVE wrote'[t][T] < db'[T]
  <2>. t \in Admin /\ t \in Task
    BY DEF Inv, TypeOK, Task
  <2>0. T \in Table
    <3>1. job'[t] \in ReReads
      BY DEF Inv, LockInv
    <3>. QED BY <3>1 DEF ReReads, Touched, Table
  <2>1. db[T] <= db'[T] /\ db[T] \in Nat /\ db'[T] \in Nat /\ wrote[t][T] \in Nat /\ wrote[t][T] <= db[T]
    BY <2>0, DbStep DEF Inv, TypeOK, WroteInv
  <2>2. CASE t \in gone /\ job'[t] = job[t] /\ wrote'[t] = wrote[t]
    <3>1. wrote[t][T] < db[T]
      BY <2>2 DEF OwnerInv
    <3>. QED BY <2>1, <2>2, <3>1
  <2>3. ASSUME job'[t] = job[t], wrote'[t] = wrote[t],
               NEW u \in Admin, NEW op \in Ops, CommitOp(u, op), t \in Victims(op)
        PROVE  wrote'[t][T] < db'[T]
    <3>1. job[t] \in ReReads /\ \E S \in Touched(job[t]) : S \in Touched(op)
      BY <2>3 DEF Victims, Inv, LockInv
    <3>2. T \in Touched(op)
      BY <2>3, <3>1, ReReadsTouchOne
    <3>3. db'[T] = db[T] + 1
      BY <2>0, <2>3, <3>2 DEF CommitOp, Committed
    <3>. QED BY <2>1, <2>3, <3>3
  <2>. QED BY <2>2, <2>3, GoneStep
<1>. QED BY <1>1, <1>2 DEF OwnerInv

(* The author of the last commit will install it. *)
LEMMA OwnerInstalls == Inv /\ WroteInv /\ OwnerInv => StaleOnlyWhilePending
<1>. SUFFICES ASSUME Inv, WroteInv, OwnerInv, NEW T \in Table, registry[T] # db[T], T \notin excused
              PROVE  \E t \in Task : WillInstall(t, T)
  BY DEF StaleOnlyWhilePending
<1>1. PICK t \in Admin : Owes(t, T)
  BY DEF OwnerInv
<1>2. t \in Task
  BY DEF Task
<1>3. ASSUME pc[t] = "reading", HasRead(t, T) PROVE snap[t][T] = db[T]
  <2>1. db[T] <= snap[t][T] /\ snap[t][T] <= db[T] /\ db[T] \in Nat /\ snap[t][T] \in Nat
    BY <1>1, <1>2, <1>3 DEF Owes, WroteInv, OrderInv, Inv, TypeOK
  <2>. QED BY <2>1
<1>. QED BY <1>1, <1>2, <1>3 DEF Owes, WillInstall

LEMMA Invariance == Spec => [](Inv /\ WroteInv /\ OwnerInv)
<1>1. Init => Inv /\ WroteInv /\ OwnerInv
  <2>1. Init => WroteInv
    BY DEF Init, WroteInv, Unread, Task
  <2>2. Init => OwnerInv
    BY DEF Init, OwnerInv
  <2>. QED BY <2>1, <2>2, InitInv
<1>2. Inv /\ [Next]_vars => Inv'
  BY TypeStep, LockStep, OrderStep DEF Inv
<1>3. Inv /\ WroteInv /\ OwnerInv /\ [Next]_vars => (Inv /\ WroteInv /\ OwnerInv)'
  BY <1>2, WroteStep, OwnerStep
<1>. QED BY <1>1, <1>3, PTL DEF Spec

-----------------------------------------------------------------------------
(* The theorems *)

(* The variables of the registry keep their types. *)
THEOREM TypeCorrect == Spec => []TypeOK
<1>1. Inv => TypeOK
  BY DEF Inv
<1>. QED BY Invariance, <1>1, PTL

(* No update is lost: a table of the registry lags behind the database     *)
(* only while some coroutine is still going to install it as it is now, a  *)
(* discovery under way included; or when the last commit to it is the      *)
(* seed's, a request's whose own refresh raised, or an import of a         *)
(* discovery that was given up.                                            *)
THEOREM NoUpdateLost == Spec => []StaleOnlyWhilePending
<1>. QED BY Invariance, OwnerInstalls, PTL

(* The registry implements the abstract read-through cache: table by table *)
(* it shows states of the database, in order, whatever falls between the   *)
(* four reads of a reload and however many reloads are queued.             *)
THEOREM RegistryImplementsReadThrough == Spec => ImplementsReadThrough
<1>1. Init => Cache!Init
  BY DEF Init, Cache!Init
<1>2. Inv /\ Inv' /\ [Next]_vars => [Cache!Advance]_<< db, registry >>
  <2>. SUFFICES ASSUME Inv, Inv', [Next]_vars PROVE Cache!Advance
    OBVIOUS
  <2>1. db' \in [Table -> Nat] /\ registry' \in [Table -> Nat]
    BY DEF Inv, TypeOK
  <2>2. \A T \in Table : db[T] <= db'[T]
    BY DbStep DEF Inv
  <2>3. \A T \in Table : registry'[T] <= db'[T]
    BY DEF Inv, OrderInv
  <2>4. ASSUME NEW T \in Table PROVE registry[T] <= registry'[T]
    <3>. /\ registry[T] \in Nat /\ db[T] \in Nat /\ db'[T] \in Nat
         /\ registry[T] <= db[T] /\ db[T] <= db'[T]
      BY <2>1, <2>2 DEF Inv, TypeOK, OrderInv
    <3>1. ASSUME NEW t \in Task, Install(t), registry[T] <= snap[t][T] PROVE registry[T] <= registry'[T]
      BY <3>1 DEF Install
    <3>. QED BY <3>1, RegistryStep
  <2>. QED BY <2>1, <2>2, <2>3, <2>4 DEF Cache!Advance
<1>. QED BY <1>1, <1>2, Invariance, PTL DEF Spec, ImplementsReadThrough, Cache!Spec

-----------------------------------------------------------------------------
(* Read your own write *)

(* A request ends normally by installing, or is cut off by a restart.      *)
LEMMA OwnWriteStep ==
  ASSUME Inv, WroteInv, [Next]_vars, NEW t \in Admin,
         job[t] # "none", job'[t] = "none", t \notin gone, failures' = failures,
         ~ AbandonDiscovery(t),
         NEW T \in Table
  PROVE  registry'[T] >= wrote[t][T]
<1>. TypeOK /\ t \in Task
  BY DEF Inv, Task
<1>. wrote[t][T] \in Nat /\ db[T] \in Nat /\ db'[T] \in Nat /\ snap[t][T] \in Nat /\ wrote[t][T] <= db[T]
  BY DbStep, TypeStep DEF TypeOK, WroteInv, Inv
<1>1. Install(t) \/ Restart
  <2>1. ASSUME NEW u \in Admin, NEW op \in Ops, CommitOp(u, op) PROVE FALSE
    <3>1. op # "none"
      BY OpAssumption DEF AllOps
    <3>. QED BY <2>1, <3>1 DEF CommitOp, TypeOK
  <2>2. ASSUME NEW u \in Admin, ReReadFails(u) PROVE FALSE
    BY <2>2 DEF ReReadFails, Return
  <2>3. ASSUME NEW u \in Task, Install(u) PROVE u = t
    BY <2>3 DEF Install, Return
  <2>4. ASSUME NEW u \in Task, FailRead(u) PROVE FALSE
    BY <2>4 DEF FailRead, TypeOK
  <2>5. ASSUME NEW u \in Admin, BeginDiscovery(u) \/ ImportModel(u) \/ FinishDiscovery(u) PROVE FALSE
    <3>1. job' = job \/ job' = [job EXCEPT ![u] = "discover"]
      BY <2>5, DiscoverStep
    <3>. QED BY <3>1 DEF TypeOK
  <2>6. ASSUME NEW u \in Admin, AbandonDiscovery(u) PROVE FALSE
    <3>1. u # t
      BY <2>6
    <3>. QED BY <2>6, <3>1 DEF AbandonDiscovery, Return
  <2>. QED
    BY <2>1, <2>2, <2>3, <2>4, <2>5, <2>6
       DEF Next, Edit, Discover, Poll, ReRead, Acquire, ReadTable, CountProviders, CountModels,
           CountFails, KeyEvent, vars, memory
<1>2. CASE Install(t)
  <2>1. pc[t] = "reading" /\ HasRead(t, T) /\ registry'[T] = snap[t][T]
    BY <1>2, Reading DEF Install
  <2>. QED BY <2>1 DEF WroteInv
<1>3. CASE Restart
  <2>1. registry'[T] = db'[T] /\ db[T] <= db'[T]
    BY <1>3, DbStep DEF Restart
  <2>. QED BY <2>1
<1>. QED BY <1>1, <1>2, <1>3

(* When an administrative request comes to its normal end, the registry    *)
(* holds what the request committed; a discovery, all it imported.         *)
THEOREM OwnWritesSeen == Spec => ReadYourWrite
<1>1. Inv /\ WroteInv /\ [Next]_vars =>
        [\A t \in Admin :
           job[t] # "none" /\ job'[t] = "none" /\ t \notin gone /\ failures' = failures
           /\ ~ AbandonDiscovery(t)
             => \A T \in Table : registry'[T] >= wrote[t][T]]_vars
  BY OwnWriteStep
<1>. QED BY <1>1, Invariance, PTL DEF Spec, ReadYourWrite
=============================================================================
