--------------------------- MODULE RoutingProofs ---------------------------
(***************************************************************************)
(* Proofs about Routing, for every set of providers, aliases and editors,  *)
(* every key mapping and every bound on edits and models.                  *)
(***************************************************************************)
EXTENDS Routing, WellFoundedInduction, FiniteSetTheorems, TLAPS

Default(p) == providers[p] # Nothing /\ providers[p].default

(* What the default depends on: the rows, and the settings a request that  *)
(* has reset the others is about to write.                                 *)
EditsInv ==
  /\ providers \in [Provider -> Settings \cup {Nothing}]
  /\ pc \in [Editor -> {"idle", "resetting", "committed", "reading"}]
  /\ intent \in [Editor -> (Provider \X Settings) \cup {Nothing}]
  /\ \A e \in Editor : pc[e] = "resetting" => intent[e] \in Provider \X Settings

(* AtMostOneDefault, without counting.                                     *)
SoleDefault == \A p, q \in Provider : Default(p) /\ Default(q) => p = q

Inv == EditsInv /\ SoleDefault

LEMMA InitInv == Init => Inv
BY DEF Init, Inv, EditsInv, SoleDefault, Default

LEMMA ResetInv ==
  ASSUME Inv, NEW e \in Editor, NEW p \in Provider, NEW active \in BOOLEAN, Reset(e, p, active)
  PROVE  Inv'
<1>1. EditsInv'
  <2>1. [default |-> TRUE, active |-> active] \in Settings
    BY DEF Settings
  <2>. QED BY <2>1 DEF Inv, EditsInv, Reset, Start, database
<1>2. SoleDefault'
  BY DEF Inv, SoleDefault, Default, Reset, database
<1>. QED BY <1>1, <1>2 DEF Inv

(* The commit leaves its own provider as the only candidate.               *)
LEMMA WriteDefaultInv ==
  ASSUME Inv, NEW e \in Editor, WriteDefault(e)
  PROVE  Inv'
<1>. /\ intent[e] \in Provider \X Settings
     /\ pc' = [pc EXCEPT ![e] = "committed"]
     /\ intent' = [intent EXCEPT ![e] = Nothing]
  BY DEF Inv, EditsInv, WriteDefault
<1>1. ASSUME NEW p \in Provider, p # intent[e][1]
      PROVE  /\ providers'[p] \in Settings \cup {Nothing}
             /\ ~ Default(p)'
  <2>1. providers'[p] = IF providers[p] = Nothing THEN Nothing
                        ELSE [providers[p] EXCEPT !.default = FALSE]
    BY <1>1 DEF WriteDefault
  <2>2. CASE providers[p] = Nothing
    BY <2>1, <2>2 DEF Default
  <2>3. CASE providers[p] # Nothing
    <3>1. providers[p] \in Settings
      BY <2>3 DEF Inv, EditsInv
    <3>2. /\ providers'[p] = [providers[p] EXCEPT !.default = FALSE]
          /\ providers'[p] \in Settings
          /\ providers'[p].default = FALSE
      BY <2>1, <2>3, <3>1 DEF Settings
    <3>. QED BY <3>2 DEF Default
  <2>. QED BY <2>2, <2>3
<1>2. providers'[intent[e][1]] = intent[e][2]
  BY DEF WriteDefault
<1>3. providers' \in [Provider -> Settings \cup {Nothing}]
  <2>1. \A p \in Provider : providers'[p] \in Settings \cup {Nothing}
    BY <1>1, <1>2
  <2>2. providers' = [p \in Provider |-> providers'[p]]
    BY DEF WriteDefault
  <2>. QED BY <2>1, <2>2
<1>4. EditsInv'
  BY <1>3 DEF Inv, EditsInv
<1>5. SoleDefault'
  BY <1>1 DEF SoleDefault
<1>. QED BY <1>4, <1>5 DEF Inv

LEMMA UndoInv ==
  ASSUME Inv, NEW e \in Editor, Undo(e)
  PROVE  Inv'
BY DEF Inv, EditsInv, SoleDefault, Default, Undo, database

(* A row that is the default after an ordinary edit was it before.         *)
LEMMA EditProviderInv ==
  ASSUME Inv, NEW e \in Editor, NEW p \in Provider, NEW settings \in Settings,
         EditProvider(e, p, settings)
  PROVE  Inv'
<1>1. EditsInv'
  BY DEF Inv, EditsInv, EditProvider, Start
<1>2. ASSUME NEW q \in Provider, Default(q)' PROVE Default(q)
  <2>1. CASE q = p
    <3>1. providers'[p] = settings
      BY DEF Inv, EditsInv, EditProvider
    <3>2. settings.default
      BY <1>2, <2>1, <3>1 DEF Default
    <3>. QED BY <2>1, <3>2 DEF EditProvider, Default
  <2>2. CASE q # p
    BY <1>2, <2>2 DEF Inv, EditsInv, EditProvider, Default
  <2>. QED BY <2>1, <2>2
<1>3. SoleDefault'
  BY <1>2 DEF Inv, SoleDefault
<1>. QED BY <1>1, <1>3 DEF Inv

LEMMA DeleteProviderInv ==
  ASSUME Inv, NEW e \in Editor, NEW p \in Provider, DeleteProvider(e, p)
  PROVE  Inv'
<1>1. EditsInv'
  BY DEF Inv, EditsInv, DeleteProvider, Start
<1>2. \A q \in Provider : Default(q)' => Default(q)
  BY DEF Inv, EditsInv, DeleteProvider, Default
<1>3. SoleDefault'
  BY <1>2 DEF Inv, SoleDefault
<1>. QED BY <1>1, <1>3 DEF Inv

(* The other steps leave the providers alone.                              *)
LEMMA OthersInv ==
  ASSUME Inv, NEW e \in Editor, UNCHANGED << providers, intent >>,
         \E where \in {"idle", "committed", "reading"} : pc' = [pc EXCEPT ![e] = where]
  PROVE  Inv'
BY DEF Inv, EditsInv, SoleDefault, Default

LEMMA StepInv == Inv /\ [Next]_vars => Inv'
<1>. SUFFICES ASSUME Inv, [Next]_vars PROVE Inv'
  OBVIOUS
<1>1. CASE UNCHANGED vars
  BY <1>1 DEF Inv, EditsInv, SoleDefault, Default, vars, database
<1>2. ASSUME NEW e \in Editor, Edit(e) PROVE Inv'
  <2>1. ASSUME NEW p \in Provider, NEW active \in BOOLEAN, Reset(e, p, active) PROVE Inv'
    BY <2>1, ResetInv
  <2>2. CASE WriteDefault(e)
    BY <2>2, WriteDefaultInv
  <2>3. CASE Undo(e)
    BY <2>3, UndoInv
  <2>4. ASSUME NEW p \in Provider, NEW settings \in Settings, EditProvider(e, p, settings)
        PROVE  Inv'
    BY <2>4, EditProviderInv
  <2>5. ASSUME NEW p \in Provider, DeleteProvider(e, p) PROVE Inv'
    BY <2>5, DeleteProviderInv
  <2>6. ASSUME NEW p \in Provider, NEW alias \in Alias, NEW active \in BOOLEAN,
               InsertModel(e, p, alias, active)
        PROVE  Inv'
    BY <2>6, OthersInv DEF InsertModel, Start
  <2>7. ASSUME NEW n \in Row, DeleteModel(e, n) \/ Deactivate(e, n) PROVE Inv'
    BY <2>7, OthersInv DEF DeleteModel, Deactivate, Start
  <2>. QED BY <1>2, <2>1, <2>2, <2>3, <2>4, <2>5, <2>6, <2>7 DEF Edit
<1>3. ASSUME NEW e \in Editor, ReadProviders(e) PROVE Inv'
  BY <1>3, OthersInv DEF ReadProviders, database
<1>4. ASSUME NEW e \in Editor, Install(e) PROVE Inv'
  BY <1>4, OthersInv DEF Install, database
<1>. QED BY <1>1, <1>2, <1>3, <1>4 DEF Next

(* A set whose members are all equal has at most one.                      *)
LEMMA SoleIsAtMostOne == SoleDefault => AtMostOneDefault
<1>. DEFINE D == {p \in Provider : providers[p] # Nothing /\ providers[p].default}
<1>. SUFFICES ASSUME SoleDefault PROVE Cardinality(D) <= 1
  BY DEF AtMostOneDefault
<1>1. CASE D = {}
  BY <1>1, FS_EmptySet
<1>2. CASE D # {}
  <2>1. PICK p \in D : TRUE
    BY <1>2
  <2>2. D = {p}
    BY <2>1 DEF SoleDefault, Default
  <2>3. Cardinality(D) = 1
    BY <2>2, FS_Singleton, Zenon
  <2>. QED BY <2>3
<1>. QED BY <1>1, <1>2

(* However many administrators insert and edit providers at the same time, *)
(* and whichever of them are undone by a name that is taken, the table     *)
(* never holds two defaults.                                               *)
THEOREM DefaultIsUnique == Spec => []AtMostOneDefault
<1>1. Spec => []Inv
  BY InitInv, StepInv, PTL DEF Spec
<1>2. Inv => AtMostOneDefault
  BY SoleIsAtMostOne DEF Inv
<1>. QED BY <1>1, <1>2, PTL

-----------------------------------------------------------------------------
(* The tables and what memory knows of them *)

(* The order of the rows: a row of the table that memory does not know is  *)
(* younger than every row it knows, and of a row both know the table may   *)
(* only have lost the mark of being active.                                *)
RowKept(n) ==
  /\ models[n] # Nothing \/ listed[n] # Nothing => n <= edits
  /\ models[n] # Nothing /\ listed[n] # Nothing =>
       /\ models[n].provider = listed[n].provider
       /\ models[n].alias = listed[n].alias
       /\ models[n].active => listed[n].active
  /\ models[n] # Nothing /\ listed[n] = Nothing =>
       \A m \in Row : listed[m] # Nothing => m < n

Kept == \A n \in Row : RowKept(n)

TInv == TypeOK /\ Inv /\ Kept

LEMMA InitTInv == Init => TInv
<1>. SUFFICES ASSUME Init PROVE TInv
  OBVIOUS
<1>1. Inv
  BY InitInv
<1>2. TypeOK
  BY BoundAssumption DEF Init, TypeOK, Unique
<1>3. Kept
  BY DEF Init, Kept, RowKept
<1>. QED BY <1>1, <1>2, <1>3 DEF TInv

(* An edit that changes the rows of the models only. *)
LEMMA ModelsEdited ==
  ASSUME TypeOK, NEW e \in Editor, Start(e, "committed"),
         UNCHANGED << providers, writer, intent, reader, half, memory >>,
         models' \in [Row -> Record \cup {Nothing}], Unique(models)',
         \A n \in Row : models'[n] # Nothing => providers[models'[n].provider] # Nothing
  PROVE  TypeOK'
<1>1. pc' \in [Editor -> {"idle", "resetting", "committed", "reading"}]
  BY DEF TypeOK, Start
<1>2. edits' \in 0 .. MaxEdits
  BY BoundAssumption DEF TypeOK, Start
<1>. QED BY <1>1, <1>2 DEF TypeOK, memory

(* A row less, or a row without its mark. *)
LEMMA RowsOnlyLose ==
  ASSUME TInv, models' \in [Row -> Record \cup {Nothing}],
         \A n \in Row : models'[n] # Nothing =>
            /\ models[n] # Nothing
            /\ models'[n].provider = models[n].provider
            /\ models'[n].alias = models[n].alias
            /\ models'[n].active => models[n].active,
         listed' = listed, edits' \in Nat, edits <= edits'
  PROVE  Unique(models)' /\ Kept'
<1>1. Unique(models)'
  BY DEF TInv, TypeOK, Unique
<1>2. ASSUME NEW n \in Row PROVE RowKept(n)'
  <2>1. RowKept(n) /\ edits \in Nat /\ n \in Nat
    BY BoundAssumption DEF TInv, Kept, TypeOK, Row
  <2>. QED BY <2>1 DEF RowKept
<1>. QED BY <1>1, <1>2 DEF Kept

LEMMA NextEdit ==
  ASSUME TypeOK, NEW e \in Editor, NEW where, Start(e, where)
  PROVE  /\ edits' = edits + 1
         /\ edits \in Nat
         /\ edits' \in Nat
         /\ edits <= edits'
         /\ edits + 1 \in Row
         /\ edits' \in 0 .. MaxEdits
BY BoundAssumption DEF TypeOK, Start, Row

LEMMA DeleteModelTInv ==
  ASSUME TInv, NEW e \in Editor, NEW n \in Row, DeleteModel(e, n)
  PROVE  TypeOK' /\ Kept'
<1>1. /\ models' \in [Row -> Record \cup {Nothing}]
      /\ \A m \in Row : models'[m] # Nothing => models'[m] = models[m]
  BY DEF TInv, TypeOK, DeleteModel
<1>2. Unique(models)' /\ Kept'
  BY <1>1, RowsOnlyLose, NextEdit DEF TInv, DeleteModel, memory
<1>. QED BY <1>1, <1>2, ModelsEdited DEF TInv, TypeOK, DeleteModel

LEMMA DeactivateTInv ==
  ASSUME TInv, NEW e \in Editor, NEW n \in Row, Deactivate(e, n)
  PROVE  TypeOK' /\ Kept'
<1>1. models[n] \in Record
  BY DEF TInv, TypeOK, Deactivate
<1>2. /\ [models[n] EXCEPT !.active = FALSE] \in Record
      /\ [models[n] EXCEPT !.active = FALSE].provider = models[n].provider
      /\ [models[n] EXCEPT !.active = FALSE].alias = models[n].alias
      /\ [models[n] EXCEPT !.active = FALSE].active = FALSE
  BY <1>1 DEF Record
<1>3. models' = [models EXCEPT ![n] = [models[n] EXCEPT !.active = FALSE]]
  BY DEF Deactivate
<1>4. models' \in [Row -> Record \cup {Nothing}]
  BY <1>2, <1>3 DEF TInv, TypeOK
<1>5. \A m \in Row : models'[m] # Nothing =>
            /\ models[m] # Nothing
            /\ models'[m].provider = models[m].provider
            /\ models'[m].alias = models[m].alias
            /\ models'[m].active => models[m].active
  BY <1>2, <1>3 DEF TInv, TypeOK, Deactivate
<1>6. Unique(models)' /\ Kept'
  BY <1>4, <1>5, RowsOnlyLose, NextEdit DEF TInv, Deactivate, memory
<1>7. \A m \in Row : models'[m] # Nothing => providers[models'[m].provider] # Nothing
  BY <1>5 DEF TInv, TypeOK
<1>. QED BY <1>4, <1>6, <1>7, ModelsEdited DEF TInv, Deactivate

LEMMA InsertModelTInv ==
  ASSUME TInv, NEW e \in Editor, NEW p \in Provider, NEW alias \in Alias,
         NEW active \in BOOLEAN, InsertModel(e, p, alias, active)
  PROVE  TypeOK' /\ Kept'
<1>. DEFINE rec == [provider |-> p, alias |-> alias, active |-> active]
<1>1. rec \in Record /\ rec # Nothing /\ rec.provider = p
  BY NameAssumption DEF Record
<1>2. models' = [models EXCEPT ![edits + 1] = rec] /\ edits + 1 \in Row
  BY NextEdit DEF InsertModel, Inserted, TInv
<1>. HIDE DEF rec
<1>3. models' \in [Row -> Record \cup {Nothing}]
  BY <1>1, <1>2 DEF TInv, TypeOK
<1>4. Unique(models)'
  BY DEF InsertModel
<1>5. \A n \in Row : models'[n] # Nothing => providers[models'[n].provider] # Nothing
  BY <1>1, <1>2 DEF InsertModel, TInv, TypeOK
<1>6. TypeOK'
  BY <1>3, <1>4, <1>5, ModelsEdited DEF TInv, InsertModel
<1>7. ASSUME NEW n \in Row PROVE RowKept(n)'
  <2>1. /\ n \in Nat /\ edits \in Nat /\ edits' = edits + 1 /\ listed' = listed
        /\ \A m \in Row : m \in Nat /\ (listed[m] # Nothing => m <= edits)
    BY NextEdit DEF TInv, Kept, RowKept, InsertModel, memory, Row
  <2>2. CASE n = edits + 1
    BY <2>1, <2>2 DEF RowKept
  <2>3. CASE n # edits + 1
    <3>1. models'[n] = models[n] /\ RowKept(n)
      BY <1>2, <2>3 DEF TInv, TypeOK, Kept
    <3>. QED BY <2>1, <3>1 DEF RowKept
  <2>. QED BY <2>2, <2>3
<1>. QED BY <1>6, <1>7 DEF Kept

LEMMA DeleteProviderTInv ==
  ASSUME TInv, NEW e \in Editor, NEW p \in Provider, DeleteProvider(e, p)
  PROVE  TypeOK' /\ Kept'
<1>1. models' = [n \in Row |->
        IF models[n] # Nothing /\ models[n].provider = p THEN Nothing ELSE models[n]]
  BY DEF DeleteProvider
<1>2. /\ models' \in [Row -> Record \cup {Nothing}]
      /\ \A n \in Row : models'[n] # Nothing => models'[n] = models[n] /\ models[n].provider # p
  BY <1>1 DEF TInv, TypeOK
<1>3. Unique(models)' /\ Kept'
  BY <1>2, RowsOnlyLose, NextEdit DEF TInv, DeleteProvider, memory
<1>4. /\ providers' \in [Provider -> Settings \cup {Nothing}]
      /\ \A q \in Provider : q # p => providers'[q] = providers[q]
  BY DEF TInv, TypeOK, DeleteProvider
<1>5. \A n \in Row : models'[n] # Nothing => providers'[models'[n].provider] # Nothing
  <2>. SUFFICES ASSUME NEW n \in Row, models'[n] # Nothing
                PROVE  providers'[models'[n].provider] # Nothing
    OBVIOUS
  <2>1. models[n] \in Record /\ models'[n] = models[n] /\ models[n].provider # p
    BY <1>2 DEF TInv, TypeOK
  <2>2. models[n].provider \in Provider
    BY <2>1 DEF Record
  <2>. QED BY <1>4, <2>1, <2>2 DEF TInv, TypeOK
<1>6. pc' \in [Editor -> {"idle", "resetting", "committed", "reading"}] /\ edits' \in 0 .. MaxEdits
  BY NextEdit DEF TInv, TypeOK, DeleteProvider, Start
<1>. QED BY <1>2, <1>3, <1>4, <1>5, <1>6 DEF TInv, TypeOK, DeleteProvider, memory

(* The steps that leave the models, and no provider without its row.       *)
LEMMA ModelsLeft ==
  ASSUME TInv, Inv', UNCHANGED << models, listed >>,
         \A p \in Provider : providers[p] # Nothing => providers'[p] # Nothing,
         writer' \in Editor \cup {NoEditor}, reader' \in Editor \cup {NoEditor},
         half' \in [Provider -> Settings \cup {Nothing}], known' = known,
         edits' \in 0 .. MaxEdits, edits <= edits'
  PROVE  TypeOK' /\ Kept'
<1>1. \A n \in Row : models[n] # Nothing => models[n].provider \in Provider
  BY DEF TInv, TypeOK, Record
<1>2. TypeOK'
  BY <1>1 DEF TInv, TypeOK, Inv, EditsInv, Unique
<1>3. edits \in Nat /\ edits' \in Nat
  BY BoundAssumption DEF TInv, TypeOK
<1>4. ASSUME NEW n \in Row PROVE RowKept(n)'
  BY <1>3 DEF TInv, Kept, RowKept, Row
<1>. QED BY <1>2, <1>4 DEF Kept

LEMMA InstallTInv ==
  ASSUME TInv, NEW e \in Editor, Install(e)
  PROVE  TypeOK' /\ Kept'
<1>1. TypeOK'
  BY DEF TInv, TypeOK, Install, database, Unique
<1>2. ASSUME NEW n \in Row PROVE RowKept(n)'
  BY DEF TInv, Kept, RowKept, Install, database
<1>. QED BY <1>1, <1>2 DEF Kept

LEMMA StepTInv == TInv /\ [Next]_vars => TInv'
<1>. SUFFICES ASSUME TInv, [Next]_vars PROVE TInv'
  OBVIOUS
<1>1. Inv'
  BY StepInv DEF TInv
<1>. SUFFICES TypeOK' /\ Kept'
  BY <1>1 DEF TInv
<1>. TypeOK /\ edits \in Nat /\ edits \in 0 .. MaxEdits /\ edits <= edits
  BY BoundAssumption DEF TInv, TypeOK
<1>2. CASE UNCHANGED vars
  BY <1>1, <1>2, ModelsLeft DEF TypeOK, vars, database, memory
<1>3. ASSUME NEW e \in Editor, Edit(e) PROVE TypeOK' /\ Kept'
  <2>1. ASSUME NEW p \in Provider, NEW active \in BOOLEAN, Reset(e, p, active)
        PROVE  TypeOK' /\ Kept'
    BY <1>1, <2>1, ModelsLeft, NextEdit DEF TypeOK, Reset, database, memory
  <2>2. CASE WriteDefault(e)
    <3>1. ASSUME NEW p \in Provider, providers[p] # Nothing PROVE providers'[p] # Nothing
      <4>1. providers'[p] = IF p = intent[e][1] THEN intent[e][2]
                            ELSE [providers[p] EXCEPT !.default = FALSE]
        BY <2>2, <3>1 DEF WriteDefault
      <4>2. intent[e][2] \in Settings /\ [providers[p] EXCEPT !.default = FALSE] \in Settings
        BY <2>2, <3>1 DEF WriteDefault, TInv, Inv, EditsInv, Settings
      <4>. QED BY <4>1, <4>2, NameAssumption
    <3>. QED BY <1>1, <2>2, <3>1, ModelsLeft DEF TypeOK, WriteDefault, memory
  <2>3. CASE Undo(e)
    BY <1>1, <2>3, ModelsLeft DEF TypeOK, Undo, database, memory
  <2>4. ASSUME NEW p \in Provider, NEW settings \in Settings, EditProvider(e, p, settings)
        PROVE  TypeOK' /\ Kept'
    <3>1. \A q \in Provider : providers[q] # Nothing => providers'[q] # Nothing
      BY <2>4, NameAssumption DEF EditProvider, TypeOK
    <3>. QED BY <1>1, <2>4, <3>1, ModelsLeft, NextEdit DEF TypeOK, EditProvider, memory
  <2>5. ASSUME NEW p \in Provider, DeleteProvider(e, p) PROVE TypeOK' /\ Kept'
    BY <2>5, DeleteProviderTInv
  <2>6. ASSUME NEW p \in Provider, NEW alias \in Alias, NEW active \in BOOLEAN,
               InsertModel(e, p, alias, active)
        PROVE  TypeOK' /\ Kept'
    BY <2>6, InsertModelTInv
  <2>7. ASSUME NEW n \in Row, DeleteModel(e, n) \/ Deactivate(e, n) PROVE TypeOK' /\ Kept'
    BY <2>7, DeleteModelTInv, DeactivateTInv
  <2>. QED BY <1>3, <2>1, <2>2, <2>3, <2>4, <2>5, <2>6, <2>7 DEF Edit
<1>4. ASSUME NEW e \in Editor, ReadProviders(e) PROVE TypeOK' /\ Kept'
  BY <1>1, <1>4, ModelsLeft DEF TypeOK, ReadProviders, database, memory
<1>5. ASSUME NEW e \in Editor, Install(e) PROVE TypeOK' /\ Kept'
  BY <1>5, InstallTInv
<1>. QED BY <1>2, <1>3, <1>4, <1>5 DEF Next

LEMMA TInvHolds == Spec => []TInv
BY InitTInv, StepTInv, PTL DEF Spec

(* No row of a model is without its provider, none has a twin, and every   *)
(* variable keeps its type, however edits and refreshes interleave.        *)
THEOREM TypeCorrect == Spec => []TypeOK
BY TInvHolds, PTL DEF TInv

-----------------------------------------------------------------------------
(* The loop over the rows *)

Smaller == {p \in Nat \X Nat : p[1] < p[2]}

(* The order of the numbers is well founded. *)
LEMMA SmallerWF == IsWellFoundedOn(Smaller, Nat)
<1>1. Smaller = OpToRel(<, Nat)
  BY Zenon DEF OpToRel, Smaller
<1>. QED BY <1>1, NatLessThanWellFounded, Zenon

(* A set of numbers that is not empty has a least one, and Min is it. *)
LEMMA MinNat ==
  ASSUME NEW S, S \subseteq Nat, S # {}
  PROVE  Min(S) \in S /\ \A y \in S : Min(S) <= y
<1>1. PICK x \in S : \A y \in S : ~ (<< y, x >> \in Smaller)
  BY SmallerWF, WFMin, Zenon
<1>2. \A y \in S : x <= y
  <2>. SUFFICES ASSUME NEW y \in S PROVE x <= y
    OBVIOUS
  <2>1. x \in Nat /\ y \in Nat
    OBVIOUS
  <2>2. ~ (y < x)
    BY <1>1, <2>1 DEF Smaller
  <2>. QED BY <2>1, <2>2
<1>. QED BY <1>2 DEF Min

(* Min is the member below which there is none. *)
LEMMA MinIs ==
  ASSUME NEW S, S \subseteq Nat, NEW x \in S, \A y \in S : x <= y
  PROVE  Min(S) = x
<1>1. Min(S) \in S /\ Min(S) <= x /\ x <= Min(S)
  BY MinNat
<1>2. Min(S) \in Nat /\ x \in Nat
  BY <1>1
<1>. QED BY <1>1, <1>2

(* The rows up to the n-th that serve an alias, and those of the default.  *)
ServingUpTo(n, alias, ms) ==
  {m \in Row : m <= n /\ ms[m] # Nothing /\ ms[m].active /\ ms[m].alias = alias}

FavouredUpTo(n, alias, ms, ps) ==
  {m \in ServingUpTo(n, alias, ms) : Priority(ms[m], ps) = 0}

(* What the loop has found for an alias after n rows.                      *)
FirstUpTo(n, alias, ms, ps) ==
  IF FavouredUpTo(n, alias, ms, ps) # {} THEN Min(FavouredUpTo(n, alias, ms, ps))
  ELSE IF ServingUpTo(n, alias, ms) # {} THEN Min(ServingUpTo(n, alias, ms))
  ELSE NoRow

(* One turn of the loop.                                                   *)
Turn(n, before, ms, ps) ==
  IF /\ ms[n] # Nothing
     /\ ms[n].active
     /\ TakesOver(n, before[ms[n].alias], ms, ps)
    THEN [before EXCEPT ![ms[n].alias] = n]
    ELSE before

Empty == [alias \in Alias |-> NoRow]

Loop(map, ms, ps) ==
  [n \in 0 .. MaxEdits |-> IF n = 0 THEN Empty ELSE Turn(n, map[n - 1], ms, ps)]

LEMMA AliasMapIsLoop ==
  ASSUME NEW ms, NEW ps
  PROVE  AliasMap(ms, ps) = (CHOOSE map : map = Loop(map, ms, ps))[MaxEdits]
BY Zenon DEF AliasMap, Loop, Turn, Empty

Rows(ms) == ms \in [Row -> Record \cup {Nothing}]

LEMMA UpToNat ==
  ASSUME NEW n, NEW alias, NEW ms, NEW ps
  PROVE  /\ ServingUpTo(n, alias, ms) \subseteq Nat
         /\ FavouredUpTo(n, alias, ms, ps) \subseteq ServingUpTo(n, alias, ms)
BY BoundAssumption DEF ServingUpTo, FavouredUpTo, Row

LEMMA FirstOfNone ==
  ASSUME NEW alias, NEW ms, NEW ps
  PROVE  FirstUpTo(0, alias, ms, ps) = NoRow
<1>1. ServingUpTo(0, alias, ms) = {}
  BY BoundAssumption DEF ServingUpTo, Row
<1>2. FavouredUpTo(0, alias, ms, ps) = {}
  BY <1>1 DEF FavouredUpTo
<1>. QED BY <1>1, <1>2 DEF FirstUpTo

(* A row that does not serve the alias does not matter to it.              *)
LEMMA FirstElsewhere ==
  ASSUME NEW n \in Row, NEW alias, NEW ms, NEW ps,
         ms[n] = Nothing \/ ~ ms[n].active \/ ms[n].alias # alias
  PROVE  FirstUpTo(n, alias, ms, ps) = FirstUpTo(n - 1, alias, ms, ps)
<1>1. ASSUME NEW m \in Row PROVE m <= n /\ m # n <=> m <= n - 1
  BY BoundAssumption DEF Row
<1>2. ServingUpTo(n, alias, ms) = ServingUpTo(n - 1, alias, ms)
  BY <1>1 DEF ServingUpTo
<1>3. FavouredUpTo(n, alias, ms, ps) = FavouredUpTo(n - 1, alias, ms, ps)
  BY <1>2 DEF FavouredUpTo
<1>. QED BY <1>2, <1>3, Zenon DEF FirstUpTo

(* Of a set with a later member the least one stays the same.              *)
LEMMA MinOfMore ==
  ASSUME NEW S, S \subseteq Nat, S # {}, NEW n \in Nat, \A y \in S : y < n
  PROVE  Min(S \cup {n}) = Min(S)
<1>1. Min(S) \in S /\ \A y \in S : Min(S) <= y
  BY MinNat
<1>2. Min(S) \in Nat /\ Min(S) < n
  BY <1>1
<1>3. \A y \in S \cup {n} : Min(S) <= y
  BY <1>1, <1>2
<1>. QED BY <1>1, <1>3, MinIs

(* A row that serves the alias takes it over, or leaves it to the one      *)
(* before it.                                                              *)
LEMMA FirstHere ==
  ASSUME NEW n \in Row, NEW alias, NEW ms, NEW ps,
         ms[n] # Nothing, ms[n].active, ms[n].alias = alias
  PROVE  FirstUpTo(n, alias, ms, ps) =
           IF TakesOver(n, FirstUpTo(n - 1, alias, ms, ps), ms, ps)
             THEN n ELSE FirstUpTo(n - 1, alias, ms, ps)
<1>. DEFINE S == ServingUpTo(n - 1, alias, ms)
            F == FavouredUpTo(n - 1, alias, ms, ps)
            old == FirstUpTo(n - 1, alias, ms, ps)
<1>0. n \in Nat /\ n # NoRow
  BY BoundAssumption DEF Row, NoRow
<1>1. ASSUME NEW m \in Row PROVE m <= n <=> m <= n - 1 \/ m = n
  BY BoundAssumption DEF Row
<1>2. /\ ServingUpTo(n, alias, ms) = S \cup {n}
      /\ \A y \in S : y < n /\ y # NoRow
  <2>1. ServingUpTo(n, alias, ms) = S \cup {n}
    BY <1>1 DEF ServingUpTo
  <2>2. \A y \in S : y < n /\ y # NoRow
    BY BoundAssumption DEF ServingUpTo, Row, NoRow
  <2>. QED BY <2>1, <2>2
<1>3. /\ Priority(ms[n], ps) = 0 => FavouredUpTo(n, alias, ms, ps) = F \cup {n}
      /\ Priority(ms[n], ps) # 0 => FavouredUpTo(n, alias, ms, ps) = F
  BY <1>2 DEF FavouredUpTo
<1>4. S \subseteq Nat /\ F \subseteq S
  BY UpToNat
<1>5. \A rec : Priority(rec, ps) \in {0, 1}
  BY DEF Priority
<1>6. \A y \in S : y \in F <=> Priority(ms[y], ps) = 0
  BY DEF FavouredUpTo
<1>7. old = IF F # {} THEN Min(F) ELSE IF S # {} THEN Min(S) ELSE NoRow
  BY Zenon DEF FirstUpTo
<1>8. FirstUpTo(n, alias, ms, ps) =
        IF FavouredUpTo(n, alias, ms, ps) # {} THEN Min(FavouredUpTo(n, alias, ms, ps))
        ELSE Min(S \cup {n})
  BY <1>2, Zenon DEF FirstUpTo
<1>9. Min({n}) = n
  BY <1>0, MinIs
<1>10. TakesOver(n, old, ms, ps) <=> old = NoRow \/ Priority(ms[n], ps) < Priority(ms[old], ps)
  BY Zenon DEF TakesOver
<1>. HIDE DEF S, F, old
<1>11. CASE S = {}
  <2>1. F = {} /\ old = NoRow
    BY <1>4, <1>7, <1>11
  <2>2. FavouredUpTo(n, alias, ms, ps) \in {{}, {n}} /\ S \cup {n} = {n}
    BY <1>3, <1>11, <2>1
  <2>3. FirstUpTo(n, alias, ms, ps) = n
    BY <1>8, <1>9, <2>2
  <2>. QED BY <1>10, <2>1, <2>3 DEF old
<1>12. CASE F # {}
  <2>1. old \in F
    BY <1>4, <1>7, <1>12, MinNat
  <2>2. old # NoRow /\ Priority(ms[old], ps) = 0
    BY <1>2, <1>4, <1>6, <2>1
  <2>3. ~ TakesOver(n, old, ms, ps)
    BY <1>5, <1>10, <2>2
  <2>4. Min(F \cup {n}) = Min(F)
    BY <1>0, <1>2, <1>4, <1>12, MinOfMore
  <2>5. FirstUpTo(n, alias, ms, ps) = Min(F)
    BY <1>3, <1>8, <1>12, <2>4
  <2>. QED BY <1>7, <1>12, <2>3, <2>5 DEF old
<1>13. CASE S # {} /\ F = {}
  <2>1. old \in S /\ old = Min(S)
    BY <1>4, <1>7, <1>13, MinNat
  <2>2. old # NoRow /\ Priority(ms[old], ps) = 1
    BY <1>2, <1>5, <1>6, <1>13, <2>1
  <2>3. CASE Priority(ms[n], ps) = 0
    <3>1. TakesOver(n, old, ms, ps)
      BY <1>10, <2>2, <2>3
    <3>2. FavouredUpTo(n, alias, ms, ps) = {n}
      BY <1>3, <1>13, <2>3
    <3>3. FirstUpTo(n, alias, ms, ps) = n
      BY <1>8, <1>9, <3>2
    <3>. QED BY <3>1, <3>3 DEF old
  <2>4. CASE Priority(ms[n], ps) # 0
    <3>1. ~ TakesOver(n, old, ms, ps)
      <4>1. Priority(ms[n], ps) = 1
        BY <1>5, <2>4
      <4>. QED BY <1>10, <2>2, <4>1
    <3>2. Min(S \cup {n}) = Min(S)
      BY <1>0, <1>2, <1>4, <1>13, MinOfMore
    <3>3. FirstUpTo(n, alias, ms, ps) = old
      BY <1>3, <1>8, <1>13, <2>1, <2>4, <3>2
    <3>. QED BY <3>1, <3>3 DEF old
  <2>. QED BY <2>3, <2>4
<1>. QED BY <1>11, <1>12, <1>13

Found(n, ms, ps) == [alias \in Alias |-> FirstUpTo(n, alias, ms, ps)]

LEMMA FoundTurns ==
  ASSUME NEW ms, Rows(ms), NEW ps, NEW n \in Row
  PROVE  Found(n, ms, ps) = Turn(n, Found(n - 1, ms, ps), ms, ps)
<1>1. CASE ms[n] = Nothing \/ ~ ms[n].active
  <2>1. \A alias \in Alias : FirstUpTo(n, alias, ms, ps) = FirstUpTo(n - 1, alias, ms, ps)
    BY <1>1, FirstElsewhere
  <2>. QED BY <1>1, <2>1 DEF Found, Turn
<1>2. CASE ms[n] # Nothing /\ ms[n].active
  <2>. DEFINE before == Found(n - 1, ms, ps)
              b == ms[n].alias
  <2>1. b \in Alias
    BY <1>2 DEF Rows, Record
  <2>2. before[b] = FirstUpTo(n - 1, b, ms, ps)
    BY <2>1 DEF Found
  <2>3. \A alias \in Alias : alias # b => FirstUpTo(n, alias, ms, ps) = before[alias]
    BY FirstElsewhere DEF Found
  <2>4. FirstUpTo(n, b, ms, ps) = IF TakesOver(n, before[b], ms, ps) THEN n ELSE before[b]
    BY <1>2, <2>2, FirstHere
  <2>5. Turn(n, before, ms, ps) =
          IF TakesOver(n, before[b], ms, ps) THEN [before EXCEPT ![b] = n] ELSE before
    BY <1>2, Zenon DEF Turn
  <2>6. before = [alias \in Alias |-> before[alias]]
    BY DEF Found
  <2>7. Found(n, ms, ps) = [alias \in Alias |-> FirstUpTo(n, alias, ms, ps)]
    BY DEF Found
  <2>. HIDE DEF before, b
  <2>8. Found(n, ms, ps) = Turn(n, before, ms, ps)
    BY <2>1, <2>3, <2>4, <2>5, <2>6, <2>7
  <2>. QED BY <2>8 DEF before
<1>. QED BY <1>1, <1>2

(* The loop's result for each alias is the first row of the default        *)
(* provider that serves it, or else the first that does.  The map of the   *)
(* turns exists, since Found is one, and it is the only one, since there   *)
(* is no first turn at which another could differ.                         *)
LEMMA AliasMapFinds ==
  ASSUME NEW ms, Rows(ms), NEW ps
  PROVE  AliasMap(ms, ps) = Found(MaxEdits, ms, ps)
<1>. DEFINE map == CHOOSE map : map = Loop(map, ms, ps)
            G == [n \in 0 .. MaxEdits |-> Found(n, ms, ps)]
<1>. MaxEdits \in Nat
  BY BoundAssumption
<1>1. G = Loop(G, ms, ps)
  <2>1. G[0] = Empty
    BY FirstOfNone DEF Found, Empty
  <2>2. ASSUME NEW n \in 0 .. MaxEdits, n # 0 PROVE G[n] = Turn(n, G[n - 1], ms, ps)
    <3>1. n \in Row /\ n - 1 \in 0 .. MaxEdits
      BY <2>2 DEF Row
    <3>. QED BY <3>1, FoundTurns
  <2>3. \A n \in 0 .. MaxEdits : G[n] = IF n = 0 THEN Empty ELSE Turn(n, G[n - 1], ms, ps)
    BY <2>1, <2>2
  <2>4. G = [n \in 0 .. MaxEdits |-> G[n]]
    OBVIOUS
  <2>. HIDE DEF G
  <2>. QED BY <2>3, <2>4 DEF Loop
<1>2. map = Loop(map, ms, ps)
  BY <1>1, Zenon
<1>. HIDE DEF map
<1>3. /\ map[0] = Empty
      /\ \A n \in Row : map[n] = Turn(n, map[n - 1], ms, ps)
  <2>1. \A n \in 0 .. MaxEdits :
          Loop(map, ms, ps)[n] = IF n = 0 THEN Empty ELSE Turn(n, map[n - 1], ms, ps)
    BY DEF Loop
  <2>2. \A n \in 0 .. MaxEdits : map[n] = IF n = 0 THEN Empty ELSE Turn(n, map[n - 1], ms, ps)
    BY <1>2, <2>1
  <2>3. \A n \in Row : n \in 0 .. MaxEdits /\ n # 0
    BY DEF Row
  <2>. QED BY <2>2, <2>3
<1>4. \A n \in 0 .. MaxEdits : map[n] = Found(n, ms, ps)
  <2>. DEFINE Wrong == {n \in 0 .. MaxEdits : map[n] # Found(n, ms, ps)}
  <2>. SUFFICES ASSUME Wrong # {} PROVE FALSE
    OBVIOUS
  <2>1. PICK n \in Wrong : \A k \in Wrong : n <= k
    <3>1. Wrong \subseteq Nat
      OBVIOUS
    <3>. QED BY <3>1, MinNat
  <2>2. n # 0
    BY <1>3, <2>1, FirstOfNone DEF Found, Empty
  <2>3. n \in Row /\ n - 1 \in 0 .. MaxEdits /\ n - 1 \notin Wrong
    BY <2>1, <2>2 DEF Row
  <2>4. map[n - 1] = Found(n - 1, ms, ps)
    BY <2>3
  <2>. QED BY <1>3, <2>1, <2>3, <2>4, FoundTurns
<1>. QED BY <1>4, AliasMapIsLoop DEF map

-----------------------------------------------------------------------------
(* The routes *)

(* resolve finds the alias's row, if it has one whose provider is active,  *)
(* and else a row the name spells out.                                     *)
LEMMA ResolveFinds ==
  ASSUME NEW ms, Rows(ms), NEW ps, NEW name, Resolve(name, ms, ps) # NoRow
  PROVE  \/ /\ Target(name) \in Alias
            /\ ServingUpTo(MaxEdits, Target(name), ms) # {}
            /\ Resolve(name, ms, ps) = FirstUpTo(MaxEdits, Target(name), ms, ps)
            /\ Serves(Resolve(name, ms, ps), ms, ps)
         \/ /\ Resolve(name, ms, ps) \in Spelled(Target(name), ms, ps)
            /\ Target(name) \in Alias => ServingUpTo(MaxEdits, Target(name), ms) = {}
<1>. DEFINE target  == Target(name)
            row     == IF target \in Alias THEN AliasMap(ms, ps)[target] ELSE NoRow
            spelled == Spelled(target, ms, ps)
            found   == Resolve(name, ms, ps)
<1>1. found = CASE row # NoRow -> IF Serves(row, ms, ps) THEN row ELSE NoRow
                [] row = NoRow /\ spelled # {} -> Min(spelled)
                [] OTHER -> NoRow
  BY Zenon DEF Resolve
<1>2. target \in Alias => row = FirstUpTo(MaxEdits, target, ms, ps)
  BY AliasMapFinds DEF Found
<1>3. target \notin Alias => row = NoRow
  OBVIOUS
<1>4. target \in Alias =>
        (ServingUpTo(MaxEdits, target, ms) = {} <=> FirstUpTo(MaxEdits, target, ms, ps) = NoRow)
  <2>. DEFINE S == ServingUpTo(MaxEdits, target, ms)
              F == FavouredUpTo(MaxEdits, target, ms, ps)
  <2>1. FirstUpTo(MaxEdits, target, ms, ps) =
          IF F # {} THEN Min(F) ELSE IF S # {} THEN Min(S) ELSE NoRow
    BY Zenon DEF FirstUpTo
  <2>2. S \subseteq Nat /\ F \subseteq S /\ NoRow \notin S
    BY UpToNat, BoundAssumption DEF ServingUpTo, Row, NoRow
  <2>3. F # {} => Min(F) \in S
    BY <2>2, MinNat
  <2>4. S # {} => Min(S) \in S
    BY <2>2, MinNat
  <2>. HIDE DEF S, F
  <2>5. S = {} <=> FirstUpTo(MaxEdits, target, ms, ps) = NoRow
    BY <2>1, <2>2, <2>3, <2>4
  <2>. QED BY <2>5 DEF S
<1>5. spelled \subseteq Nat
  BY BoundAssumption DEF Spelled, Row
<1>6. spelled # {} => Min(spelled) \in spelled
  BY <1>5, MinNat
<1>. HIDE DEF row, spelled
<1>7. CASE row # NoRow
  <2>1. found = row /\ Serves(row, ms, ps)
    BY <1>1, <1>7
  <2>. QED BY <1>2, <1>3, <1>4, <1>7, <2>1
<1>8. CASE row = NoRow
  <2>1. spelled # {} /\ found = Min(spelled)
    BY <1>1, <1>8
  <2>. QED BY <1>2, <1>4, <1>6, <1>8, <2>1 DEF spelled
<1>. QED BY <1>7, <1>8

LEMMA ServingIs ==
  ASSUME NEW alias
  PROVE  /\ Serving(alias) = ServingUpTo(MaxEdits, alias, listed)
         /\ Favoured(alias) = FavouredUpTo(MaxEdits, alias, listed, known)
<1>1. \A n \in Row : n <= MaxEdits
  BY BoundAssumption DEF Row
<1>2. Serving(alias) = ServingUpTo(MaxEdits, alias, listed)
  BY <1>1 DEF Serving, ServingUpTo
<1>3. \A n : Priority(listed[n], known) = 0 <=>
              known[listed[n].provider] # Nothing /\ known[listed[n].provider].default
  BY DEF Priority
<1>. QED BY <1>2, <1>3 DEF Favoured, FavouredUpTo

LEMMA Documented == TypeOK => RoutesAsDocumented
<1>. SUFFICES ASSUME TypeOK, NEW name \in Name, Resolve(name, listed, known) # NoRow
              PROVE  LET target == Target(name)
                         found  == Resolve(name, listed, known)
                     IN  \/ /\ target \in Alias
                            /\ Serving(target) # {}
                            /\ found = Owner(target)
                            /\ known[listed[found].provider].active
                         \/ /\ target = << listed[found].provider, listed[found].alias >>
                            /\ listed[found].active
                            /\ target \in Alias => Serving(target) = {}
  BY DEF RoutesAsDocumented
<1>. DEFINE target == Target(name)
            found  == Resolve(name, listed, known)
<1>1. Rows(listed)
  BY DEF TypeOK, Rows
<1>2. /\ Serving(target) = ServingUpTo(MaxEdits, target, listed)
      /\ Favoured(target) = FavouredUpTo(MaxEdits, target, listed, known)
  BY ServingIs
<1>3. CASE /\ target \in Alias
           /\ Serving(target) # {}
           /\ found = FirstUpTo(MaxEdits, target, listed, known)
           /\ Serves(found, listed, known)
  <2>1. found = Owner(target)
    BY <1>2, <1>3, Zenon DEF FirstUpTo, Owner
  <2>. QED BY <1>3, <2>1 DEF Serves
<1>4. CASE /\ found \in Spelled(target, listed, known)
           /\ target \in Alias => Serving(target) = {}
  BY <1>4 DEF Spelled
<1>. QED BY <1>1, <1>2, <1>3, <1>4, ResolveFinds

(* The provider a name is sent to is always the one the documentation      *)
(* names: however providers, models, the default and the refreshes         *)
(* interleave, the loop of _reload and resolve find the first active match *)
(* with the default provider before the others.                            *)
THEOREM DocumentedRoutes == Spec => []RoutesAsDocumented
BY TInvHolds, Documented, PTL DEF TInv

(* What an alias's row is among the rows that serve it. *)
LEMMA FirstIsFirst ==
  ASSUME NEW alias, NEW ms, NEW ps, ServingUpTo(MaxEdits, alias, ms) # {}
  PROVE  LET first == FirstUpTo(MaxEdits, alias, ms, ps)
         IN  /\ first \in ServingUpTo(MaxEdits, alias, ms)
             /\ \/ first \in FavouredUpTo(MaxEdits, alias, ms, ps)
                \/ /\ FavouredUpTo(MaxEdits, alias, ms, ps) = {}
                   /\ \A m \in ServingUpTo(MaxEdits, alias, ms) : first <= m
<1>. DEFINE S == ServingUpTo(MaxEdits, alias, ms)
            F == FavouredUpTo(MaxEdits, alias, ms, ps)
            first == FirstUpTo(MaxEdits, alias, ms, ps)
<1>1. S \subseteq Nat /\ F \subseteq S
  BY UpToNat
<1>2. first = IF F # {} THEN Min(F) ELSE Min(S)
  BY Zenon DEF FirstUpTo
<1>. HIDE DEF S, F, first
<1>3. CASE F # {}
  BY <1>1, <1>2, <1>3, MinNat DEF S, F, first
<1>4. CASE F = {}
  <2>1. first = Min(S)
    BY <1>2, <1>4
  <2>2. first \in S /\ \A m \in S : first <= m
    BY <1>1, <2>1, MinNat DEF S
  <2>. QED BY <1>4, <2>2 DEF S, F, first
<1>. QED BY <1>3, <1>4

(* A refresh that moves a name without one of the reasons would find a row *)
(* that stands before the old one and serves the name: memory knew it, for *)
(* rows it does not know are younger, so it would have been found before.  *)
LEMMA InstallSticky ==
  ASSUME TInv, NEW e \in Editor, Install(e), NEW name \in Name
  PROVE  MovesForAReason(name)
<1>. DEFINE before == Resolve(name, listed, known)
            after  == Resolve(name, models, half)
            target == Target(name)
            IsDefault(ps, p) == ps[p] # Nothing /\ ps[p].default
<1>0. listed' = models /\ known' = half
  BY DEF Install
<1>. SUFFICES ASSUME before # NoRow, after # NoRow, after # before,
                     models[before] = listed[before],
                     \A p \in Provider : IsDefault(known, p) = IsDefault(half, p),
                     ~ half[models[after].provider].default,
                     target # << listed[before].provider, listed[before].alias >>
              PROVE  FALSE
  BY <1>0 DEF MovesForAReason
<1>1. Rows(listed) /\ Rows(models)
  BY DEF TInv, TypeOK, Rows
<1>2. /\ target \in Alias
      /\ ServingUpTo(MaxEdits, target, listed) # {}
      /\ before = FirstUpTo(MaxEdits, target, listed, known)
  <2>1. before \notin Spelled(target, listed, known)
    BY DEF Spelled
  <2>. QED BY <1>1, <2>1, ResolveFinds
<1>3. before \in ServingUpTo(MaxEdits, target, listed)
  BY <1>2, FirstIsFirst
<1>4. before \in ServingUpTo(MaxEdits, target, models)
  BY <1>3 DEF ServingUpTo
<1>5. /\ after = FirstUpTo(MaxEdits, target, models, half)
      /\ Serves(after, models, half)
  BY <1>1, <1>2, <1>4, ResolveFinds
<1>6. after \notin FavouredUpTo(MaxEdits, target, models, half)
  BY DEF FavouredUpTo, Priority
<1>7. /\ after \in ServingUpTo(MaxEdits, target, models)
      /\ FavouredUpTo(MaxEdits, target, models, half) = {}
      /\ after <= before
  BY <1>4, <1>5, <1>6, FirstIsFirst
<1>8. before \notin FavouredUpTo(MaxEdits, target, listed, known)
  <2>1. listed[before].provider \in Provider
    BY <1>1, <1>3 DEF ServingUpTo, Rows, Record
  <2>2. ~ IsDefault(half, models[before].provider)
    BY <1>4, <1>7 DEF FavouredUpTo, Priority
  <2>3. ~ IsDefault(known, listed[before].provider)
    BY <2>1, <2>2
  <2>. QED BY <2>3 DEF FavouredUpTo, Priority
<1>9. \A m \in ServingUpTo(MaxEdits, target, listed) : before <= m
  BY <1>2, <1>8, FirstIsFirst
<1>10. before \in Row /\ after \in Row /\ before \in Nat /\ after \in Nat
  BY <1>3, <1>7, BoundAssumption DEF ServingUpTo, Row
<1>11. listed[after] # Nothing
  <2>1. listed[before] # Nothing /\ models[after] # Nothing
    BY <1>3, <1>7 DEF ServingUpTo
  <2>2. listed[after] = Nothing => before < after
    BY <1>10, <2>1 DEF TInv, Kept, RowKept
  <2>. QED BY <1>7, <1>10, <2>2
<1>12. after \in ServingUpTo(MaxEdits, target, listed)
  BY <1>7, <1>10, <1>11 DEF TInv, Kept, RowKept, ServingUpTo
<1>. QED BY <1>7, <1>9, <1>10, <1>12

LEMMA StepSticky ==
  TInv /\ [Next]_vars => [\A name \in Name : MovesForAReason(name)]_vars
<1>. SUFFICES ASSUME TInv, Next, NEW name \in Name PROVE MovesForAReason(name)
  BY DEF MovesForAReason
<1>1. CASE UNCHANGED memory
  BY <1>1 DEF MovesForAReason, memory
<1>2. ASSUME NEW e \in Editor, Install(e) PROVE MovesForAReason(name)
  BY <1>2, InstallSticky
<1>3. ASSUME NEW e \in Editor, Edit(e) \/ ReadProviders(e) PROVE UNCHANGED memory
  BY <1>3 DEF Edit, Reset, WriteDefault, Undo, EditProvider, DeleteProvider, InsertModel,
              DeleteModel, Deactivate, ReadProviders
<1>. QED BY <1>1, <1>2, <1>3 DEF Next

(* No interleaving of edits and refreshes moves a name from one row to     *)
(* another unless its old row has gone or lost its mark, the default has   *)
(* changed or has begun to offer the name, or an explicit name has become  *)
(* an alias.                                                               *)
THEOREM StickyRoutes == Spec => RoutesAreSticky
BY TInvHolds, StepSticky, PTL DEF Spec, RoutesAreSticky
=============================================================================
