------------------------------ MODULE Routing ------------------------------
(***************************************************************************)
(* Which provider a requested model name is sent to: the alias map that    *)
(* ProviderManager._reload builds and ProviderManager.resolve               *)
(* (services/provider_manager.py), under administrators who edit providers *)
(* and models at the same time, over a database of SQLite's kind: the first*)
(* UPDATE of a transaction takes the write lock, and a SELECT returns rows *)
(* in the order of their insertion.  The number of the edit that inserted  *)
(* a row stands for its id and for its place in that order.                *)
(*                                                                         *)
(* A name is a plain alias or "provider/alias", written as a pair; aliases *)
(* of models may hold a slash themselves, as OpenRouter's do.  A refresh is*)
(* two steps here, the read of the providers and the rest: Registry has all*)
(* of its reads, failures and restarts.                                    *)
(***************************************************************************)
EXTENDS Naturals, FiniteSets, FiniteSetsExt

CONSTANTS
  Provider,   \* names of providers
  Plain,      \* aliases without a slash
  Mapping,    \* model_mapping of the key that asks: names to names or Nothing
  Editor,     \* administrative requests
  NoEditor,
  Nothing,
  MaxEdits,   \* bound on the number of edits
  MaxModels   \* bound on the number of models

Alias == Plain \cup (Provider \X Plain)
Name  == Alias \cup (Provider \X Alias)

Settings == [default : BOOLEAN, active : BOOLEAN]
Record   == [provider : Provider, alias : Alias, active : BOOLEAN]
Row      == 1 .. MaxEdits
NoRow    == 0

ASSUME NameAssumption ==
  /\ Plain \cap (Provider \X Plain) = {}
  /\ Mapping \in [Name -> Name \cup {Nothing}]
  /\ Nothing \notin Name \cup Settings \cup Record
ASSUME EditorAssumption == NoEditor \notin Editor
ASSUME BoundAssumption == MaxEdits \in Nat /\ MaxModels \in Nat

VARIABLES
  providers,  \* the committed rows
  models,     \* ... by their numbers
  writer,     \* the request whose transaction holds the write lock
  pc,         \* where each request stands
  intent,     \* the provider it is making the default, and its new settings
  reader,     \* the request that holds ProviderManager._lock
  half,       \* the providers its reload has read
  known,      \* _providers, a snapshot of the rows
  listed,     \* the model rows the maps were built from
  edits       \* edits so far

database == << providers, models >>
memory   == << known, listed >>
vars     == << database, writer, pc, intent, reader, half, memory, edits >>

Unique(ms) == \A m, n \in Row :
  /\ ms[m] # Nothing
  /\ ms[n] # Nothing
  /\ ms[m].provider = ms[n].provider
  /\ ms[m].alias = ms[n].alias
  => m = n

TypeOK ==
  /\ providers \in [Provider -> Settings \cup {Nothing}]
  /\ models \in [Row -> Record \cup {Nothing}]
  /\ Unique(models)
  /\ \A n \in Row : models[n] # Nothing => providers[models[n].provider] # Nothing
  /\ writer \in Editor \cup {NoEditor}
  /\ pc \in [Editor -> {"idle", "resetting", "committed", "reading"}]
  /\ intent \in [Editor -> (Provider \X Settings) \cup {Nothing}]
  /\ reader \in Editor \cup {NoEditor}
  /\ half \in [Provider -> Settings \cup {Nothing}]
  /\ known \in [Provider -> Settings \cup {Nothing}]
  /\ listed \in [Row -> Record \cup {Nothing}]
  /\ edits \in 0 .. MaxEdits

-----------------------------------------------------------------------------
(* The maps *)

(* _model_priority: lower wins.                                            *)
Priority(rec, ps) == IF ps[rec.provider] # Nothing /\ ps[rec.provider].default THEN 0 ELSE 1

(* Variant: the last of equal priority wins.                               *)
LastOfEqualsWins(n, old, ms, ps) ==
  old = NoRow \/ Priority(ms[n], ps) <= Priority(ms[old], ps)

(* The row takes over its alias from the one found before it.              *)
TakesOver(n, old, ms, ps) ==
  old = NoRow \/ Priority(ms[n], ps) < Priority(ms[old], ps)

(* ProviderManager._models: the loop over the rows.                        *)
AliasMap(ms, ps) ==
  LET map[n \in 0 .. MaxEdits] ==
        IF n = 0 THEN [alias \in Alias |-> NoRow]
        ELSE LET before == map[n - 1]
             IN  IF /\ ms[n] # Nothing
                    /\ ms[n].active
                    /\ TakesOver(n, before[ms[n].alias], ms, ps)
                   THEN [before EXCEPT ![ms[n].alias] = n]
                   ELSE before
  IN  map[MaxEdits]

-----------------------------------------------------------------------------
(* resolve *)

(* The key's mapping, applied once.                                        *)
Target(name) == IF Mapping[name] # Nothing THEN Mapping[name] ELSE name

(* The rows of _models_by_provider a name spells out.                      *)
Spelled(target, ms, ps) ==
  {n \in Row :
     /\ ms[n] # Nothing
     /\ ms[n].active
     /\ ps[ms[n].provider] # Nothing
     /\ target = << ms[n].provider, ms[n].alias >>}

Serves(n, ms, ps) == ps[ms[n].provider] # Nothing /\ ps[ms[n].provider].active

(* Variant: explicit names before aliases.                                 *)
ResolveExplicitFirst(name, ms, ps) ==
  LET target  == Target(name)
      spelled == Spelled(target, ms, ps)
      row     == IF target \in Alias THEN AliasMap(ms, ps)[target] ELSE NoRow
  IN  CASE spelled # {} -> Min(spelled)
        [] spelled = {} /\ row # NoRow -> IF Serves(row, ms, ps) THEN row ELSE NoRow
        [] OTHER -> NoRow

(* The row a request is sent to, or NoRow.  The row of an alias needs an   *)
(* active provider; an explicit name does not look at that.                *)
Resolve(name, ms, ps) ==
  LET target  == Target(name)
      row     == IF target \in Alias THEN AliasMap(ms, ps)[target] ELSE NoRow
      spelled == Spelled(target, ms, ps)
  IN  CASE row # NoRow -> IF Serves(row, ms, ps) THEN row ELSE NoRow
        [] row = NoRow /\ spelled # {} -> Min(spelled)
        [] OTHER -> NoRow

-----------------------------------------------------------------------------
(* Edits *)

Start(e, where) ==
  /\ pc[e] = "idle"
  /\ edits < MaxEdits
  /\ edits' = edits + 1
  /\ pc' = [pc EXCEPT ![e] = where]

(* insert_provider and update_provider with is_default: all rows are reset *)
(* first, in the transaction that then writes the row itself.              *)
Reset(e, p, active) ==
  /\ Start(e, "resetting")
  /\ writer = NoEditor
  /\ writer' = e
  /\ intent' = [intent EXCEPT ![e] = << p, [default |-> TRUE, active |-> active] >>]
  /\ UNCHANGED << database, reader, half, memory >>

(* Variant: the reset of the others is missing.                            *)
WriteDefaultOnly(e) ==
  /\ pc[e] = "resetting"
  /\ writer' = NoEditor
  /\ providers' = [providers EXCEPT ![intent[e][1]] = intent[e][2]]
  /\ intent' = [intent EXCEPT ![e] = Nothing]
  /\ pc' = [pc EXCEPT ![e] = "committed"]
  /\ UNCHANGED << models, reader, half, memory, edits >>

WriteDefault(e) ==
  /\ pc[e] = "resetting"
  /\ writer' = NoEditor
  /\ providers' = [p \in Provider |->
       IF p = intent[e][1] THEN intent[e][2]
       ELSE IF providers[p] = Nothing THEN Nothing
       ELSE [providers[p] EXCEPT !.default = FALSE]]
  /\ intent' = [intent EXCEPT ![e] = Nothing]
  /\ pc' = [pc EXCEPT ![e] = "committed"]
  /\ UNCHANGED << models, reader, half, memory, edits >>

(* The name is taken: the whole transaction is undone.                     *)
Undo(e) ==
  /\ pc[e] = "resetting"
  /\ writer' = NoEditor
  /\ intent' = [intent EXCEPT ![e] = Nothing]
  /\ pc' = [pc EXCEPT ![e] = "idle"]
  /\ UNCHANGED << database, reader, half, memory, edits >>

(* Any other edit of a provider is one commit.                             *)
EditProvider(e, p, settings) ==
  /\ Start(e, "committed")
  /\ writer = NoEditor
  /\ ~ settings.default \/ (providers[p] # Nothing /\ providers[p].default)
  /\ providers' = [providers EXCEPT ![p] = settings]
  /\ UNCHANGED << models, writer, intent, reader, half, memory >>

(* The models go with their provider.                                      *)
DeleteProvider(e, p) ==
  /\ Start(e, "committed")
  /\ writer = NoEditor
  /\ providers[p] # Nothing
  /\ providers' = [providers EXCEPT ![p] = Nothing]
  /\ models' = [n \in Row |->
       IF models[n] # Nothing /\ models[n].provider = p THEN Nothing ELSE models[n]]
  /\ UNCHANGED << writer, intent, reader, half, memory >>

Inserted(p, alias, active) ==
  [models EXCEPT ![edits + 1] = [provider |-> p, alias |-> alias, active |-> active]]

(* Variant: no unique constraint.                                          *)
InsertUnchecked(e, p, alias, active) ==
  /\ Start(e, "committed")
  /\ writer = NoEditor
  /\ Cardinality({n \in Row : models[n] # Nothing}) < MaxModels
  /\ providers[p] # Nothing
  /\ models' = Inserted(p, alias, active)
  /\ UNCHANGED << providers, writer, intent, reader, half, memory >>

(* A second row for provider and alias violates the table's constraint.    *)
InsertModel(e, p, alias, active) ==
  /\ Start(e, "committed")
  /\ writer = NoEditor
  /\ Cardinality({n \in Row : models[n] # Nothing}) < MaxModels
  /\ providers[p] # Nothing
  /\ Unique(Inserted(p, alias, active))
  /\ models' = Inserted(p, alias, active)
  /\ UNCHANGED << providers, writer, intent, reader, half, memory >>

DeleteModel(e, n) ==
  /\ Start(e, "committed")
  /\ writer = NoEditor
  /\ models[n] # Nothing
  /\ models' = [models EXCEPT ![n] = Nothing]
  /\ UNCHANGED << providers, writer, intent, reader, half, memory >>

(* The cleanup's doing.                                                    *)
Deactivate(e, n) ==
  /\ Start(e, "committed")
  /\ writer = NoEditor
  /\ models[n] # Nothing
  /\ models' = [models EXCEPT ![n].active = FALSE]
  /\ UNCHANGED << providers, writer, intent, reader, half, memory >>

-----------------------------------------------------------------------------
(* refresh *)

ReadProviders(e) ==
  /\ pc[e] = "committed"
  /\ reader = NoEditor
  /\ reader' = e
  /\ half' = providers
  /\ pc' = [pc EXCEPT ![e] = "reading"]
  /\ UNCHANGED << database, writer, intent, memory, edits >>

(* The models are read, and the maps replaced.                             *)
Install(e) ==
  /\ pc[e] = "reading"
  /\ known' = half
  /\ listed' = models
  /\ reader' = NoEditor
  /\ half' = [p \in Provider |-> Nothing]
  /\ pc' = [pc EXCEPT ![e] = "idle"]
  /\ UNCHANGED << database, writer, intent, edits >>

Init ==
  /\ providers = [p \in Provider |-> Nothing]
  /\ models = [n \in Row |-> Nothing]
  /\ writer = NoEditor
  /\ pc = [e \in Editor |-> "idle"]
  /\ intent = [e \in Editor |-> Nothing]
  /\ reader = NoEditor
  /\ half = [p \in Provider |-> Nothing]
  /\ known = providers
  /\ listed = models
  /\ edits = 0

Edit(e) ==
  \/ \E p \in Provider, active \in BOOLEAN : Reset(e, p, active)
  \/ WriteDefault(e)
  \/ Undo(e)
  \/ \E p \in Provider, settings \in Settings : EditProvider(e, p, settings)
  \/ \E p \in Provider : DeleteProvider(e, p)
  \/ \E p \in Provider, alias \in Alias, active \in BOOLEAN : InsertModel(e, p, alias, active)
  \/ \E n \in Row : DeleteModel(e, n) \/ Deactivate(e, n)

Next == \E e \in Editor : Edit(e) \/ ReadProviders(e) \/ Install(e)

Spec == Init /\ [][Next]_vars

-----------------------------------------------------------------------------
(* Properties *)

(* However edits interleave, at most one provider is the default.          *)
AtMostOneDefault ==
  Cardinality({p \in Provider : providers[p] # Nothing /\ providers[p].default}) <= 1

Serving(alias) ==
  {n \in Row : listed[n] # Nothing /\ listed[n].active /\ listed[n].alias = alias}

Favoured(alias) ==
  {n \in Serving(alias) : known[listed[n].provider] # Nothing /\ known[listed[n].provider].default}

(* The row an alias belongs to, without a loop: the first active one of    *)
(* the default provider, or else the first active one.                     *)
Owner(alias) == Min(IF Favoured(alias) # {} THEN Favoured(alias) ELSE Serving(alias))

(* docs/provider-setup.md:63, "`resolve()` returns the first active match  *)
(* (default provider wins)": also between the commits of an edit and their *)
(* refresh, when the providers are older than the models.                  *)
RoutesAsDocumented ==
  \A name \in Name :
    LET target == Target(name)
        found  == Resolve(name, listed, known)
    IN  found # NoRow =>
          \/ /\ target \in Alias
             /\ Serving(target) # {}
             /\ found = Owner(target)
             /\ known[listed[found].provider].active
          \/ /\ target = << listed[found].provider, listed[found].alias >>
             /\ listed[found].active
             /\ target \in Alias => Serving(target) = {}

(* Why a name may move from one row to another.                            *)
MovesForAReason(name) ==
  LET before == Resolve(name, listed, known)
      after  == Resolve(name, listed', known')
  IN  before # NoRow /\ after # NoRow /\ after # before =>
        \/ listed'[before] # listed[before]
        \/ \E p \in Provider :
             LET was == known[p] # Nothing /\ known[p].default
                 is  == known'[p] # Nothing /\ known'[p].default
             IN  was # is
        \/ known'[listed'[after].provider].default
        \/ Target(name) = << listed[before].provider, listed[before].alias >>

(* A refresh moves no name from one row to another behind its users' back: *)
(* it moves because its old row is gone or inactive, because the default   *)
(* has changed or has begun to offer the name, or because an explicit name *)
(* has become an alias.                                                    *)
RoutesAreSticky == [][\A name \in Name : MovesForAReason(name)]_vars
=============================================================================
