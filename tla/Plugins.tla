------------------------------ MODULE Plugins ------------------------------
(***************************************************************************)
(* One plugin in its two places: the row of the plugins table and the      *)
(* process's WasmtimeRuntime (services/plugin_manager.py), with the upload *)
(* and the invocation of api/v1/admin_routes.py.                           *)
(*                                                                         *)
(* A step runs from one await that may suspend to the next; load and       *)
(* invoke of the runtime never do.  An upload loads first, then selects    *)
(* the row, then commits.  The contents of a module are its version; a     *)
(* version may be one that wasmtime cannot instantiate.  The signature is  *)
(* checked and the verdict shown, but nothing depends on it.  Without      *)
(* wasmtime nothing ever runs (NoopRuntime), which leaves nothing to       *)
(* relate.                                                                 *)
(***************************************************************************)
EXTENDS Naturals, FiniteSets

CONSTANTS
  Upload, Invocation,   \* concurrent handlers
  Good, Bad,            \* the versions that can be instantiated, and those that cannot
  NoVersion,
  MaxUploads, MaxCrashes

Version == Good \cup Bad

ASSUME PluginsAssumption ==
  /\ Upload \cap Invocation = {}
  /\ Good \cap Bad = {} /\ NoVersion \notin Version
  /\ {MaxUploads, MaxCrashes} \subseteq Nat

VARIABLES
  table,     \* the version in the row
  info,      \* the runtime's entry: the version loaded last, and whether it could be
  instance,  \* the version whose instance an invocation calls
  at,        \* where each handler stands
  code,      \* the version of an upload, or of the row an invocation has selected
  seen,      \* the version an upload has selected
  uploads, crashes,
  \* history
  meeting,   \* uploads that met another
  settled    \* the last upload ended normally, alone and with a good version

runtime == << info, instance >>
handlers == << at, code, seen >>
vars == << table, runtime, handlers, uploads, crashes, meeting, settled >>

NotListed == [version |-> NoVersion, loaded |-> FALSE]

Uploading == {u \in Upload : at[u] # "idle"}

(* Variants: a failure is not recorded; a name that is listed is not loaded*)
(* again.                                                                  *)
LoadUnchecked(v) ==
  /\ info' = [version |-> v, loaded |-> TRUE]
  /\ instance' = IF v \in Good THEN v ELSE instance
LoadOnce(v) ==
  /\ info' = [version |-> v, loaded |-> v \in Good]
  /\ instance' = IF v \in Good /\ instance = NoVersion THEN v ELSE instance

(* A module that fails to load leaves the instance of the one before it.   *)
Load(v) ==
  /\ info' = [version |-> v, loaded |-> v \in Good]
  /\ instance' = IF v \in Good THEN v ELSE instance

End(h) ==
  /\ at' = [at EXCEPT ![h] = "idle"]
  /\ code' = [code EXCEPT ![h] = NoVersion]
  /\ seen' = [seen EXCEPT ![h] = NoVersion]

LoadUploaded(u) ==
  /\ at[u] = "idle" /\ uploads < MaxUploads
  /\ uploads' = uploads + 1
  /\ at' = [at EXCEPT ![u] = "loaded"]
  /\ \E v \in Version : Load(v) /\ code' = [code EXCEPT ![u] = v]
  /\ meeting' = IF Uploading = {} THEN meeting ELSE meeting \cup Uploading \cup {u}
  /\ settled' = FALSE
  /\ UNCHANGED << table, seen, crashes >>

SelectRow(u) ==
  /\ at[u] = "loaded"
  /\ at' = [at EXCEPT ![u] = "selected"]
  /\ seen' = [seen EXCEPT ![u] = table]
  /\ UNCHANGED << table, runtime, code, uploads, crashes, meeting, settled >>

(* Insert, or update of what differs from the selected row.  The insert    *)
(* fails if another upload has inserted the name.                          *)
Conflict(u) == seen[u] = NoVersion /\ table # NoVersion

Clean(u) == u \notin meeting /\ code[u] \in Good

CommitRow(u) ==
  /\ at[u] = "selected" /\ ~ Conflict(u)
  /\ table' = IF code[u] # seen[u] THEN code[u] ELSE table
  /\ settled' = Clean(u)
  /\ meeting' = meeting \ {u}
  /\ End(u)
  /\ UNCHANGED << runtime, uploads, crashes >>

(* The conflict, a lock, any error of the database.                        *)
UploadFails(u) ==
  /\ at[u] \in {"loaded", "selected"}
  /\ meeting' = meeting \ {u}
  /\ End(u)
  /\ UNCHANGED << table, runtime, uploads, crashes, settled >>

SelectInvoked(i) ==
  /\ at[i] = "idle" /\ table # NoVersion
  /\ at' = [at EXCEPT ![i] = "selected"]
  /\ code' = [code EXCEPT ![i] = table]
  /\ UNCHANGED << table, runtime, seen, uploads, crashes, meeting, settled >>

(* The runtime knows the name, whether it could be loaded or not.          *)
Listed == info # NotListed

Invoke(i) ==
  /\ at[i] = "selected"
  /\ IF Listed THEN UNCHANGED runtime ELSE Load(code[i])
  /\ End(i)
  /\ UNCHANGED << table, uploads, crashes, meeting, settled >>

Crash ==
  /\ crashes < MaxCrashes
  /\ crashes' = crashes + 1
  /\ info' = NotListed /\ instance' = NoVersion
  /\ at' = [h \in DOMAIN at |-> "idle"]
  /\ code' = [h \in DOMAIN code |-> NoVersion] /\ seen' = [h \in DOMAIN seen |-> NoVersion]
  /\ meeting' = {} /\ settled' = TRUE
  /\ UNCHANGED << table, uploads >>

Handler == Upload \cup Invocation

Init ==
  /\ table = NoVersion /\ info = NotListed /\ instance = NoVersion
  /\ at = [h \in Handler |-> "idle"]
  /\ code = [h \in Handler |-> NoVersion] /\ seen = [h \in Handler |-> NoVersion]
  /\ uploads = 0 /\ crashes = 0 /\ meeting = {} /\ settled = TRUE

Next ==
  \/ \E u \in Upload : LoadUploaded(u) \/ SelectRow(u) \/ CommitRow(u) \/ UploadFails(u)
  \/ \E i \in Invocation : SelectInvoked(i) \/ Invoke(i)
  \/ Crash

Spec == Init /\ [][Next]_vars

----------------------------------------------------------------------------
(* Properties.                                                             *)

(* Types; and what the runtime holds was loaded into it: an entry that     *)
(* says loaded has its instance (plugin_manager.py 93-110).                *)
TypeOK ==
  /\ table \in Version \cup {NoVersion} /\ instance \in Good \cup {NoVersion}
  /\ info = NotListed \/ info \in [version : Version, loaded : BOOLEAN]
  /\ info.loaded => instance = info.version
  /\ at \in [Handler -> {"idle", "loaded", "selected"}]
  /\ code \in [Handler -> Version \cup {NoVersion}] /\ seen \in [Handler -> Version \cup {NoVersion}]
  /\ uploads \in 0 .. MaxUploads /\ crashes \in 0 .. MaxCrashes
  /\ meeting \subseteq Uploading

(* plugin_manager.py 3: the table is the single source of truth.  After an *)
(* upload that ended normally, met no other and brought a good version,    *)
(* and after a restart, an invocation calls what is stored - until the     *)
(* next upload begins, which loads what it has yet to store.  And whatever *)
(* uploads are under way, an invocation that has to load the plugin first  *)
(* (admin_routes.py 593-595) loads what is stored at that moment, not an   *)
(* older row it selected before it waited: none is stored before it is     *)
(* listed.                                                                 *)
RunsWhatIsStored ==
  /\ settled /\ Uploading = {} /\ Listed => instance = (IF table \in Good THEN table ELSE NoVersion)
  /\ \A i \in Invocation : at[i] = "selected" /\ ~ Listed => code[i] = table
=============================================================================
