---------------------------- MODULE PluginsProofs ----------------------------
(***************************************************************************)
(* Type correctness of Plugins, and that what runs is what is stored, for  *)
(* any number of uploads, invocations and versions.                        *)
(***************************************************************************)
EXTENDS Plugins, TLAPS

(* An upload that has met no other is alone, what it has loaded is what    *)
(* runs, and what it has selected is what is stored.                       *)
AloneInv ==
  \A u \in Uploading \ meeting :
    /\ Uploading = {u}
    /\ code[u] \in Good => instance = code[u]
    /\ at[u] = "selected" => seen[u] = table

(* A version is listed before it is stored, and before it runs.            *)
ListedInv ==
  /\ Uploading # {} => Listed /\ ~ settled
  /\ ~ Listed => instance = NoVersion

(* A handler under way has a version in hand.                              *)
CodeInv == \A h \in Handler : at[h] # "idle" => code[h] \in Version

IInv == TypeOK /\ CodeInv /\ AloneInv /\ ListedInv /\ RunsWhatIsStored

(* The initial state: nothing is stored, nothing runs.                     *)
LEMMA InitIInv == Init => IInv
<1> SUFFICES ASSUME Init PROVE IInv
  OBVIOUS
<1>1. Uploading = {} /\ ~ Listed
  BY DEF Init, Handler, Uploading, Listed
<1>2. TypeOK /\ CodeInv
  BY <1>1, PluginsAssumption DEF Init, TypeOK, CodeInv, NotListed, Handler, Version
<1>3. AloneInv /\ ListedInv /\ RunsWhatIsStored
  BY <1>1 DEF Init, AloneInv, ListedInv, RunsWhatIsStored, Handler
<1>. QED BY <1>2, <1>3 DEF IInv

(* What a load leaves: the version is listed, and runs if it is good.      *)
LEMMA Loaded ==
  ASSUME NEW v \in Version, TypeOK, Load(v)
  PROVE  /\ Listed'
         /\ v \in Good => instance' = v
         /\ v \notin Good => instance' = instance
         /\ info' \in [version : Version, loaded : BOOLEAN]
         /\ instance' \in Good \cup {NoVersion}
         /\ info'.loaded => instance' = info'.version
<1>1. info' = [version |-> v, loaded |-> v \in Good] /\ (v \in Good) \in BOOLEAN
  BY DEF Load
<1>2. info'.version = v /\ (info'.loaded <=> v \in Good) /\ info' \in [version : Version, loaded : BOOLEAN]
  BY <1>1
<1>3. info' # NotListed
  <2>1. v # NoVersion
    BY PluginsAssumption
  <2>2. NotListed.version = NoVersion
    BY DEF NotListed
  <2>. QED BY <1>2, <2>1, <2>2
<1>4. (v \in Good => instance' = v) /\ (v \notin Good => instance' = instance) /\ instance' \in Good \cup {NoVersion}
  BY DEF Load, TypeOK
<1>. QED BY <1>2, <1>3, <1>4 DEF Listed

(* A handler that ends leaves the others as they are.                      *)
LEMMA Ends ==
  ASSUME NEW h \in Handler, TypeOK, End(h)
  PROVE  /\ at' \in [Handler -> {"idle", "loaded", "selected"}]
         /\ code' \in [Handler -> Version \cup {NoVersion}]
         /\ seen' \in [Handler -> Version \cup {NoVersion}]
         /\ at'[h] = "idle"
         /\ \A g \in Handler \ {h} : at'[g] = at[g] /\ code'[g] = code[g] /\ seen'[g] = seen[g]
         /\ Uploading' = Uploading \ {h}
BY DEF End, TypeOK, Uploading, Handler

(* Every step preserves the invariant.                                     *)
LEMMA Step == IInv /\ [Next]_vars => IInv'
<1> SUFFICES ASSUME IInv, [Next]_vars PROVE IInv'
  OBVIOUS
<1>0. Upload \subseteq Handler /\ Invocation \subseteq Handler /\ Uploading \subseteq Upload
  BY DEF Handler, Uploading
<1> USE DEF IInv
<1>1. ASSUME NEW u \in Upload, LoadUploaded(u) PROVE IInv'
  <2>1. PICK v \in Version : Load(v) /\ code' = [code EXCEPT ![u] = v]
    BY <1>1 DEF LoadUploaded
  <2>2. /\ Uploading' = Uploading \cup {u}
        /\ u \notin Uploading
    BY <1>0, <1>1 DEF LoadUploaded, Uploading, TypeOK
  <2>3. TypeOK'
    BY <1>0, <1>1, <2>1, <2>2, Loaded, PluginsAssumption DEF LoadUploaded, TypeOK
  <2>4. CodeInv'
    BY <1>0, <1>1, <2>1 DEF LoadUploaded, TypeOK, CodeInv
  <2>5. AloneInv'
    <3>1. CASE Uploading = {}
      BY <1>0, <1>1, <2>1, <2>2, <3>1, Loaded DEF LoadUploaded, AloneInv, TypeOK
    <3>2. CASE Uploading # {}
      BY <1>1, <2>2, <3>2 DEF LoadUploaded, AloneInv
    <3>. QED BY <3>1, <3>2
  <2>6. ListedInv' /\ RunsWhatIsStored'
    BY <1>1, <2>1, <2>2, Loaded DEF LoadUploaded, ListedInv, RunsWhatIsStored
  <2>. QED BY <2>3, <2>4, <2>5, <2>6
<1>2. ASSUME NEW u \in Upload, SelectRow(u) PROVE IInv'
  <2>1. Uploading' = Uploading /\ Listed' = Listed
    BY <1>0, <1>2 DEF SelectRow, Uploading, TypeOK, Listed, runtime
  <2>2. TypeOK' /\ CodeInv'
    BY <1>0, <1>2, <2>1 DEF SelectRow, TypeOK, CodeInv, runtime
  <2>3. AloneInv'
    BY <1>0, <1>2, <2>1 DEF SelectRow, TypeOK, AloneInv, runtime
  <2>4. ListedInv' /\ RunsWhatIsStored'
    <3>1. \A i \in Invocation : at'[i] = at[i]
      BY <1>0, <1>2, PluginsAssumption DEF SelectRow, TypeOK
    <3>. QED BY <1>2, <2>1, <3>1 DEF SelectRow, ListedInv, RunsWhatIsStored, runtime
  <2>. QED BY <2>2, <2>3, <2>4
<1>3. ASSUME NEW u \in Upload, CommitRow(u) PROVE IInv'
  <2>1. u \in Uploading /\ Uploading' = Uploading \ {u} /\ Listed /\ Listed'
    BY <1>0, <1>3, Ends DEF CommitRow, Uploading, ListedInv, Listed, runtime
  <2>2. TypeOK'
    BY <1>0, <1>3, <2>1, Ends DEF CommitRow, TypeOK, CodeInv, runtime
  <2>3. CodeInv'
    BY <1>0, <1>3, Ends DEF CommitRow, CodeInv
  <2>4. AloneInv' /\ (Uploading' # {} => ~ settled')
    BY <1>0, <1>3, <2>1 DEF CommitRow, AloneInv, Clean
  <2>5. ListedInv'
    BY <2>1, <2>4 DEF ListedInv
  <2>6. RunsWhatIsStored'
    <3>1. settled' => instance' = table' /\ table' \in Good
      BY <1>0, <1>3, <2>1 DEF CommitRow, AloneInv, Clean, runtime
    <3>. QED BY <2>1, <3>1 DEF RunsWhatIsStored
  <2>. QED BY <2>2, <2>3, <2>4, <2>5, <2>6
<1>4. ASSUME NEW u \in Upload, UploadFails(u) PROVE IInv'
  <2>1. u \in Uploading /\ Uploading' = Uploading \ {u} /\ Listed /\ Listed'
    BY <1>0, <1>4, Ends DEF UploadFails, Uploading, ListedInv, Listed, runtime
  <2>2. TypeOK' /\ CodeInv'
    BY <1>0, <1>4, <2>1, Ends DEF UploadFails, TypeOK, CodeInv, runtime
  <2>3. AloneInv'
    BY <1>0, <1>4, <2>1 DEF UploadFails, AloneInv
  <2>4. ListedInv' /\ RunsWhatIsStored'
    BY <1>4, <2>1 DEF UploadFails, ListedInv, RunsWhatIsStored, runtime
  <2>. QED BY <2>2, <2>3, <2>4
<1>5. ASSUME NEW i \in Invocation, SelectInvoked(i) PROVE IInv'
  <2>1. Uploading' = Uploading /\ Listed' = Listed /\ \A u \in Upload : at'[u] = at[u] /\ code'[u] = code[u]
    BY <1>0, <1>5, PluginsAssumption DEF SelectInvoked, Uploading, TypeOK, Listed, runtime
  <2>2. TypeOK' /\ CodeInv'
    BY <1>0, <1>5, <2>1 DEF SelectInvoked, TypeOK, CodeInv, runtime
  <2>3. AloneInv'
    BY <1>0, <1>5, <2>1 DEF SelectInvoked, AloneInv, runtime
  <2>4. ListedInv' /\ RunsWhatIsStored'
    BY <1>0, <1>5, <2>1 DEF SelectInvoked, TypeOK, ListedInv, RunsWhatIsStored, runtime
  <2>. QED BY <2>2, <2>3, <2>4
<1>6. ASSUME NEW i \in Invocation, Invoke(i) PROVE IInv'
  <2>1. Uploading' = Uploading /\ \A u \in Upload : at'[u] = at[u] /\ code'[u] = code[u] /\ seen'[u] = seen[u]
    BY <1>0, <1>6, Ends, PluginsAssumption DEF Invoke
  <2>2. CodeInv'
    BY <1>0, <1>6, Ends DEF Invoke, CodeInv
  <2>3. CASE Listed
    <3>1. Listed' /\ info' = info /\ instance' = instance
      BY <1>6, <2>3 DEF Invoke, Listed, runtime
    <3>2. TypeOK'
      BY <1>0, <1>6, <2>1, <3>1, Ends DEF Invoke, TypeOK
    <3>3. AloneInv'
      BY <1>0, <1>6, <2>1, <3>1 DEF Invoke, AloneInv
    <3>4. ListedInv' /\ RunsWhatIsStored'
      BY <1>6, <2>1, <2>3, <3>1 DEF Invoke, ListedInv, RunsWhatIsStored
    <3>. QED BY <2>2, <3>2, <3>3, <3>4
  <2>4. CASE ~ Listed
    <3>1. Load(code[i]) /\ code[i] \in Version /\ code[i] = table /\ instance = NoVersion /\ Uploading = {}
      BY <1>0, <1>6, <2>4 DEF Invoke, CodeInv, RunsWhatIsStored, ListedInv
    <3>2. TypeOK'
      BY <1>0, <1>6, <2>1, <3>1, Ends, Loaded DEF Invoke, TypeOK
    <3>3. table' = table /\ Listed' /\ instance' = (IF table \in Good THEN table ELSE NoVersion)
      <4>1. table' = table
        BY <1>6 DEF Invoke
      <4>2. Listed' /\ (code[i] \in Good => instance' = code[i]) /\ (code[i] \notin Good => instance' = instance)
        BY <3>1, Loaded
      <4>. QED BY <3>1, <4>1, <4>2
    <3>4. AloneInv' /\ ListedInv' /\ RunsWhatIsStored'
      BY <2>1, <3>1, <3>3 DEF AloneInv, ListedInv, RunsWhatIsStored
    <3>. QED BY <2>2, <3>2, <3>4
  <2>. QED BY <2>3, <2>4
<1>7. CASE Crash
  <2>1. DOMAIN at = Handler /\ DOMAIN code = Handler /\ DOMAIN seen = Handler
    BY DEF TypeOK
  <2>2. Uploading' = {} /\ ~ Listed'
    BY <1>0, <1>7, <2>1 DEF Crash, Uploading, Listed
  <2>3. TypeOK' /\ CodeInv'
    BY <1>7, <2>1, <2>2, PluginsAssumption DEF Crash, TypeOK, CodeInv, NotListed
  <2>4. AloneInv' /\ ListedInv' /\ RunsWhatIsStored'
    BY <1>0, <1>7, <2>1, <2>2 DEF Crash, AloneInv, ListedInv, RunsWhatIsStored
  <2>. QED BY <2>3, <2>4
<1>8. CASE UNCHANGED vars
  BY <1>8 DEF vars, runtime, handlers, TypeOK, CodeInv, AloneInv, ListedInv, RunsWhatIsStored, Uploading, Listed
<1>. QED BY <1>1, <1>2, <1>3, <1>4, <1>5, <1>6, <1>7, <1>8 DEF Next

(* The invariant, in every state.                                          *)
LEMMA Invariant == Spec => []IInv
BY InitIInv, Step, PTL DEF Spec

(* Type correctness, for any number of uploads, invocations and versions.  *)
THEOREM TypeCorrect == Spec => []TypeOK
<1>1. IInv => TypeOK
  BY DEF IInv
<1>. QED BY <1>1, Invariant, PTL

(* After an upload that ended normally, alone and with a good version, and *)
(* after a restart, what is invoked is what is stored.                     *)
THEOREM WhatIsStoredRuns == Spec => []RunsWhatIsStored
<1>1. IInv => RunsWhatIsStored
  BY DEF IInv
<1>. QED BY <1>1, Invariant, PTL
=============================================================================
