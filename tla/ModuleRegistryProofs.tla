-------------------------- MODULE ModuleRegistryProofs --------------------------
(***************************************************************************)
(* Proofs about ModuleRegistry for every set of processes, files and       *)
(* versions: a name selects a whole import or nothing, a source lease      *)
(* keeps the module as it is, and a generation's copy is one version.      *)
(*                                                                         *)
(* They rest on the registry lock, which ties what a preparation has       *)
(* copied so far to the module it is still copying.                        *)
(***************************************************************************)
EXTENDS ModuleRegistry, TLAPS

\* The calls under the registry lock, and no others, hold it.
LocksHeld ==
    \A p \in Procs :
        /\ writer = p <=> pc[p] \in {"requireAbsent", "rename", "unlockCommit",
                                     "detach", "unlockRemove"}
        /\ p \in readers <=> pc[p] \in {"validate", "copy", "closeSources"}

\* An import copies one version, and has it whole before it asks for the
\* lock.
ImportsWhole ==
    \A p \in Procs :
        /\ pc[p] \in {"checkAbsent", "stage", "lockCommit", "requireAbsent", "rename"}
            => source[p] \in Versions
        /\ pc[p] \in {"lockCommit", "requireAbsent", "rename"}
            => staging[p] = Whole(source[p])

\* Under its lease a preparation copies a module that is there, and what it
\* has copied is the module's.
CopiesAgree ==
    \A p \in Procs :
        /\ pc[p] \notin {"copy", "closeSources", "copied"} => copy[p] = Absent
        /\ pc[p] \in {"copy", "closeSources"} =>
            /\ module # Absent
            /\ \A f \in Files : copy[p][f] \in {None, module[f]}
        /\ pc[p] = "closeSources" => copy[p] = module

IInv ==
    /\ TypeOK
    /\ LocksHeld
    /\ ImportsWhole
    /\ CopiesAgree
    /\ PublishedWhole
    /\ SnapshotWhole

-----------------------------------------------------------------------------

\* Contents that agree file by file are the same.
LEMMA SameContents ==
    ASSUME NEW c \in Contents, NEW d \in Contents, \A f \in Files : c[f] = d[f]
    PROVE  c = d
BY DEF Contents

LEMMA TreesAreContents ==
    /\ Absent \in Contents
    /\ \A v \in Versions : Whole(v) \in Contents
BY DEF Absent, Whole, Contents

LEMMA InitIInv == Init => IInv
<1> SUFFICES ASSUME Init
             PROVE  IInv
  OBVIOUS
<1> USE NoneAssumption, TreesAreContents DEF Init
<1>1. TypeOK
  BY DEF TypeOK, Labels
<1>2. LocksHeld /\ ImportsWhole /\ CopiesAgree
  BY DEF LocksHeld, ImportsWhole, CopiesAgree
<1>3. PublishedWhole /\ SnapshotWhole
  BY DEF PublishedWhole, SnapshotWhole
<1> QED BY <1>1, <1>2, <1>3 DEF IInv

\* A process that ends leaves the module as it is and takes only what was
\* its own.
LEMMA EndKeeps ==
    ASSUME NEW p \in Procs, IInv, End(p)
    PROVE  IInv'
<1> USE NoneAssumption, TreesAreContents DEF IInv, End, Goto
<1>1. TypeOK'
  BY DEF TypeOK, Labels
<1>2. LocksHeld'
  BY DEF TypeOK, LocksHeld
<1>3. ImportsWhole'
  BY DEF TypeOK, ImportsWhole
<1>4. CopiesAgree'
  BY DEF TypeOK, CopiesAgree
<1>5. PublishedWhole' /\ SnapshotWhole'
  BY DEF TypeOK, PublishedWhole, SnapshotWhole
<1> QED BY <1>1, <1>2, <1>3, <1>4, <1>5

\* A process goes on to a call that needs no more than the last one.
LEMMA GotoKeeps ==
    ASSUME NEW p \in Procs, NEW l \in Labels, IInv, Goto(p, l), UNCHANGED trees,
           writer' \in Procs \union {None}, readers' \subseteq Procs,
           writer' # None => readers' = {}, LocksHeld',
           l \in {"checkAbsent", "stage"} => source[p] \in Versions,
           l \in {"lockCommit", "requireAbsent", "rename"} =>
                source[p] \in Versions /\ staging[p] = Whole(source[p]),
           l \in {"copy", "closeSources"} =>
                module # Absent /\ \A f \in Files : copy[p][f] \in {None, module[f]},
           l = "closeSources" => copy[p] = module,
           l \notin {"copy", "closeSources", "copied"} => copy[p] = Absent,
           l \in {"closeSources", "copied"} => \E v \in Versions : copy[p] = Whole(v)
    PROVE  IInv'
<1> USE DEF IInv, Goto, trees
<1>1. TypeOK'
  BY DEF TypeOK
<1>2. ImportsWhole'
  BY DEF TypeOK, ImportsWhole
<1>3. CopiesAgree'
  BY DEF TypeOK, CopiesAgree
<1>4. PublishedWhole' /\ SnapshotWhole'
  BY DEF TypeOK, PublishedWhole, SnapshotWhole
<1> QED BY <1>1, <1>2, <1>3, <1>4

-----------------------------------------------------------------------------
(* The registry lock                                                       *)

LEMMA LockExclusiveHeld ==
    ASSUME NEW p \in Procs, NEW l \in {"requireAbsent", "detach"}, IInv,
           Waiting(p), LockExclusive(p, l)
    PROVE  writer' \in Procs /\ readers' = {} /\ LocksHeld'
BY NoneAssumption DEF IInv, TypeOK, LocksHeld, LockExclusive, Waiting, Goto

LEMMA UnlockHeld ==
    ASSUME NEW p \in Procs, NEW l \in {"removeStaging", "copied"}, IInv, Unlock(p, l)
    PROVE  /\ writer' \in Procs \union {None} /\ readers' \subseteq Procs
           /\ writer' # None => readers' = {}
           /\ LocksHeld'
BY NoneAssumption DEF IInv, TypeOK, LocksHeld, Unlock, Goto

LEMMA LockExclusiveKeeps ==
    ASSUME NEW p \in Procs, IInv, LockCommit(p) \/ LockRemove(p)
    PROVE  IInv'
<1>1. CASE LockCommit(p)
  <2>1. source[p] \in Versions /\ staging[p] = Whole(source[p]) /\ copy[p] = Absent
    BY <1>1 DEF LockCommit, At, IInv, ImportsWhole, CopiesAgree
  <2>2. LockExclusive(p, "requireAbsent") /\ Waiting(p)
    BY <1>1 DEF LockCommit, At, Waiting
  <2>3. writer' \in Procs /\ readers' = {} /\ LocksHeld'
    BY <2>2, LockExclusiveHeld
  <2> QED BY <2>1, <2>2, <2>3, GotoKeeps DEF LockExclusive, Labels
<1>2. CASE LockRemove(p)
  <2>1. copy[p] = Absent
    BY <1>2 DEF LockRemove, At, IInv, CopiesAgree
  <2>2. LockExclusive(p, "detach") /\ Waiting(p)
    BY <1>2 DEF LockRemove, At, Waiting
  <2>3. writer' \in Procs /\ readers' = {} /\ LocksHeld'
    BY <2>2, LockExclusiveHeld
  <2> QED BY <2>1, <2>2, <2>3, GotoKeeps DEF LockExclusive, Labels
<1> QED BY <1>1, <1>2

LEMMA LockSourcesKeeps ==
    ASSUME NEW p \in Procs, IInv, LockSources(p)
    PROVE  IInv'
<1>1. copy[p] = Absent /\ Goto(p, "validate") /\ UNCHANGED trees
  BY DEF LockSources, LockShared, At, IInv, CopiesAgree
<1>2. writer' = None /\ readers' \subseteq Procs /\ LocksHeld'
  BY NoneAssumption DEF LockSources, LockShared, At, Goto, IInv, TypeOK, LocksHeld
<1> QED BY <1>1, <1>2, GotoKeeps DEF Labels

LEMMA UnlockKeeps ==
    ASSUME NEW p \in Procs, IInv,
           UnlockCommit(p) \/ UnlockRemove(p) \/ CloseSources(p)
    PROVE  IInv'
<1>1. CASE UnlockCommit(p) \/ UnlockRemove(p)
  <2>1. copy[p] = Absent /\ Unlock(p, "removeStaging")
    BY <1>1 DEF UnlockCommit, UnlockRemove, At, IInv, CopiesAgree
  <2> QED BY <2>1, UnlockHeld, GotoKeeps DEF Unlock, Labels
<1>2. CASE CloseSources(p)
  <2>1. Unlock(p, "copied") /\ \E v \in Versions : copy[p] = Whole(v)
    BY <1>2 DEF CloseSources, At, IInv, SnapshotWhole
  <2> QED BY <2>1, UnlockHeld, GotoKeeps DEF Unlock, Labels
<1> QED BY <1>1, <1>2

\* Calls that leave the lock alone.
LEMMA LocksStay ==
    ASSUME NEW p \in Procs, NEW l \in Labels, IInv, Goto(p, l), UNCHANGED lock,
           pc[p] \in {"requireAbsent", "rename", "unlockCommit", "detach", "unlockRemove"}
             <=> l \in {"requireAbsent", "rename", "unlockCommit", "detach", "unlockRemove"},
           pc[p] \in {"validate", "copy", "closeSources"}
             <=> l \in {"validate", "copy", "closeSources"}
    PROVE  /\ writer' \in Procs \union {None} /\ readers' \subseteq Procs
           /\ writer' # None => readers' = {}
           /\ LocksHeld'
BY DEF IInv, TypeOK, LocksHeld, Goto, lock

-----------------------------------------------------------------------------
(* Registry.Add and Registry.Remove                                        *)

LEMMA BeginKeeps ==
    ASSUME NEW p \in Procs, IInv, BeginAdd(p) \/ BeginRemove(p) \/ BeginSources(p)
    PROVE  IInv'
<1> USE DEF IInv, BeginAdd, BeginRemove, BeginSources, At, Goto, lock, trees
<1>1. TypeOK'
  BY DEF TypeOK, Labels
<1>2. LocksHeld'
  BY DEF TypeOK, LocksHeld
<1>3. ImportsWhole'
  BY DEF TypeOK, ImportsWhole
<1>4. CopiesAgree'
  BY DEF TypeOK, CopiesAgree
<1>5. PublishedWhole' /\ SnapshotWhole'
  BY DEF TypeOK, PublishedWhole, SnapshotWhole
<1> QED BY <1>1, <1>2, <1>3, <1>4, <1>5

LEMMA CheckAbsentKeeps ==
    ASSUME NEW p \in Procs, IInv, CheckAbsent(p) \/ RequireAbsent(p)
    PROVE  IInv'
<1>1. PICK l \in {"stage", "rename", "unlockCommit"} :
        /\ Goto(p, l)
        /\ l = "stage" => pc[p] = "checkAbsent"
        /\ l # "stage" => pc[p] = "requireAbsent"
  BY DEF CheckAbsent, RequireAbsent, At
<1>2. /\ source[p] \in Versions /\ copy[p] = Absent
      /\ l # "stage" => staging[p] = Whole(source[p])
  BY <1>1 DEF IInv, ImportsWhole, CopiesAgree
<1>3. UNCHANGED <<lock, trees>>
  BY DEF CheckAbsent, RequireAbsent
<1> QED BY <1>1, <1>2, <1>3, LocksStay, GotoKeeps DEF Labels

LEMMA StageKeeps ==
    ASSUME NEW p \in Procs, IInv, Stage(p)
    PROVE  IInv'
<1>1. source[p] \in Versions /\ copy[p] = Absent
  BY DEF Stage, At, IInv, ImportsWhole, CopiesAgree
<1>2. PICK l \in {"stage", "lockCommit", "removeStaging"} :
          Goto(p, l) /\ (l = "lockCommit" =>
            staging[p] = Whole(source[p]) /\ staging' = staging)
  BY DEF Stage
<1>3. \E c \in Contents : staging' = [staging EXCEPT ![p] = c]
  <2>1. staging \in [Procs -> Contents]
    BY DEF IInv, TypeOK
  <2>2. ASSUME NEW f \in Files, staging' = [staging EXCEPT ![p][f] = source[p]]
        PROVE  \E c \in Contents : staging' = [staging EXCEPT ![p] = c]
    <3>1. [staging[p] EXCEPT ![f] = source[p]] \in Contents
      BY <1>1, <2>1 DEF Contents
    <3> QED BY <2>2, <3>1
  <2>3. CASE staging' = staging
    BY <2>1, <2>3
  <2>4. CASE staging' = [staging EXCEPT ![p] = Absent]
    BY <2>4, TreesAreContents
  <2> QED BY <2>2, <2>3, <2>4 DEF Stage
<1> USE DEF IInv, Goto
<1>4. pc[p] = "stage" /\ UNCHANGED <<lock, module, source, copy>>
  BY DEF Stage, At
<1>5. TypeOK'
  BY <1>2, <1>3, <1>4 DEF TypeOK, Labels, lock
<1>6. LocksHeld'
  BY <1>2, <1>4 DEF TypeOK, LocksHeld, lock
<1>7. ImportsWhole'
  BY <1>1, <1>2, <1>3, <1>4 DEF TypeOK, ImportsWhole
<1>8. CopiesAgree'
  BY <1>1, <1>2, <1>4 DEF TypeOK, CopiesAgree
<1>9. PublishedWhole' /\ SnapshotWhole'
  BY <1>2, <1>4 DEF TypeOK, PublishedWhole, SnapshotWhole
<1> QED BY <1>5, <1>6, <1>7, <1>8, <1>9

\* The module changes only under the exclusive lock, with nobody copying it.
LEMMA ReplaceKeeps ==
    ASSUME NEW p \in Procs, IInv, Rename(p) \/ Detach(p)
    PROVE  IInv'
<1> USE DEF IInv, Goto
<1>1. PICK l \in {"unlockCommit", "unlockRemove"}, c \in Contents :
        /\ pc' = [pc EXCEPT ![p] = l]
        /\ staging' = [staging EXCEPT ![p] = c]
  <2>1. staging \in [Procs -> Contents] /\ module \in Contents
    BY DEF TypeOK
  <2>2. staging' = [staging EXCEPT ![p] = staging[p]] \/
        staging' = [staging EXCEPT ![p] = Absent] \/
        staging' = [staging EXCEPT ![p] = module]
    BY <2>1 DEF Rename, Detach
  <2>3. Goto(p, "unlockCommit") \/ Goto(p, "unlockRemove")
    BY DEF Rename, Detach
  <2> QED BY <2>1, <2>2, <2>3, TreesAreContents
<1>2. module' = module \/ module' = Absent \/ \E v \in Versions : module' = Whole(v)
  BY DEF Rename, Detach, At, ImportsWhole
<1>3. /\ pc[p] \in {"rename", "detach"} /\ writer = p /\ readers = {}
      /\ UNCHANGED <<lock, source, copy>>
  BY NoneAssumption DEF Rename, Detach, At, LocksHeld, TypeOK
<1>4. TypeOK'
  BY <1>1, <1>2, <1>3, TreesAreContents DEF TypeOK, Labels, lock
<1>5. LocksHeld'
  BY <1>1, <1>3 DEF TypeOK, LocksHeld, lock
<1>6. ImportsWhole'
  BY <1>1, <1>3 DEF TypeOK, ImportsWhole
<1>7. CopiesAgree'
  BY <1>1, <1>3 DEF TypeOK, LocksHeld, CopiesAgree
<1>8. PublishedWhole' /\ SnapshotWhole'
  BY <1>1, <1>2, <1>3 DEF TypeOK, PublishedWhole, SnapshotWhole
<1> QED BY <1>4, <1>5, <1>6, <1>7, <1>8

LEMMA GiveUpKeeps ==
    ASSUME NEW p \in Procs, IInv, GiveUp(p)
    PROVE  IInv'
<1>1. CASE At(p, "lockCommit")
  <2>1. Goto(p, "removeStaging") /\ UNCHANGED <<lock, trees>> /\ copy[p] = Absent
    BY <1>1 DEF GiveUp, At, IInv, CopiesAgree
  <2> QED BY <1>1, <2>1, LocksStay, GotoKeeps DEF Labels, At
<1>2. CASE ~At(p, "lockCommit")
  BY <1>2, EndKeeps DEF GiveUp
<1> QED BY <1>1, <1>2

-----------------------------------------------------------------------------
(* Registry.Sources and the copy                                           *)

LEMMA ValidateKeeps ==
    ASSUME NEW p \in Procs, IInv, Validate(p)
    PROVE  IInv'
<1>1. CASE module # Absent /\ Goto(p, "copy") /\ UNCHANGED <<lock, trees>>
  <2>1. pc[p] = "validate" /\ copy[p] = Absent
    BY DEF Validate, At, IInv, CopiesAgree
  <2>2. \A f \in Files : copy[p][f] = None
    BY <2>1 DEF Absent
  <2> QED BY <1>1, <2>1, <2>2, LocksStay, GotoKeeps DEF Labels
<1> QED BY <1>1, EndKeeps DEF Validate

\* When every file is there, the copy is the module, which is one version.
LEMMA CopyFileKeeps ==
    ASSUME NEW p \in Procs, IInv, CopyFile(p)
    PROVE  IInv'
<1>1. /\ pc[p] = "copy" /\ module # Absent
      /\ \A f \in Files : copy[p][f] \in {None, module[f]}
  BY DEF CopyFile, At, IInv, CopiesAgree
<1>2. ASSUME NEW f \in Files, module[f] # None,
             copy' = [copy EXCEPT ![p][f] = module[f]],
             Goto(p, "copy"), UNCHANGED <<lock, module, staging, source>>
      PROVE  IInv'
  <2> USE <1>1, <1>2 DEF IInv, Goto
  <2>1. copy \in [Procs -> Contents] /\ module \in Contents
    BY DEF TypeOK
  <2>2. PICK c \in Contents : /\ copy' = [copy EXCEPT ![p] = c]
                              /\ \A g \in Files : c[g] \in {None, module[g]}
    <3>1. [copy[p] EXCEPT ![f] = module[f]] \in Contents
      BY <2>1 DEF Contents
    <3>2. \A g \in Files : [copy[p] EXCEPT ![f] = module[f]][g] \in {None, module[g]}
      BY <2>1 DEF Contents
    <3> QED BY <3>1, <3>2
  <2>3. TypeOK'
    BY <2>2 DEF TypeOK, Labels, lock
  <2>4. LocksHeld'
    BY DEF TypeOK, LocksHeld, lock
  <2>5. ImportsWhole'
    BY DEF TypeOK, ImportsWhole
  <2>6. CopiesAgree'
    BY <2>2 DEF TypeOK, CopiesAgree
  <2>7. PublishedWhole' /\ SnapshotWhole'
    BY <2>2 DEF TypeOK, PublishedWhole, SnapshotWhole
  <2> QED BY <2>3, <2>4, <2>5, <2>6, <2>7
<1>3. CASE /\ \A f \in Files : copy[p][f] # None
           /\ Goto(p, "closeSources")
           /\ UNCHANGED <<lock, trees>>
  <2>1. copy[p] = module
    BY <1>1, <1>3, SameContents DEF IInv, TypeOK
  <2>2. \E v \in Versions : copy[p] = Whole(v)
    BY <1>1, <2>1 DEF IInv, PublishedWhole
  <2> QED BY <1>1, <1>3, <2>1, <2>2, LocksStay, GotoKeeps DEF Labels
<1> QED BY <1>2, <1>3, EndKeeps DEF CopyFile

-----------------------------------------------------------------------------

LEMMA NextIInv ==
    ASSUME IInv, [Next]_vars
    PROVE  IInv'
<1>1. CASE UNCHANGED vars
  BY <1>1 DEF vars, lock, trees, IInv, TypeOK, LocksHeld, ImportsWhole,
     CopiesAgree, PublishedWhole, SnapshotWhole
<1>2. ASSUME NEW p \in Procs, Add(p) \/ Remove(p)
      PROVE  IInv'
  BY <1>2, CheckAbsentKeeps, StageKeeps, LockExclusiveKeeps, ReplaceKeeps,
     UnlockKeeps, EndKeeps DEF Add, Remove, RemoveStaging
<1>3. ASSUME NEW p \in Procs, Sources(p)
      PROVE  IInv'
  BY <1>3, LockSourcesKeeps, ValidateKeeps, CopyFileKeeps, UnlockKeeps, EndKeeps
  DEF Sources, Copied
<1> QED BY <1>1, <1>2, <1>3, GiveUpKeeps, BeginKeeps, EndKeeps DEF Next, Work, Die

LEMMA Invariance == Spec => []IInv
BY InitIInv, NextIInv, PTL DEF Spec

-----------------------------------------------------------------------------
(* The properties                                                          *)

\* The variables keep their types, and a writer has registry.lock for itself.
THEOREM TypeCorrect == Spec => []TypeOK
<1>1. IInv => TypeOK
  BY DEF IInv
<1> QED BY <1>1, Invariance, PTL

\* What a name selects is a complete import of one version (import.go).
THEOREM Published == Spec => []PublishedWhole
<1>1. IInv => PublishedWhole
  BY DEF IInv
<1> QED BY <1>1, Invariance, PTL

\* A generation's copy of the module is one complete version of it
\* (sources.go, nixos prepare).
THEOREM Snapshot == Spec => []SnapshotWhole
<1>1. IInv => SnapshotWhole
  BY DEF IInv
<1> QED BY <1>1, Invariance, PTL

\* While a preparation has its source lease, nobody changes the module
\* (sources.go).
THEOREM LeaseHeld == Spec => LeaseKeepsModule
<1>1. ASSUME IInv, [Next]_vars, readers # {}
      PROVE  module' = module
  <2>1. ASSUME NEW p \in Procs, Rename(p) \/ Detach(p)
        PROVE  FALSE
    BY <1>1, <2>1, NoneAssumption
    DEF IInv, TypeOK, LocksHeld, Rename, Detach, At
  <2>2. ASSUME NEW p \in Procs, Add(p) \/ Remove(p)
        PROVE  module' = module
    BY <2>1, <2>2
    DEF Add, Remove, CheckAbsent, Stage, LockCommit, LockRemove, LockExclusive,
        RequireAbsent, UnlockCommit, UnlockRemove, Unlock, RemoveStaging, End, trees
  <2>3. ASSUME NEW p \in Procs, Sources(p) \/ GiveUp(p)
        PROVE  module' = module
    BY <2>3
    DEF Sources, LockSources, LockShared, Validate, CopyFile, CloseSources,
        Unlock, Copied, GiveUp, End, trees
  <2> QED BY <1>1, <2>2, <2>3
          DEF Next, Work, BeginAdd, BeginRemove, BeginSources, Die, End, vars, trees
<1>2. IInv /\ [Next]_vars => [readers # {} => module' = module]_vars
  BY <1>1
<1> QED BY <1>2, Invariance, PTL DEF Spec, LeaseKeepsModule

=============================================================================
