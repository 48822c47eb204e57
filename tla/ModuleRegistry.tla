---------------------------- MODULE ModuleRegistry ----------------------------
(***************************************************************************)
(* The registry of imported NixOS modules (internal/modules over the       *)
(* registry lock of internal/state) and its reader, the preparation of a   *)
(* VM generation (internal/nixos, internal/vm generation.go).              *)
(*                                                                         *)
(* One module name. A module is a tree of files, copied file by file; an   *)
(* import copies the user's tree to a hidden directory without the lock    *)
(* and renames it into place under the exclusive lock, a removal renames   *)
(* it away under that lock, and a preparation copies it under the shared   *)
(* lock. All of them wait for the lock for a bounded time. Any call may    *)
(* fail, and a process may die at any call.                                *)
(***************************************************************************)
CONSTANTS
    Procs,      \* limanix processes
    Files,      \* the files of a module
    Versions,   \* the contents a user may import under the name
    None        \* no file, process or version

ASSUME NoneAssumption == None \notin Procs \union Versions

VARIABLES
    pc,         \* the next call of each process
    writer,     \* holder of locks/registry.lock, exclusive
    readers,    \* holders of it, shared
    module,     \* modules/<name>
    staging,    \* the hidden directory of each import or removal
    source,     \* the version each import copies
    copy        \* the module's copy in each prepared generation

lock  == <<writer, readers>>
trees == <<module, staging, source, copy>>
vars  == <<pc, lock, trees>>

Labels == {"idle", "checkAbsent", "stage", "lockCommit", "requireAbsent",
           "rename", "unlockCommit", "lockRemove", "detach", "unlockRemove",
           "removeStaging", "lockSources", "validate", "copy", "closeSources",
           "copied"}

(* The version each file of a tree came from.                              *)
Contents == [Files -> Versions \union {None}]
Absent   == [f \in Files |-> None]
Whole(v) == [f \in Files |-> v]

Init ==
    /\ pc = [p \in Procs |-> "idle"]
    /\ writer = None
    /\ readers = {}
    /\ module = Absent
    /\ staging = [p \in Procs |-> Absent]
    /\ source = [p \in Procs |-> None]
    /\ copy = [p \in Procs |-> Absent]

At(p, l) == pc[p] = l

Goto(p, l) == pc' = [pc EXCEPT ![p] = l]

(* What a process knew is gone when it ends, and its locks with it; hidden *)
(* directories it leaves are no module's.                                  *)
End(p) ==
    /\ Goto(p, "idle")
    /\ writer' = IF writer = p THEN None ELSE writer
    /\ readers' = readers \ {p}
    /\ staging' = [staging EXCEPT ![p] = Absent]
    /\ source' = [source EXCEPT ![p] = None]
    /\ copy' = [copy EXCEPT ![p] = Absent]
    /\ UNCHANGED module

-----------------------------------------------------------------------------
(* The registry lock: retried until it is free, the caller is cancelled or *)
(* the wait has lasted 30 seconds.                                         *)

Waiting(p) == pc[p] \in {"checkAbsent", "lockCommit", "lockRemove", "lockSources"}

(* Mutant: a writer waits for other writers only.                          *)
LockExclusiveOverReaders(p, l) ==
    /\ writer = None
    /\ writer' = p
    /\ Goto(p, l)
    /\ UNCHANGED <<readers, trees>>

LockExclusive(p, l) ==
    /\ writer = None
    /\ readers = {}
    /\ writer' = p
    /\ Goto(p, l)
    /\ UNCHANGED <<readers, trees>>

LockShared(p, l) ==
    /\ writer = None
    /\ readers' = readers \union {p}
    /\ Goto(p, l)
    /\ UNCHANGED <<writer, trees>>

Unlock(p, l) ==
    /\ writer' = IF writer = p THEN None ELSE writer
    /\ readers' = readers \ {p}
    /\ Goto(p, l)
    /\ UNCHANGED trees

(* Mutant: the wait for the lock has no end.                               *)
GiveUpNever(p) == Waiting(p) /\ UNCHANGED vars

GiveUp(p) ==
    /\ Waiting(p)
    /\ IF At(p, "lockCommit")
       THEN Goto(p, "removeStaging") /\ UNCHANGED <<lock, trees>>
       ELSE End(p)

-----------------------------------------------------------------------------
(* Registry.Add                                                            *)

BeginAdd(p) ==
    /\ At(p, "idle")
    /\ \E v \in Versions : source' = [source EXCEPT ![p] = v]
    /\ Goto(p, "checkAbsent")
    /\ UNCHANGED <<lock, module, staging, copy>>

(* Under the shared lock, which is released before the copy.               *)
CheckAbsent(p) ==
    /\ At(p, "checkAbsent")
    /\ writer = None
    /\ module = Absent
    /\ Goto(p, "stage")
    /\ UNCHANGED <<lock, trees>>

(* Mutant: the copy's error is not looked at.                              *)
StageUnchecked(p) ==
    /\ At(p, "stage")
    /\ \E f \in Files :
          staging' = [staging EXCEPT ![p][f] = source[p]]
    /\ Goto(p, "stage") \/ Goto(p, "lockCommit")
    /\ UNCHANGED <<lock, module, source, copy>>

(* CopyTree removes what it copied when it fails.                          *)
Stage(p) ==
    /\ At(p, "stage")
    /\ \/ /\ \E f \in Files :
                /\ staging[p][f] = None
                /\ staging' = [staging EXCEPT ![p][f] = source[p]]
          /\ Goto(p, "stage")
       \/ /\ staging[p] = Whole(source[p])
          /\ UNCHANGED staging
          /\ Goto(p, "lockCommit")
       \/ /\ staging' = [staging EXCEPT ![p] = Absent]
          /\ Goto(p, "removeStaging")
    /\ UNCHANGED <<lock, module, source, copy>>

LockCommit(p) == At(p, "lockCommit") /\ LockExclusive(p, "requireAbsent")

RequireAbsent(p) ==
    /\ At(p, "requireAbsent")
    /\ Goto(p, IF module = Absent THEN "rename" ELSE "unlockCommit")
    /\ UNCHANGED <<lock, trees>>

Rename(p) ==
    /\ At(p, "rename")
    /\ \/ /\ module' = staging[p]
          /\ staging' = [staging EXCEPT ![p] = Absent]
       \/ UNCHANGED <<module, staging>>
    /\ Goto(p, "unlockCommit")
    /\ UNCHANGED <<lock, source, copy>>

UnlockCommit(p) == At(p, "unlockCommit") /\ Unlock(p, "removeStaging")

RemoveStaging(p) == At(p, "removeStaging") /\ End(p)

Add(p) ==
    \/ CheckAbsent(p) \/ Stage(p) \/ LockCommit(p) \/ RequireAbsent(p)
    \/ Rename(p) \/ UnlockCommit(p) \/ RemoveStaging(p)

-----------------------------------------------------------------------------
(* Registry.Remove                                                         *)

BeginRemove(p) ==
    /\ At(p, "idle")
    /\ Goto(p, "lockRemove")
    /\ UNCHANGED <<lock, trees>>

(* Mutant: a removal is content with the shared lock.                      *)
LockRemoveShared(p) == At(p, "lockRemove") /\ LockShared(p, "detach")

LockRemove(p) == At(p, "lockRemove") /\ LockExclusive(p, "detach")

(* Renamed into a hidden directory; the files go after the lock.           *)
Detach(p) ==
    /\ At(p, "detach")
    /\ \/ /\ staging' = [staging EXCEPT ![p] = module]
          /\ module' = Absent
       \/ UNCHANGED <<module, staging>>
    /\ Goto(p, "unlockRemove")
    /\ UNCHANGED <<lock, source, copy>>

UnlockRemove(p) == At(p, "unlockRemove") /\ Unlock(p, "removeStaging")

Remove(p) == LockRemove(p) \/ Detach(p) \/ UnlockRemove(p)

-----------------------------------------------------------------------------
(* Registry.Sources, its lease, and the copy into a generation             *)

BeginSources(p) ==
    /\ At(p, "idle")
    /\ Goto(p, "lockSources")
    /\ UNCHANGED <<lock, trees>>

LockSources(p) == At(p, "lockSources") /\ LockShared(p, "validate")

(* Mutant: the lease ends when the sources are known.                      *)
ValidateReleases(p) ==
    /\ At(p, "validate")
    /\ IF module # Absent THEN Unlock(p, "copy") ELSE End(p)

Validate(p) ==
    /\ At(p, "validate")
    /\ \/ module # Absent /\ Goto(p, "copy") /\ UNCHANGED <<lock, trees>>
       \/ End(p)

CopyFile(p) ==
    /\ At(p, "copy")
    /\ \/ /\ \E f \in Files :
                /\ copy[p][f] = None
                /\ module[f] # None
                /\ copy' = [copy EXCEPT ![p][f] = module[f]]
          /\ Goto(p, "copy")
          /\ UNCHANGED <<lock, module, staging, source>>
       \/ /\ \A f \in Files : copy[p][f] # None
          /\ Goto(p, "closeSources")
          /\ UNCHANGED <<lock, trees>>
       \/ End(p)

CloseSources(p) == At(p, "closeSources") /\ Unlock(p, "copied")

Copied(p) == At(p, "copied") /\ End(p)

Sources(p) ==
    LockSources(p) \/ Validate(p) \/ CopyFile(p) \/ CloseSources(p) \/ Copied(p)

-----------------------------------------------------------------------------
Die(p) == ~At(p, "idle") /\ End(p)

Work(p) == Add(p) \/ Remove(p) \/ Sources(p) \/ GiveUp(p)

Next ==
    \E p \in Procs :
        Work(p) \/ BeginAdd(p) \/ BeginRemove(p) \/ BeginSources(p) \/ Die(p)

(* A process makes its calls, and time passes while it waits.              *)
Spec == Init /\ [][Next]_vars /\ \A p \in Procs : WF_vars(Work(p))

-----------------------------------------------------------------------------
(* Properties                                                              *)

(* The variables keep their types, and a writer has the lock for itself.   *)
TypeOK ==
    /\ pc \in [Procs -> Labels]
    /\ writer \in Procs \union {None}
    /\ readers \subseteq Procs
    /\ writer # None => readers = {}
    /\ module \in Contents
    /\ staging \in [Procs -> Contents]
    /\ source \in [Procs -> Versions \union {None}]
    /\ copy \in [Procs -> Contents]

(* What a name selects is a complete import of one version, whatever       *)
(* copies failed or processes died (import.go: "commits a complete import  *)
(* under an exclusive lock").                                              *)
PublishedWhole == module = Absent \/ \E v \in Versions : module = Whole(v)

(* While a preparation has its source lease, the module stays what it is   *)
(* (sources.go: SourceSet holds the shared lock).                          *)
LeaseKeepsModule == [][readers # {} => module' = module]_vars

(* A generation's copy of the module is one complete version of it, never  *)
(* a mixture of an import and its replacement (modules/doc.go: an          *)
(* "independent copy in a VM generation").                                 *)
SnapshotWhole ==
    \A p \in Procs : pc[p] \in {"closeSources", "copied"} =>
        \E v \in Versions : copy[p] = Whole(v)

(* Every operation ends, even if other processes keep the lock busy by     *)
(* taking turns (lock.go acquireLock: a bounded wait).                     *)
OperationsReturn == \A p \in Procs : ~At(p, "idle") ~> At(p, "idle")

=============================================================================
