------------------------------ MODULE Lifecycle ------------------------------
(***************************************************************************)
(* limanix create, update, delete, start and stop of one VM name, run by   *)
(* competing processes (internal/vm with internal/state, managedhome and   *)
(* the Lima backend).                                                      *)
(*                                                                         *)
(* Each process walks through the effects of its command in the order of   *)
(* the source; pc names the call about to be made. A call takes effect,    *)
(* fails after any part of its effect, or is cut short by the death of the *)
(* process, which releases the flock and loses the process' memory. What   *)
(* other commands can observe is only what is on disk and in Lima.         *)
(*                                                                         *)
(* One VM name: names share no state but the module registry and network   *)
(* locks. A name is reused by successive VMs with fresh random identities. *)
(* A random identifier is one that nothing on disk, in Lima or in a        *)
(* running process mentions.                                               *)
(***************************************************************************)
EXTENDS Naturals, Trees

CONSTANTS
    Procs,      \* limanix processes
    Ids,        \* VM identities (identity.json), each with its own home
    Gens,       \* generation identifiers
    None,       \* no process, identity or generation
    ReadFaults  \* whether reading an intact instance.json may fail

ASSUME NoneAssumption == None \notin Procs \union Ids \union Gens
ASSUME ReadFaultsAssumption == ReadFaults \in BOOLEAN

VARIABLES
    lock,       \* holder of locks/instances/<name>.lock
    pc,         \* the call each process makes next
    job,        \* the command's in-memory identity, generation and options
    directory,  \* instances/<name>: absent or present
    identity,   \* contents of identity.json
    record,     \* contents of instance.json
    gens,       \* instances/<name>/generations/<id>
    homes,      \* home.root/<name>-<id>
    archive,    \* identities with homes/<name>-<id>.json
    machine,    \* Lima instance limanix-<id>: none, stopped or running
    config,     \* the generation its lima.yaml mounts
    applied     \* the generation its guest system was built from

control == <<lock, pc, job>>
files   == <<directory, identity, record, gens>>
storage == <<homes, archive>>
backend == <<machine, config, applied>>
vars    == <<control, files, storage, backend>>

-----------------------------------------------------------------------------
Statuses == {"creating", "ready", "updating", "error", "deleting"}

Records  == [status : Statuses, gen : Gens]
NoRecord == [status |-> "absent", gen |-> None]

(* readable: the job holds a domain.Instance it can save a failure in.     *)
Jobs == [op : {"create", "update", "delete", "start", "stop"},
         id : Ids, gen : Gens \union {None},
         readable : BOOLEAN, force : BOOLEAN, removeHome : BOOLEAN]
NoJob == [op |-> "none", id |-> None, gen |-> None,
          readable |-> FALSE, force |-> FALSE, removeHome |-> FALSE]

Labels == {"idle", "prepareCreation", "createHome", "saveCreating",
           "discardCreation", "rollbackCreation", "createBackend",
           "startBackend", "applyGuest", "saveReady", "recordFailure",
           "prepareUpdate", "saveUpdating", "discardUncommitted",
           "checkBackend", "stopBackend", "editBackend", "prune",
           "saveDeleting", "stopForDelete", "deleteBackend", "releaseHome",
           "forgetHome", "removeState", "power"}

Init ==
    /\ lock = None
    /\ pc = [p \in Procs |-> "idle"]
    /\ job = [p \in Procs |-> NoJob]
    /\ directory = "absent"
    /\ identity = None
    /\ record = NoRecord
    /\ gens = [g \in Gens |-> "absent"]
    /\ homes = [i \in Ids |-> "absent"]
    /\ archive = {}
    /\ machine = [i \in Ids |-> "none"]
    /\ config = [i \in Ids |-> None]
    /\ applied = [i \in Ids |-> None]

FreshId(i) ==
    /\ identity # i
    /\ i \notin archive
    /\ homes[i] = "absent"
    /\ machine[i] = "none"
    /\ \A p \in Procs : job[p].id # i

FreshGen(g) ==
    /\ gens[g] = "absent"
    /\ record.gen # g
    /\ \A i \in Ids : g \notin {config[i], applied[i]}
    /\ \A p \in Procs : job[p].gen # g

-----------------------------------------------------------------------------
(* Control: the exclusive VM lock is taken without waiting, held for the   *)
(* whole command, and released on return or by the kernel on death.        *)

(* Mutant: the command does not wait for, or check, the VM lock.           *)
BeginUnlocked(p, j, l) ==
    /\ pc[p] = "idle"
    /\ lock' = p
    /\ job' = [job EXCEPT ![p] = j]
    /\ pc' = [pc EXCEPT ![p] = l]
    /\ UNCHANGED <<files, storage, backend>>

Begin(p, j, l) ==
    /\ lock = None
    /\ pc[p] = "idle"
    /\ lock' = p
    /\ job' = [job EXCEPT ![p] = j]
    /\ pc' = [pc EXCEPT ![p] = l]
    /\ UNCHANGED <<files, storage, backend>>

At(p, l) == pc[p] = l

Goto(p, l) ==
    /\ pc' = [pc EXCEPT ![p] = l]
    /\ UNCHANGED <<lock, job>>

Return(p) ==
    /\ lock' = None
    /\ pc' = [pc EXCEPT ![p] = "idle"]
    /\ job' = [job EXCEPT ![p] = NoJob]

(* A call that did not complete: the error path at l, or death.            *)
Broken(p, l) == Goto(p, l) \/ Return(p)

-----------------------------------------------------------------------------
(* state.Store: Save makes the directory, writes identity.json once, then  *)
(* instance.json; each write is atomic, the sequence is not.               *)

SavedSteps(p, s, n) ==
    /\ directory' = IF n > 0 THEN "present" ELSE directory
    /\ identity' = IF n > 1 /\ identity = None THEN job[p].id ELSE identity
    /\ record' = IF n > 2 THEN [status |-> s, gen |-> job[p].gen] ELSE record
    /\ UNCHANGED <<gens, storage, backend>>

Save(p, s) ==
    /\ identity \in {None, job[p].id}
    /\ SavedSteps(p, s, 3)

SaveFailed(p, s) ==
    \E n \in 0..3 :
        /\ n > 1 => identity \in {None, job[p].id}
        /\ SavedSteps(p, s, n)

Remove ==
    /\ directory' = "absent"
    /\ identity' = None
    /\ record' = NoRecord
    /\ gens' = [g \in Gens |-> "absent"]
    /\ UNCHANGED <<storage, backend>>

ShrinkGens(S) ==
    /\ gens' \in [Gens -> TreeStates]
    /\ \A g \in Gens :
          gens'[g] \in IF g \in S THEN Shrunk(gens[g]) ELSE {gens[g]}

RemoveFailed ==
    /\ directory' = directory
    /\ identity' \in {identity, None}
    /\ record' \in {record, NoRecord}
    /\ ShrinkGens(Gens)
    /\ UNCHANGED <<storage, backend>>

(* managedhome.Manager.Remove: no effect on an absent home.                *)
RemoveHome(i) ==
    /\ homes' = [homes EXCEPT ![i] = "absent"]
    /\ UNCHANGED <<files, archive, backend>>

RemoveHomeFailed(i) ==
    /\ \E t \in Shrunk(homes[i]) : homes' = [homes EXCEPT ![i] = t]
    /\ UNCHANGED <<files, archive, backend>>

(* generationBuilder.prepare writes a directory of its own under the VM's. *)
Prepare(p) ==
    /\ directory' = "present"
    /\ gens' = [gens EXCEPT ![job[p].gen] = "whole"]
    /\ UNCHANGED <<identity, record, storage, backend>>

PrepareFailed(p) ==
    /\ directory' \in {directory, "present"}
    /\ \E t \in TreeStates :
          /\ t # "absent" => directory' = "present"
          /\ gens' = [gens EXCEPT ![job[p].gen] = t]
    /\ UNCHANGED <<identity, record, storage, backend>>

(* The Lima instance of i after a backend or guest call.                   *)
Lima(i, m, c, a) ==
    /\ machine' = [machine EXCEPT ![i] = m]
    /\ config' = [config EXCEPT ![i] = c]
    /\ applied' = [applied EXCEPT ![i] = a]
    /\ UNCHANGED <<files, storage>>

(* A start or a stop that failed got there or did nothing.                 *)
Toward(i, m) == IF machine[i] = "none" THEN {"none"} ELSE {machine[i], m}

UnchangedData == UNCHANGED <<files, storage, backend>>

-----------------------------------------------------------------------------
(* Create                                                                  *)

BeginCreate(p) ==
    /\ directory = "absent"
    /\ \E i \in Ids, g \in Gens :
          /\ FreshId(i)
          /\ FreshGen(g)
          /\ Begin(p, [NoJob EXCEPT !.op = "create", !.id = i, !.gen = g,
                                    !.readable = TRUE], "prepareCreation")

PrepareCreation(p) ==
    /\ At(p, "prepareCreation")
    /\ \/ Prepare(p) /\ Goto(p, "createHome")
       \/ PrepareFailed(p) /\ Broken(p, "discardCreation")

CreateHome(p) ==
    /\ At(p, "createHome")
    /\ UNCHANGED <<files, archive, backend>>
    /\ \/ /\ homes[job[p].id] = "absent"
          /\ homes' = [homes EXCEPT ![job[p].id] = "whole"]
          /\ Goto(p, "saveCreating")
       \/ /\ UNCHANGED homes
          /\ Broken(p, "discardCreation")

SaveCreating(p) ==
    /\ At(p, "saveCreating")
    /\ \/ Save(p, "creating") /\ Goto(p, "createBackend")
       \/ Save(p, "creating") /\ Goto(p, "rollbackCreation")   \* cancelled
       \/ SaveFailed(p, "creating") /\ Broken(p, "rollbackCreation")

RollbackCreation(p) ==
    /\ At(p, "rollbackCreation")
    /\ \/ RemoveHome(job[p].id) /\ Goto(p, "discardCreation")
       \/ RemoveHomeFailed(job[p].id) /\ Broken(p, "recordFailure")

DiscardCreation(p) ==
    /\ At(p, "discardCreation")
    /\ Remove \/ RemoveFailed
    /\ Return(p)

(* Mutant: a creation that failed in Lima is rolled back like a local one. *)
CreateBackendRollsBack(p) ==
    /\ At(p, "createBackend")
    /\ Lima(job[p].id, "stopped", job[p].gen, None) \/ UnchangedData
    /\ Goto(p, "startBackend") \/ Goto(p, "rollbackCreation")

CreateBackend(p) ==
    /\ At(p, "createBackend")
    /\ LET i == job[p].id IN
       \/ /\ Lima(i, "stopped", job[p].gen, None)
          /\ Goto(p, "startBackend") \/ Broken(p, "recordFailure")
       \/ UnchangedData /\ Broken(p, "recordFailure")

(* applyGuest, shared by create and update: start the machine, then let    *)
(* the guest rebuild itself from the mounted generation and restart.       *)
StartBackend(p) ==
    /\ At(p, "startBackend")
    /\ LET i == job[p].id IN
       \/ /\ machine[i] # "none"
          /\ Lima(i, "running", config[i], applied[i])
          /\ Goto(p, "applyGuest")
       \/ /\ \E m \in Toward(i, "running") : Lima(i, m, config[i], applied[i])
          /\ Broken(p, "recordFailure")

(* Mutant: a failed guest provisioning is only reported.                   *)
ApplyGuestIgnored(p) ==
    /\ At(p, "applyGuest")
    /\ LET i == job[p].id IN
       \E a \in {applied[i], config[i]} : Lima(i, machine[i], config[i], a)
    /\ Goto(p, "saveReady")

ApplyGuest(p) ==
    /\ At(p, "applyGuest")
    /\ LET i == job[p].id IN
       \/ /\ machine[i] = "running"
          /\ Lima(i, "running", config[i], config[i])
          /\ Goto(p, "saveReady")
       \/ /\ \E m \in Toward(i, "stopped") \union Toward(i, "running"),
                a \in {applied[i], config[i]} :
                Lima(i, m, config[i], a)
          /\ Broken(p, "recordFailure")

(* Create returns the result of its last Save; update prunes after it.     *)
SaveReady(p) ==
    /\ At(p, "saveReady")
    /\ \/ /\ job[p].op = "update"
          /\ Save(p, "ready")
          /\ Goto(p, "prune")
       \/ /\ SaveFailed(p, "ready")
          /\ Return(p)

RecordFailure(p) ==
    /\ At(p, "recordFailure")
    /\ SaveFailed(p, "error")
    /\ Return(p)

-----------------------------------------------------------------------------
(* Update                                                                  *)

BeginUpdate(p) ==
    /\ identity # None
    /\ record # NoRecord
    /\ machine[identity] # "none"
    /\ \E g \in Gens :
          /\ FreshGen(g)
          /\ Begin(p, [NoJob EXCEPT !.op = "update", !.id = identity, !.gen = g,
                                    !.readable = TRUE], "prepareUpdate")

PrepareUpdate(p) ==
    /\ At(p, "prepareUpdate")
    /\ \/ Prepare(p) /\ Goto(p, "saveUpdating")
       \/ PrepareFailed(p) /\ Broken(p, "discardUncommitted")

SaveUpdating(p) ==
    /\ At(p, "saveUpdating")
    /\ \/ Save(p, "updating") /\ Goto(p, "checkBackend")
       \/ Save(p, "updating") /\ Goto(p, "discardUncommitted")   \* cancelled
       \/ SaveFailed(p, "updating") /\ Broken(p, "discardUncommitted")

(* Mutant: a failed update always takes its generation with it.            *)
DiscardAlways(p) ==
    /\ At(p, "discardUncommitted")
    /\ Return(p)
    /\ UNCHANGED <<directory, identity, record, storage, backend>>
    /\ ShrinkGens({job[p].gen})

(* The new generation goes away unless the saved record selects it or      *)
(* cannot be read.                                                         *)
DiscardUncommitted(p) ==
    /\ At(p, "discardUncommitted")
    /\ Return(p)
    /\ UNCHANGED <<directory, identity, record, storage, backend>>
    /\ IF identity # None /\ record # NoRecord /\ record.gen # job[p].gen
       THEN ShrinkGens({job[p].gen})
       ELSE UNCHANGED gens

CheckBackend(p) ==
    /\ At(p, "checkBackend")
    /\ UnchangedData
    /\ \/ machine[job[p].id] = "running" /\ Goto(p, "stopBackend")
       \/ machine[job[p].id] = "stopped" /\ Goto(p, "editBackend")
       \/ Broken(p, "recordFailure")

StopBackend(p) ==
    /\ At(p, "stopBackend")
    /\ LET i == job[p].id IN
       \/ /\ machine[i] # "none"
          /\ Lima(i, "stopped", config[i], applied[i])
          /\ Goto(p, "editBackend")
       \/ /\ \E m \in Toward(i, "stopped") : Lima(i, m, config[i], applied[i])
          /\ Broken(p, "recordFailure")

EditBackend(p) ==
    /\ At(p, "editBackend")
    /\ LET i == job[p].id IN
       \/ /\ machine[i] = "stopped"
          /\ Lima(i, "stopped", job[p].gen, applied[i])
          /\ Goto(p, "startBackend") \/ Broken(p, "recordFailure")
       \/ UnchangedData /\ Broken(p, "recordFailure")

(* Mutant: the new generation is pruned with the old ones.                 *)
PruneAll(p) ==
    /\ At(p, "prune")
    /\ ShrinkGens(Gens)
    /\ Return(p)
    /\ UNCHANGED <<directory, identity, record, storage, backend>>

(* Every other generation is removed; failures only warn.                  *)
Prune(p) ==
    /\ At(p, "prune")
    /\ ShrinkGens(Gens \ {job[p].gen})
    /\ Return(p)
    /\ UNCHANGED <<directory, identity, record, storage, backend>>

-----------------------------------------------------------------------------
(* Delete: ownership is read independently of the runtime record.          *)

(* Mutant: a state directory is enough to start a deletion.                *)
BeginDeleteUnidentified(p) ==
    /\ directory = "present"
    /\ Begin(p, [NoJob EXCEPT !.op = "delete", !.id = identity], "stopForDelete")

(* A record that cannot be loaded is left as it is.                        *)
BeginDelete(p) ==
    /\ identity # None
    /\ \E force, removeHome, readable \in BOOLEAN :
          /\ readable => record # NoRecord
          /\ ~readable => record = NoRecord \/ ReadFaults
          /\ Begin(p, [op |-> "delete", id |-> identity, gen |-> record.gen,
                       readable |-> readable,
                       force |-> force, removeHome |-> removeHome],
                   IF readable THEN "saveDeleting" ELSE "stopForDelete")

SaveDeleting(p) ==
    /\ At(p, "saveDeleting")
    /\ \/ Save(p, "deleting") /\ Goto(p, "stopForDelete")
       \/ SaveFailed(p, "deleting") /\ Return(p)

(* The end of a failed deleteResources.                                    *)
DeleteBroken(p) ==
    IF job[p].readable THEN Broken(p, "recordFailure") ELSE Return(p)

StopForDelete(p) ==
    /\ At(p, "stopForDelete")
    /\ LET i == job[p].id IN
       \/ /\ machine[i] = "none"
          /\ UnchangedData
          /\ Goto(p, "releaseHome")
       \/ /\ machine[i] # "none"
          /\ machine[i] = "running" => job[p].force
          /\ UnchangedData
          /\ Goto(p, "deleteBackend")
       \/ /\ machine[i] = "running" /\ ~job[p].force
          /\ Lima(i, "stopped", config[i], applied[i])
          /\ Goto(p, "deleteBackend") \/ DeleteBroken(p)
       \/ UnchangedData /\ DeleteBroken(p)

DeleteBackend(p) ==
    /\ At(p, "deleteBackend")
    /\ LET i == job[p].id IN
       \/ /\ machine[i] = "running" => job[p].force
          /\ Lima(i, "none", None, None)
          /\ Goto(p, "releaseHome") \/ DeleteBroken(p)
       \/ /\ \E m \in Toward(i, "stopped") : Lima(i, m, config[i], applied[i])
          /\ DeleteBroken(p)

(* Mutant: force implies removing the home.                                *)
ReleaseHomeForced(p) ==
    /\ At(p, "releaseHome")
    /\ LET i == job[p].id IN
       IF job[p].removeHome \/ job[p].force
       THEN RemoveHome(i) /\ Goto(p, "forgetHome")
       ELSE /\ archive' = archive \union {i}
            /\ UNCHANGED <<files, homes, backend>>
            /\ Goto(p, "removeState")

(* Mutant: a failed archival does not stop the deletion.                   *)
ReleaseHomeUnchecked(p) ==
    /\ At(p, "releaseHome")
    /\ archive' \in {archive, archive \union {job[p].id}}
    /\ UNCHANGED <<files, homes, backend>>
    /\ Goto(p, "removeState")

ReleaseHome(p) ==
    /\ At(p, "releaseHome")
    /\ LET i == job[p].id IN
       IF job[p].removeHome
       THEN \/ RemoveHome(i) /\ Goto(p, "forgetHome")
            \/ RemoveHomeFailed(i) /\ DeleteBroken(p)
       ELSE /\ UNCHANGED <<files, homes, backend>>
            /\ \/ /\ archive' = archive \union {i}
                  /\ Goto(p, "removeState") \/ DeleteBroken(p)
               \/ UNCHANGED archive /\ DeleteBroken(p)

ForgetHome(p) ==
    /\ At(p, "forgetHome")
    /\ UNCHANGED <<files, homes, backend>>
    /\ \/ /\ archive' = archive \ {job[p].id}
          /\ Goto(p, "removeState")
       \/ UNCHANGED archive /\ DeleteBroken(p)

RemoveState(p) ==
    /\ At(p, "removeState")
    /\ \/ Remove /\ Return(p)
       \/ RemoveFailed /\ DeleteBroken(p)

-----------------------------------------------------------------------------
(* Start and stop need ownership and a Lima instance, not the record.      *)

BeginPower(p) ==
    /\ identity # None
    /\ machine[identity] # "none"
    /\ \E o \in {"start", "stop"} :
          Begin(p, [NoJob EXCEPT !.op = o, !.id = identity], "power")

Power(p) ==
    /\ At(p, "power")
    /\ LET i == job[p].id IN
       \E m \in Toward(i, IF job[p].op = "start" THEN "running" ELSE "stopped") :
          Lima(i, m, config[i], applied[i])
    /\ Return(p)

-----------------------------------------------------------------------------
(* The guest shuts itself down, or its host agent dies.                    *)
GuestHalts(i) ==
    /\ machine[i] = "running"
    /\ Lima(i, "stopped", config[i], applied[i])
    /\ UNCHANGED control

Create(p) ==
    \/ BeginCreate(p) \/ PrepareCreation(p) \/ CreateHome(p) \/ SaveCreating(p)
    \/ RollbackCreation(p) \/ DiscardCreation(p) \/ CreateBackend(p)

Apply(p) == StartBackend(p) \/ ApplyGuest(p) \/ SaveReady(p) \/ RecordFailure(p)

Update(p) ==
    \/ BeginUpdate(p) \/ PrepareUpdate(p) \/ SaveUpdating(p)
    \/ DiscardUncommitted(p) \/ CheckBackend(p) \/ StopBackend(p)
    \/ EditBackend(p) \/ Prune(p)

Delete(p) ==
    \/ BeginDelete(p) \/ SaveDeleting(p) \/ StopForDelete(p) \/ DeleteBackend(p)
    \/ ReleaseHome(p) \/ ForgetHome(p) \/ RemoveState(p)

PowerCommand(p) == BeginPower(p) \/ Power(p)

Next ==
    \/ \E p \in Procs :
          Create(p) \/ Apply(p) \/ Update(p) \/ Delete(p) \/ PowerCommand(p)
    \/ \E i \in Ids : GuestHalts(i)

Spec == Init /\ [][Next]_vars

-----------------------------------------------------------------------------
(* Properties                                                              *)

ControlOK ==
    /\ lock \in Procs \union {None}
    /\ pc \in [Procs -> Labels]
    /\ job \in [Procs -> Jobs \union {NoJob}]

DataOK ==
    /\ directory \in {"absent", "present"}
    /\ identity \in Ids \union {None}
    /\ record \in Records \union {NoRecord}
    /\ gens \in [Gens -> TreeStates]
    /\ homes \in [Ids -> TreeStates]
    /\ archive \subseteq Ids
    /\ machine \in [Ids -> {"none", "stopped", "running"}]
    /\ config \in [Ids -> Gens \union {None}]
    /\ applied \in [Ids -> Gens \union {None}]

(* The variables keep their types; no command runs without an identity.    *)
TypeOK == ControlOK /\ DataOK

(* A record that says ready tells the truth, whoever is running and        *)
(* however earlier commands ended: the VM exists over an intact home, its  *)
(* lima.yaml mounts the recorded generation, and the guest was built from  *)
(* it (vm/doc.go: ready is saved last; domain.Ready "records a completed   *)
(* create or update"). Not so if an intact record can fail to be read:     *)
(* delete then proceeds without marking it.                                *)
ReadyIsComplete ==
    record.status = "ready" =>
        /\ identity # None
        /\ machine[identity] # "none"
        /\ config[identity] = record.gen
        /\ applied[identity] = record.gen
        /\ homes[identity] = "whole"

(* Whatever a Lima instance mounts stays on disk as long as it exists: its *)
(* generation survives every discard and prune, and its home every         *)
(* rollback and deletion (generation.go, delete.go).                       *)
MachineInputsKept ==
    \A i \in Ids : machine[i] # "none" =>
        /\ config[i] \in Gens
        /\ gens[config[i]] = "whole"
        /\ homes[i] = "whole"

(* As long as the VM has a machine, the generation the saved record        *)
(* selects is complete on disk, so a failed or interrupted update leaves   *)
(* inputs a retry and the record's reader can rely on                      *)
(* (update.go discardUncommitted: a saved generation is never discarded).  *)
SavedGenerationKept ==
    record # NoRecord /\ identity # None /\ machine[identity] # "none" =>
        gens[record.gen] = "whole"

(* Every Lima instance belongs to the identity recorded for the name, so   *)
(* delete can find it: no crash, failed rollback or name reuse leaves a VM *)
(* nobody owns (vm/doc.go: "failures retain ownership").                   *)
BackendOwned == \A i \in Ids : machine[i] # "none" => identity = i

(* A home directory is owned by the VM, archived as preserved, or else its *)
(* name still holds the unfinished state directory of the create that made *)
(* it (create.go prepareCreation, delete.go releaseHome).                  *)
HomeAccounted ==
    \A i \in Ids : homes[i] # "absent" =>
        identity = i \/ i \in archive \/ (directory = "present" /\ identity = None)

(* Home contents are removed only by a delete that asked for it, or by the *)
(* rollback of a creation that never reached Lima; force alone and failed  *)
(* commands never remove them (vm/doc.go: "force does not imply deleting   *)
(* the home").                                                             *)
HomeRemoved(i) == homes[i] = "whole" /\ homes'[i] # "whole"

RemovalRequested(i) ==
    /\ machine[i] = "none"
    /\ \E p \in Procs :
          /\ job[p].id = i
          /\ \/ job[p].op = "create"
             \/ job[p].op = "delete" /\ job[p].removeHome

HomeRemovalRequested ==
    [][\A i \in Ids : HomeRemoved(i) => RemovalRequested(i)]_vars

(* The promises of module Ownership, kept by every step of every command.  *)
Owner == INSTANCE Ownership WITH
    owner    <- identity,
    machines <- {i \in Ids : machine[i] # "none"},
    kept     <- archive

ImplementsOwnership == Owner!Spec

(* error.go tells a user whose create is refused that the VM already has   *)
(* state, "use update or delete"; both start from identity.json. While no  *)
(* command runs, a name that create refuses can be deleted.                *)
RefusedNameDeletable ==
    lock = None /\ directory = "present" => identity # None

=============================================================================
