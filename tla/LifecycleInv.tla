---------------------------- MODULE LifecycleInv ----------------------------
(***************************************************************************)
(* The inductive invariant behind Lifecycle's safety properties: what each *)
(* command has established about disk and Lima when it is about to make    *)
(* its next call. The properties alone are not inductive: whether a        *)
(* rollback or a save is harmless depends on the steps that led to it.     *)
(***************************************************************************)
EXTENDS Lifecycle

(* A command runs only under the VM lock, so all others are idle.          *)
Exclusive == \A p \in Procs : pc[p] # "idle" => lock = p

(* No state directory, no state.                                           *)
AbsentIsEmpty ==
    directory = "absent" =>
        /\ identity = None
        /\ record = NoRecord
        /\ \A g \in Gens : gens[g] = "absent"

(* What a process at a call of creation knows.                             *)
Creating(p) ==
    LET i == job[p].id
        g == job[p].gen
    IN
    /\ pc[p] \in {"prepareCreation", "createHome", "saveCreating",
                  "rollbackCreation", "discardCreation", "createBackend"} =>
          /\ job[p].op = "create"
          /\ g \in Gens
          /\ machine[i] = "none"
          /\ i \notin archive
          /\ record.status # "ready"
    /\ pc[p] \in {"prepareCreation", "createHome", "saveCreating"} =>
          /\ identity = None
          /\ record = NoRecord
    /\ pc[p] \in {"prepareCreation", "createHome", "discardCreation"} =>
          homes[i] = "absent"
    /\ pc[p] \in {"saveCreating", "createBackend"} => homes[i] = "whole"
    /\ pc[p] \in {"createHome", "saveCreating", "createBackend"} =>
          gens[g] = "whole"
    /\ pc[p] \in {"createHome", "saveCreating", "rollbackCreation"} =>
          directory = "present"
    /\ pc[p] = "createBackend" =>
          /\ identity = i
          /\ record = [status |-> "creating", gen |-> g]

(* What a process at a call shared by create and update knows.             *)
Applying(p) ==
    LET i == job[p].id
        g == job[p].gen
    IN
    /\ pc[p] \in {"startBackend", "applyGuest", "saveReady", "prune"} =>
          /\ job[p].op \in {"create", "update"}
          /\ g \in Gens
          /\ identity = i
          /\ machine[i] # "none"
          /\ config[i] = g
          /\ record.gen = g
    /\ pc[p] \in {"startBackend", "applyGuest", "saveReady"} =>
          record.status \in {"creating", "updating"}
    /\ pc[p] \in {"saveReady", "prune"} => applied[i] = g
    /\ pc[p] = "recordFailure" =>
          /\ directory = "present"
          /\ g \in Gens
          /\ record.status # "ready"
          /\ machine[i] # "none" => gens[g] = "whole"
          /\ job[p].op \in {"create", "update", "delete"}

(* What a process at a call of update knows.                               *)
Updating(p) ==
    LET i == job[p].id
        g == job[p].gen
    IN
    /\ pc[p] \in {"prepareUpdate", "saveUpdating", "discardUncommitted",
                  "checkBackend", "stopBackend", "editBackend"} =>
          /\ job[p].op = "update"
          /\ g \in Gens
          /\ identity = i
          /\ machine[i] # "none"
          /\ config[i] # g
          /\ record # NoRecord
    /\ pc[p] = "prepareUpdate" => record.gen # g
    /\ pc[p] \in {"saveUpdating", "checkBackend", "stopBackend", "editBackend"} =>
          gens[g] = "whole"
    /\ pc[p] \in {"checkBackend", "stopBackend", "editBackend"} =>
          record = [status |-> "updating", gen |-> g]

(* What a process at a call of delete, start or stop knows.                *)
Deleting(p) ==
    LET i == job[p].id IN
    /\ pc[p] \in {"saveDeleting", "stopForDelete", "deleteBackend",
                  "releaseHome", "forgetHome", "removeState"} =>
          /\ job[p].op = "delete"
          /\ identity = i
          /\ job[p].readable => record # NoRecord /\ record.gen = job[p].gen
    /\ pc[p] = "saveDeleting" => job[p].readable
    /\ pc[p] \in {"stopForDelete", "deleteBackend", "releaseHome",
                  "forgetHome", "removeState"} =>
          record.status # "ready" \/ (ReadFaults /\ ~job[p].readable)
    /\ pc[p] \in {"releaseHome", "forgetHome", "removeState"} =>
          machine[i] = "none"
    /\ pc[p] = "forgetHome" => homes[i] = "absent" /\ job[p].removeHome
    /\ pc[p] = "removeState" => homes[i] = "absent" \/ i \in archive
    /\ pc[p] = "power" => identity = i /\ job[p].op \in {"start", "stop"}

(* The running command works on the only identity that may have a home     *)
(* that is not archived.                                                   *)
Running(p) ==
    pc[p] # "idle" =>
        /\ job[p] \in Jobs
        /\ identity \in {None, job[p].id}
        /\ \A i \in Ids : homes[i] # "absent" /\ i # job[p].id => i \in archive
        /\ Creating(p) /\ Applying(p) /\ Updating(p) /\ Deleting(p)

(* What holds of disk and Lima in every state.                             *)
DataInv ==
    /\ DataOK
    /\ AbsentIsEmpty
    /\ ReadFaults \/ ReadyIsComplete
    /\ MachineInputsKept
    /\ SavedGenerationKept
    /\ BackendOwned
    /\ HomeAccounted

IInv ==
    /\ ControlOK
    /\ Exclusive
    /\ DataInv
    /\ \A p \in Procs : Running(p)

=============================================================================
