---------------------------- MODULE SharedNetwork ----------------------------
(***************************************************************************)
(* Commands that create, start, stop and delete VMs which share Lima's     *)
(* network helper (internal/lima: lifecycle.go, network_lock.go,           *)
(* launch.go).                                                             *)
(*                                                                         *)
(* Lima's reconciler counts the running VMs that use the shared network    *)
(* and then starts or stops the daemon. A VM that is starting is not       *)
(* counted. A start that died or was cancelled can leave a VM that comes   *)
(* up later, or not at all. The network lock covers the count, the         *)
(* reconciliation and the launch.                                          *)
(*                                                                         *)
(* The installation of the helper (NetworkSetup) and the choice of the     *)
(* executables are one step here, which can fail.                          *)
(***************************************************************************)
CONSTANTS
    Procs,      \* commands
    VMs,        \* VMs, each with the lock its commands hold
    Shared,     \* those that run under QEMU and use the shared network
    None        \* nobody

ASSUME SharedAssumption == Shared \subseteq VMs /\ None \notin VMs \cup Procs

VARIABLES
    pc,         \* the next call of each command
    cancelled,  \* commands whose context is done
    job,        \* each command's operation and VM
    machine,    \* Lima's instances
    daemon,     \* the helper process runs
    needed,     \* what each reconciler has counted
    netLock,    \* the command that holds the network lock
    served      \* VMs whose last launch succeeded

vars == <<pc, cancelled, job, machine, daemon, needed, netLock, served>>

Operations == {"create", "start", "stop", "delete"}
NoJob == [op |-> "none", vm |-> None]
VM(p) == job[p].vm
Starts(p) == job[p].op = "start"

Labels == {"idle", "inspect", "prepare", "lock", "count", "reconcile", "launch",
           "booting", "launched", "halt", "failed", "finished"}

Then(p, l) == pc' = [pc EXCEPT ![p] = l] /\ UNCHANGED <<cancelled, job>>

\* The deferred close of the lock file, whatever a call returned.
Released(p) == IF netLock = p THEN None ELSE netLock

-----------------------------------------------------------------------------
\* The VM lock keeps a second command on the same VM out.
Begin(p) ==
    /\ pc[p] = "idle"
    /\ \E v \in VMs, op \in Operations :
        /\ \A q \in Procs : VM(q) # v
        /\ job' = [job EXCEPT ![p] = [op |-> op, vm |-> v]]
    /\ pc' = [pc EXCEPT ![p] = "inspect"]
    /\ UNCHANGED <<cancelled, machine, daemon, needed, netLock, served>>

\* Client.Create writes an instance and needs no network.
Create(p) ==
    /\ pc[p] = "inspect"
    /\ job[p].op = "create" /\ machine[VM(p)] = "absent"
    /\ machine' = [machine EXCEPT ![VM(p)] = "stopped"]
    /\ Then(p, "finished")
    /\ UNCHANGED <<daemon, needed, netLock, served>>

\* A start has nothing to do if the instance runs.
Inspect(p) ==
    /\ pc[p] = "inspect"
    /\ job[p].op # "create" /\ machine[VM(p)] # "absent"
    /\ Then(p, CASE ~Starts(p) -> "lock"
                 [] machine[VM(p)] = "running" -> "finished"
                 [] OTHER -> "prepare")
    /\ UNCHANGED <<machine, daemon, needed, netLock, served>>

\* ensureSharedNetworking, for QEMU, and launchPaths.
Prepare(p) ==
    /\ pc[p] = "prepare"
    /\ Then(p, "lock")
    /\ UNCHANGED <<machine, daemon, needed, netLock, served>>

\* waitForNetworkLock tries until it gets the lock or the context is done.
Acquire(p) ==
    /\ pc[p] = "lock" /\ netLock = None
    /\ netLock' = p
    /\ Then(p, IF Starts(p) THEN "count" ELSE "halt")
    /\ UNCHANGED <<machine, daemon, needed, served>>

\* native.stop or native.delete.
Halt(p) ==
    /\ pc[p] = "halt"
    /\ machine' = [machine EXCEPT ![VM(p)] =
                        IF job[p].op = "delete" THEN "absent" ELSE "stopped"]
    /\ served' = served \ {VM(p)}
    /\ Then(p, "count")
    /\ UNCHANGED <<daemon, needed, netLock>>

\* reconcile, first half: a start names its VM, which counts as well.
Count(p) ==
    /\ pc[p] = "count"
    /\ needed' = [needed EXCEPT ![p] =
            \E v \in Shared : machine[v] = "running" \/ (Starts(p) /\ v = VM(p))]
    /\ Then(p, "reconcile")
    /\ UNCHANGED <<machine, daemon, netLock, served>>

\* Mutant: the lock is held for the reconciliation, and not for the launch.
ReconcileReleases(p) ==
    /\ pc[p] = "reconcile"
    /\ daemon' = needed[p]
    /\ Then(p, IF Starts(p) THEN "launch" ELSE "finished")
    /\ netLock' = Released(p)
    /\ UNCHANGED <<machine, needed, served>>

\* Second half: the daemon is started or stopped.
Reconcile(p) ==
    /\ pc[p] = "reconcile"
    /\ daemon' = needed[p]
    /\ Then(p, IF Starts(p) THEN "launch" ELSE "finished")
    /\ netLock' = IF Starts(p) THEN netLock ELSE Released(p)
    /\ UNCHANGED <<machine, needed, served>>

\* native.start: the host agent is started and awaited. Lima refuses a VM
\* that an earlier start has left with one.
Launch(p) ==
    /\ pc[p] = "launch" /\ machine[VM(p)] = "stopped"
    /\ machine' = [machine EXCEPT ![VM(p)] = "booting"]
    /\ served' = served \ {VM(p)}
    /\ Then(p, "booting")
    /\ UNCHANGED <<daemon, needed, netLock>>

LaunchDone(p) ==
    /\ pc[p] = "booting" /\ machine[VM(p)] = "running"
    /\ Then(p, "launched")
    /\ UNCHANGED <<machine, daemon, needed, netLock, served>>

\* stopCancellation: a cancellation that came first wins, and kills.
Settle(p) ==
    /\ pc[p] = "launched"
    /\ \/ /\ p \in cancelled
          /\ machine' \in {machine, [machine EXCEPT ![VM(p)] = "stopped"]}
          /\ Then(p, "failed")
          /\ UNCHANGED served
       \/ /\ p \notin cancelled
          /\ served' = served \cup {VM(p)}
          /\ Then(p, "finished")
          /\ UNCHANGED machine
    /\ netLock' = Released(p)
    /\ UNCHANGED <<daemon, needed>>

\* Mutant: the wait for the lock does not look at the context.
FailWaiting(p) ==
    /\ pc[p] \in {"inspect", "prepare", "count", "reconcile", "launch", "booting", "halt"}
    /\ Then(p, "failed")
    /\ netLock' = Released(p)
    /\ UNCHANGED <<machine, daemon, needed, served>>

\* Mutant: an error in the locked part leaves the lock file open.
FailLocked(p) ==
    /\ pc[p] \in {"inspect", "prepare", "lock", "count", "reconcile", "launch", "booting", "halt"}
    /\ Then(p, "failed")
    /\ UNCHANGED <<machine, daemon, needed, netLock, served>>

\* Any call fails, also because the context is done. A launch that fails
\* kills the host agent, which may be too late; a failed stop or deletion may
\* have stopped the VM; a failed reconciliation may have done its work.
Fail(p) ==
    /\ pc[p] \in {"inspect", "prepare", "lock", "count", "reconcile", "launch", "booting", "halt"}
    /\ \/ pc[p] \in {"booting", "halt"} /\ machine[VM(p)] # "absent"
          /\ machine' = [machine EXCEPT ![VM(p)] = "stopped"]
          /\ served' = served \ {VM(p)}
          /\ UNCHANGED daemon
       \/ pc[p] = "reconcile" /\ daemon' = needed[p] /\ UNCHANGED <<machine, served>>
       \/ UNCHANGED <<machine, daemon, served>>
    /\ Then(p, "failed")
    /\ netLock' = Released(p)
    /\ UNCHANGED needed

End(p) ==
    /\ pc' = [pc EXCEPT ![p] = "idle"]
    /\ job' = [job EXCEPT ![p] = NoJob]
    /\ cancelled' = cancelled \ {p}
    /\ needed' = [needed EXCEPT ![p] = FALSE]
    /\ netLock' = Released(p)
    /\ UNCHANGED <<machine, daemon, served>>

\* The command reports and ends.
Finish(p) == pc[p] \in {"finished", "failed"} /\ End(p)

\* Its process is killed at any step; the host agent lives on.
Die(p) == pc[p] # "idle" /\ End(p)

Cancel(p) ==
    /\ pc[p] # "idle" /\ p \notin cancelled
    /\ cancelled' = cancelled \cup {p}
    /\ UNCHANGED <<pc, job, machine, daemon, needed, netLock, served>>

\* A VM comes up, or goes down by itself.
Boots(v) ==
    /\ machine[v] = "booting"
    /\ machine' = [machine EXCEPT ![v] = "running"]
    /\ UNCHANGED <<pc, cancelled, job, daemon, needed, netLock, served>>

Halts(v) ==
    /\ machine[v] \in {"booting", "running"}
    /\ machine' = [machine EXCEPT ![v] = "stopped"]
    /\ served' = served \ {v}
    /\ UNCHANGED <<pc, cancelled, job, daemon, needed, netLock>>

Transition(p) ==
    \/ Create(p) \/ Inspect(p) \/ Prepare(p) \/ Acquire(p) \/ Halt(p) \/ Count(p)
    \/ Reconcile(p) \/ Launch(p) \/ LaunchDone(p) \/ Settle(p) \/ Fail(p)
    \/ Finish(p)

Next ==
    \/ \E p \in Procs : Begin(p) \/ Transition(p) \/ Die(p) \/ Cancel(p)
    \/ \E v \in VMs : Boots(v) \/ Halts(v)

Init ==
    /\ pc = [p \in Procs |-> "idle"]
    /\ cancelled = {}
    /\ job = [p \in Procs |-> NoJob]
    /\ machine \in [VMs -> {"absent", "stopped"}]
    /\ daemon = FALSE
    /\ needed = [p \in Procs |-> FALSE]
    /\ netLock = None
    /\ served = {}

\* A cancelled command makes its calls, and Lima's return. Nothing is assumed
\* of commands that were not cancelled: they may hold the network lock, or
\* wait for a VM to come up, for ever.
Fairness == \A p \in Procs : WF_vars(p \in cancelled /\ Transition(p))

Spec == Init /\ [][Next]_vars /\ Fairness

-----------------------------------------------------------------------------
(* Properties                                                              *)

\* The variables keep their types; the network lock is held exactly from
\* taking it to the end of the launch or of the reconciliation, so that no
\* failed or dead command keeps it.
TypeOK ==
    /\ pc \in [Procs -> Labels]
    /\ cancelled \in SUBSET Procs
    /\ job \in [Procs -> [op : Operations \cup {"none"}, vm : VMs \cup {None}]]
    /\ machine \in [VMs -> {"absent", "stopped", "booting", "running"}]
    /\ daemon \in BOOLEAN
    /\ needed \in [Procs -> BOOLEAN]
    /\ netLock \in Procs \cup {None}
    /\ served \in SUBSET VMs
    /\ \A p \in Procs : netLock = p <=>
        pc[p] \in {"halt", "count", "reconcile", "launch", "booting", "launched"}

\* A VM whose launch succeeded has the helper as long as it runs: no stop,
\* deletion or failed start of another VM takes it away, although the
\* reconciler does not see a VM before it is up. (A start that finds its VM
\* running launches nothing, and promises nothing.)
HelperServes == \A v \in served \cap Shared : machine[v] = "running" => daemon

\* A command that is cancelled ends, whoever holds the network lock, and
\* although its VM never comes up.
CancelledReturns ==
    \A p \in Procs : p \in cancelled ~> p \notin cancelled \/ pc[p] \in {"finished", "failed"}

=============================================================================
