-------------------------- MODULE SharedNetworkProofs --------------------------
(***************************************************************************)
(* Proofs about SharedNetwork for every set of commands and of VMs: the    *)
(* network lock is held exactly from taking it to the end of the launch or *)
(* of the reconciliation, and a VM whose launch succeeded has the helper   *)
(* as long as it runs.                                                     *)
(*                                                                         *)
(* The argument follows what a reconciliation has counted until it is      *)
(* carried out, and the helper it has provided until the VM is launched.   *)
(***************************************************************************)
EXTENDS SharedNetwork, TLAPS

Launching(p) == pc[p] \in {"launch", "booting", "launched"}

\* A command works on a VM until it ends.
JobsNamed == \A p \in Procs : pc[p] # "idle" => VM(p) \in VMs

\* What a reconciliation has counted stays enough until it is carried out:
\* no VM is served, and comes up, in between.
CountsCover ==
    \A p \in Procs : pc[p] = "reconcile" =>
        \A v \in Shared :
            (v \in served /\ machine[v] = "running") \/ (Starts(p) /\ v = VM(p))
                => needed[p]

\* The helper is kept for a VM that is being launched.
LaunchesCovered == \A p \in Procs : Launching(p) /\ VM(p) \in Shared => daemon

\* A VM that is still to come up is not one whose launch has succeeded.
ServedAreUp ==
    /\ \A v \in served : machine[v] # "booting"
    /\ \A p \in Procs : pc[p] = "launched" => machine[VM(p)] # "booting"

IInv ==
    /\ TypeOK
    /\ HelperServes
    /\ JobsNamed
    /\ CountsCover
    /\ LaunchesCovered
    /\ ServedAreUp

-----------------------------------------------------------------------------

LEMMA InitIInv == Init => IInv
<1> SUFFICES ASSUME Init
             PROVE  IInv
  OBVIOUS
<1> USE SharedAssumption DEF Init
<1>1. TypeOK
  BY DEF TypeOK, Labels, NoJob
<1>2. HelperServes /\ JobsNamed /\ CountsCover /\ LaunchesCovered /\ ServedAreUp
  BY DEF HelperServes, JobsNamed, CountsCover, LaunchesCovered, ServedAreUp, Launching
<1> QED BY <1>1, <1>2 DEF IInv

-----------------------------------------------------------------------------
(* Calls outside the network lock                                          *)

LEMMA BeginKeeps ==
    ASSUME NEW p \in Procs, IInv, Begin(p)
    PROVE  IInv'
<1> USE DEF IInv, Begin
<1>1. PICK v \in VMs, op \in Operations :
          job' = [job EXCEPT ![p] = [op |-> op, vm |-> v]]
  OBVIOUS
<1>2. TypeOK'
  BY <1>1 DEF TypeOK, Labels
<1>3. JobsNamed'
  BY <1>1 DEF TypeOK, JobsNamed, VM
<1>4. HelperServes' /\ CountsCover' /\ LaunchesCovered' /\ ServedAreUp'
  BY <1>1 DEF TypeOK, HelperServes, CountsCover, LaunchesCovered, ServedAreUp,
     Launching, Starts, VM
<1> QED BY <1>2, <1>3, <1>4

\* A command goes on, outside the lock, and leaves the VMs in Lima as they
\* are or creates one.
LEMMA UnlockedKeeps ==
    ASSUME NEW p \in Procs, NEW l \in {"finished", "lock", "prepare"}, IInv,
           Then(p, l), pc[p] \in {"inspect", "prepare"},
           \/ machine' = machine
           \/ machine' = [machine EXCEPT ![VM(p)] = "stopped"],
           UNCHANGED <<daemon, needed, netLock, served>>
    PROVE  IInv'
<1> USE DEF IInv, Then
<1>1. TypeOK'
  BY DEF TypeOK, Labels
<1>2. HelperServes' /\ JobsNamed' /\ CountsCover' /\ LaunchesCovered' /\ ServedAreUp'
  BY SharedAssumption
  DEF TypeOK, HelperServes, JobsNamed, CountsCover, LaunchesCovered,
      ServedAreUp, Launching, Starts, VM
<1> QED BY <1>1, <1>2

LEMMA OutsideKeeps ==
    ASSUME NEW p \in Procs, IInv, Create(p) \/ Inspect(p) \/ Prepare(p)
    PROVE  IInv'
<1>1. CASE Create(p)
  BY <1>1, UnlockedKeeps DEF Create
<1>2. CASE Inspect(p)
  <2>1. PICK l \in {"finished", "lock", "prepare"} : Then(p, l)
    BY <1>2 DEF Inspect
  <2> QED BY <1>2, <2>1, UnlockedKeeps DEF Inspect
<1>3. CASE Prepare(p)
  BY <1>3, UnlockedKeeps DEF Prepare
<1> QED BY <1>1, <1>2, <1>3

-----------------------------------------------------------------------------
(* Calls under the network lock                                            *)

LEMMA AcquireKeeps ==
    ASSUME NEW p \in Procs, IInv, Acquire(p)
    PROVE  IInv'
<1> USE SharedAssumption DEF IInv, Acquire, Then
<1>1. TypeOK'
  BY DEF TypeOK, Labels
<1>2. HelperServes' /\ JobsNamed' /\ CountsCover' /\ LaunchesCovered' /\ ServedAreUp'
  BY DEF TypeOK, HelperServes, JobsNamed, CountsCover, LaunchesCovered,
     ServedAreUp, Launching, Starts, VM
<1> QED BY <1>1, <1>2

LEMMA HaltKeeps ==
    ASSUME NEW p \in Procs, IInv, Halt(p)
    PROVE  IInv'
<1> USE SharedAssumption DEF IInv, Halt, Then
<1>1. TypeOK'
  BY DEF TypeOK, Labels
<1>2. HelperServes' /\ JobsNamed' /\ CountsCover' /\ LaunchesCovered' /\ ServedAreUp'
  BY DEF TypeOK, HelperServes, JobsNamed, CountsCover, LaunchesCovered,
     ServedAreUp, Launching, Starts, VM
<1> QED BY <1>1, <1>2

\* The count covers the VMs that run, and the one that is started.
LEMMA CountKeeps ==
    ASSUME NEW p \in Procs, IInv, Count(p)
    PROVE  IInv'
<1> USE SharedAssumption DEF IInv, Count, Then
<1>1. TypeOK'
  BY DEF TypeOK, Labels
<1>2. CountsCover'
  BY DEF TypeOK, CountsCover, Starts, VM
<1>3. HelperServes' /\ JobsNamed' /\ LaunchesCovered' /\ ServedAreUp'
  BY DEF TypeOK, HelperServes, JobsNamed, LaunchesCovered, ServedAreUp,
     Launching, VM
<1> QED BY <1>1, <1>2, <1>3

\* The daemon that follows a count is enough for the VMs that are served, and
\* nobody else is launching one under the same lock.
LEMMA DaemonCovers ==
    ASSUME NEW p \in Procs, IInv, pc[p] = "reconcile"
    PROVE  /\ \A v \in served \cap Shared : machine[v] = "running" => needed[p]
           /\ Starts(p) /\ VM(p) \in Shared => needed[p]
           /\ \A q \in Procs : q # p =>
                pc[q] \notin {"halt", "count", "reconcile", "launch", "booting", "launched"}
BY DEF IInv, TypeOK, CountsCover

LEMMA ReconcileKeeps ==
    ASSUME NEW p \in Procs, IInv, Reconcile(p)
    PROVE  IInv'
<1> USE SharedAssumption DEF IInv, Reconcile, Then, Released
<1>1. pc[p] = "reconcile"
  OBVIOUS
<1>2. TypeOK'
  BY DEF TypeOK, Labels
<1>3. HelperServes' /\ LaunchesCovered'
  BY <1>1, DaemonCovers DEF TypeOK, HelperServes, LaunchesCovered, Launching, VM
<1>4. JobsNamed' /\ CountsCover' /\ ServedAreUp'
  BY <1>1 DEF TypeOK, JobsNamed, CountsCover, ServedAreUp, Starts, VM
<1> QED BY <1>2, <1>3, <1>4

LEMMA LaunchKeeps ==
    ASSUME NEW p \in Procs, IInv, Launch(p) \/ LaunchDone(p)
    PROVE  IInv'
<1> USE SharedAssumption DEF IInv, Launch, LaunchDone, Then
<1>1. TypeOK'
  BY DEF TypeOK, Labels
<1>2. HelperServes' /\ CountsCover' /\ LaunchesCovered'
  BY DEF TypeOK, HelperServes, CountsCover, LaunchesCovered, Launching, Starts, VM
<1>3. JobsNamed' /\ ServedAreUp'
  BY DEF TypeOK, JobsNamed, ServedAreUp, VM
<1> QED BY <1>1, <1>2, <1>3

LEMMA SettleKeeps ==
    ASSUME NEW p \in Procs, IInv, Settle(p)
    PROVE  IInv'
<1> USE SharedAssumption DEF IInv, Settle, Then, Released
<1>1. VM(p) \in VMs /\ (VM(p) \in Shared => daemon) /\ machine[VM(p)] # "booting"
  BY DEF JobsNamed, LaunchesCovered, Launching, ServedAreUp
<1>2. TypeOK'
  BY <1>1 DEF TypeOK, Labels
<1>3. HelperServes' /\ CountsCover'
  BY <1>1 DEF TypeOK, HelperServes, CountsCover, Starts, VM
<1>4. JobsNamed' /\ LaunchesCovered' /\ ServedAreUp'
  BY <1>1 DEF TypeOK, JobsNamed, LaunchesCovered, ServedAreUp, Launching, VM
<1> QED BY <1>2, <1>3, <1>4

-----------------------------------------------------------------------------
(* Failures, deaths, and what VMs do by themselves                         *)

LEMMA FailKeeps ==
    ASSUME NEW p \in Procs, IInv, Fail(p)
    PROVE  IInv'
<1> USE SharedAssumption DEF IInv, Then, Released
<1>1. pc[p] # "idle" /\ Then(p, "failed") /\ netLock' = Released(p) /\ UNCHANGED needed
  BY DEF Fail
<1>2. CASE /\ machine' = [machine EXCEPT ![VM(p)] = "stopped"]
           /\ served' = served \ {VM(p)}
           /\ UNCHANGED daemon
  <2>1. TypeOK'
    BY <1>1, <1>2 DEF TypeOK, Labels
  <2>2. HelperServes' /\ CountsCover'
    BY <1>1, <1>2 DEF TypeOK, HelperServes, CountsCover, Starts, VM
  <2>3. JobsNamed' /\ LaunchesCovered' /\ ServedAreUp'
    BY <1>1, <1>2
    DEF TypeOK, JobsNamed, LaunchesCovered, ServedAreUp, Launching, VM
  <2> QED BY <2>1, <2>2, <2>3
<1>3. CASE pc[p] = "reconcile" /\ daemon' = needed[p] /\ UNCHANGED <<machine, served>>
  <2>1. TypeOK'
    BY <1>1, <1>3 DEF TypeOK, Labels
  <2>2. HelperServes' /\ LaunchesCovered'
    BY <1>1, <1>3, DaemonCovers
    DEF TypeOK, HelperServes, LaunchesCovered, Launching, VM
  <2>3. JobsNamed' /\ CountsCover' /\ ServedAreUp'
    BY <1>1, <1>3 DEF TypeOK, JobsNamed, CountsCover, ServedAreUp, Starts, VM
  <2> QED BY <2>1, <2>2, <2>3
<1>4. CASE UNCHANGED <<machine, daemon, served>>
  <2>1. TypeOK'
    BY <1>1, <1>4 DEF TypeOK, Labels
  <2>2. HelperServes' /\ CountsCover'
    BY <1>1, <1>4 DEF TypeOK, HelperServes, CountsCover, Starts, VM
  <2>3. JobsNamed' /\ LaunchesCovered' /\ ServedAreUp'
    BY <1>1, <1>4
    DEF TypeOK, JobsNamed, LaunchesCovered, ServedAreUp, Launching, VM
  <2> QED BY <2>1, <2>2, <2>3
<1> QED BY <1>2, <1>3, <1>4 DEF Fail

LEMMA EndKeeps ==
    ASSUME NEW p \in Procs, IInv, End(p)
    PROVE  IInv'
<1> USE SharedAssumption DEF IInv, End, Released
<1>1. TypeOK'
  BY DEF TypeOK, Labels, NoJob
<1>2. HelperServes' /\ JobsNamed' /\ CountsCover' /\ LaunchesCovered' /\ ServedAreUp'
  BY DEF TypeOK, HelperServes, JobsNamed, CountsCover, LaunchesCovered,
     ServedAreUp, Launching, Starts, VM
<1> QED BY <1>1, <1>2

LEMMA CancelKeeps ==
    ASSUME NEW p \in Procs, IInv, Cancel(p)
    PROVE  IInv'
BY DEF Cancel, IInv, TypeOK, HelperServes, JobsNamed, CountsCover,
   LaunchesCovered, ServedAreUp, Launching, Starts, VM

\* A VM that comes up was not served, so it is none that a count, or the
\* helper, has to cover.
LEMMA MachineKeeps ==
    ASSUME NEW v \in VMs, IInv, Boots(v) \/ Halts(v)
    PROVE  IInv'
<1> USE SharedAssumption DEF IInv, Boots, Halts
<1>1. TypeOK'
  BY DEF TypeOK
<1>2. HelperServes' /\ JobsNamed' /\ CountsCover' /\ LaunchesCovered' /\ ServedAreUp'
  BY DEF TypeOK, HelperServes, JobsNamed, CountsCover, LaunchesCovered,
     ServedAreUp, Launching, Starts, VM
<1> QED BY <1>1, <1>2

LEMMA NextIInv ==
    ASSUME IInv, [Next]_vars
    PROVE  IInv'
<1>1. CASE UNCHANGED vars
  BY <1>1 DEF vars, IInv, TypeOK, HelperServes, JobsNamed, CountsCover,
     LaunchesCovered, ServedAreUp, Launching, Starts, VM
<1>2. ASSUME NEW p \in Procs, Transition(p)
      PROVE  IInv'
  BY <1>2, OutsideKeeps, AcquireKeeps, HaltKeeps, CountKeeps, ReconcileKeeps,
     LaunchKeeps, SettleKeeps, FailKeeps, EndKeeps DEF Transition, Finish
<1> QED BY <1>1, <1>2, BeginKeeps, EndKeeps, CancelKeeps, MachineKeeps
        DEF Next, Die

LEMMA Invariance == Spec => []IInv
BY InitIInv, NextIInv, PTL DEF Spec

-----------------------------------------------------------------------------
(* The properties                                                          *)

\* The variables keep their types, and the network lock of network_lock.go
\* is held exactly from taking it to the end of the launch or of the
\* reconciliation: no failed or dead command keeps it.
THEOREM TypeCorrect == Spec => []TypeOK
<1>1. IInv => TypeOK
  BY DEF IInv
<1> QED BY <1>1, Invariance, PTL

\* A VM whose launch succeeded has the helper as long as it runs, whatever
\* commands on other VMs count and reconcile (lifecycle.go, launch.go).
THEOREM HelperKept == Spec => []HelperServes
<1>1. IInv => HelperServes
  BY DEF IInv
<1> QED BY <1>1, Invariance, PTL

=============================================================================
