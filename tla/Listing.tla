------------------------------- MODULE Listing -------------------------------
(***************************************************************************)
(* limanix list beside the commands of module Lifecycle (internal/state:   *)
(* list.go, lock.go).                                                      *)
(*                                                                         *)
(* A listing reads identity.json and instance.json of a name without a     *)
(* lock. A record of an unfinished operation makes it try a shared lock:   *)
(* if a command holds the VM lock the operation is running and the entry   *)
(* stands as read, otherwise both files are read again under the shared    *)
(* lock and an operation that is still unfinished was interrupted.         *)
(*                                                                         *)
(* Listings share the lock with each other; a command is refused while any *)
(* listing holds it.                                                       *)
(***************************************************************************)
EXTENDS Lifecycle

CONSTANT Lists      \* limanix processes that list

ASSUME ListsAssumption == None \notin Lists

VARIABLES
    step,       \* the next call of each listing
    entry,      \* the identity and record each listing has read
    shared      \* listings that hold the VM lock, shared

reading    == <<step, entry, shared>>
listedVars == <<vars, reading>>

(* domain.Status.InFlight.                                                 *)
InFlight == {"creating", "updating", "deleting"}

Entries == [id : Ids \union {None},
            status : Statuses \union {"absent", "interrupted"},
            gen : Gens \union {None}]
NoEntry == [id |-> None, status |-> "absent", gen |-> None]

Damaged(i) == [NoEntry EXCEPT !.id = i]

(* identity.json gives the entry its owner, instance.json the rest.        *)
Loaded(i) == [id |-> i, status |-> record.status, gen |-> record.gen]

ListInit ==
    /\ Init
    /\ step = [l \in Lists |-> "idle"]
    /\ entry = [l \in Lists |-> NoEntry]
    /\ shared = {}

Step(l, s, e) ==
    /\ step' = [step EXCEPT ![l] = s]
    /\ entry' = [entry EXCEPT ![l] = e]
    /\ UNCHANGED vars

-----------------------------------------------------------------------------
(* One entry of Store.FetchAll                                             *)

(* ReadDir has seen the name.                                              *)
BeginList(l) ==
    /\ step[l] = "idle"
    /\ directory = "present"
    /\ Step(l, "readIdentity", NoEntry)
    /\ UNCHANGED shared

(* Any read can fail; the name may also be gone by now.                    *)
ReadIdentity(l) ==
    /\ step[l] \in {"readIdentity", "rereadIdentity"}
    /\ \/ /\ identity # None
          /\ Step(l, IF step[l] = "readIdentity" THEN "readRecord"
                      ELSE "rereadRecord",
                   [entry[l] EXCEPT !.id = identity])
       \/ Step(l, "report", NoEntry)
    /\ UNCHANGED shared

ReadRecord(l) ==
    /\ step[l] = "readRecord"
    /\ \/ /\ record # NoRecord
          /\ Step(l, IF record.status \in InFlight THEN "tryLock" ELSE "report",
                   Loaded(entry[l].id))
       \/ Step(l, "report", Damaged(entry[l].id))
    /\ UNCHANGED shared

(* Mutant: the listing waits for the lock.                                 *)
TryLockWaits(l) ==
    /\ step[l] = "tryLock"
    /\ lock = None
    /\ shared' = shared \union {l}
    /\ Step(l, "rereadIdentity", entry[l])

(* Mutant: the listing takes the lock exclusively.                         *)
TryLockExclusive(l) ==
    /\ step[l] = "tryLock"
    /\ IF lock = None /\ shared = {}
       THEN shared' = {l} /\ Step(l, "rereadIdentity", entry[l])
       ELSE UNCHANGED shared /\ Step(l, "report", entry[l])

TryLock(l) ==
    /\ step[l] = "tryLock"
    /\ \/ /\ lock = None
          /\ shared' = shared \union {l}
          /\ Step(l, "rereadIdentity", entry[l])
       \/ /\ lock # None
          /\ UNCHANGED shared
          /\ Step(l, "report", entry[l])
       \/ /\ UNCHANGED shared          \* the lock file cannot be used
          /\ Step(l, "report", Damaged(entry[l].id))

Interrupted(e) ==
    IF e.status \in InFlight THEN [e EXCEPT !.status = "interrupted"] ELSE e

(* Mutant: the record read before the lock was taken is reported.          *)
RereadRecordStale(l) ==
    /\ step[l] = "rereadRecord"
    /\ Step(l, "report", Interrupted(entry[l]))
    /\ UNCHANGED shared

RereadRecord(l) ==
    /\ step[l] = "rereadRecord"
    /\ \/ /\ record # NoRecord
          /\ Step(l, "report", Interrupted(Loaded(entry[l].id)))
       \/ Step(l, "report", Damaged(entry[l].id))
    /\ UNCHANGED shared

(* Mutant: the lock is left to the end of the process.                     *)
ReportKeepsLock(l) ==
    /\ step[l] = "report"
    /\ Step(l, "idle", NoEntry)
    /\ UNCHANGED shared

Report(l) ==
    /\ step[l] = "report"
    /\ shared' = shared \ {l}
    /\ Step(l, "idle", NoEntry)

(* The listing process dies.                                               *)
EndList(l) ==
    /\ step[l] # "idle"
    /\ shared' = shared \ {l}
    /\ Step(l, "idle", NoEntry)

List(l) ==
    ReadIdentity(l) \/ ReadRecord(l) \/ TryLock(l) \/ RereadRecord(l) \/ Report(l)

-----------------------------------------------------------------------------
(* Commands beside listings: the exclusive lock needs all of it.           *)

Command ==
    /\ Next
    /\ shared # {} => lock' = lock
    /\ UNCHANGED reading

ListNext ==
    \/ Command
    \/ \E l \in Lists : BeginList(l) \/ List(l) \/ EndList(l)

(* A listing makes its calls; nothing is assumed of the commands, which    *)
(* may hold the lock for ever.                                             *)
ListSpec ==
    ListInit /\ [][ListNext]_listedVars /\ \A l \in Lists : WF_listedVars(List(l))

-----------------------------------------------------------------------------
(* Properties                                                              *)

(* The variables of the listings keep their types; a listing holds the     *)
(* lock only from a successful try until it reports the entry.             *)
ListTypeOK ==
    /\ step \in [Lists -> {"idle", "readIdentity", "readRecord", "tryLock",
                           "rereadIdentity", "rereadRecord", "report"}]
    /\ entry \in [Lists -> Entries]
    /\ shared \subseteq
          {l \in Lists : step[l] \in {"rereadIdentity", "rereadRecord", "report"}}

(* An entry reported as interrupted is so when it is reported: no command  *)
(* runs on the name, its record is that of an unfinished operation of the  *)
(* reported VM and generation, whatever completed, failed or was deleted   *)
(* and created anew since the listing first read the files                 *)
(* (list.go refreshInterruptedEntry).                                      *)
InterruptedJustified ==
    \A l \in Lists :
        step[l] = "report" /\ entry[l].status = "interrupted" =>
            /\ lock = None
            /\ identity = entry[l].id
            /\ record.status \in InFlight
            /\ record.gen = entry[l].gen

(* An operation is reported as in progress only if a command is running on *)
(* the VM when the listing looks: another listing does not make it so      *)
(* (domain.Interrupted: "an in-flight record has no writer").              *)
InFlightHasWriter ==
    [][\A l \in Lists :
          /\ step[l] # "report" /\ step'[l] = "report"
          /\ entry'[l].status \in InFlight
          => lock # None]_listedVars

(* A listing ends even if a command holds the VM lock for ever: it never   *)
(* waits for the lock (list.go, vmLock with no timeout).                   *)
ListReturns == \A l \in Lists : step[l] # "idle" ~> step[l] = "idle"

=============================================================================
