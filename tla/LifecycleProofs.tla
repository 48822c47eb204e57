--------------------------- MODULE LifecycleProofs ---------------------------
(***************************************************************************)
(* Proofs about the commands of limanix, for every number of processes,    *)
(* identities, generations and listings.                                   *)
(*                                                                         *)
(*   - Lifecycle keeps its safety properties: IInv holds initially, every  *)
(*     step of every command preserves it, and it implies the properties.  *)
(*   - Lifecycle implements Ownership: each call on disk or in Lima is one *)
(*     step of Ownership or invisible to it.                               *)
(*   - Listing implements Lifecycle, so all of this holds beside listings, *)
(*     and what a listing reports is true.                                 *)
(***************************************************************************)
EXTENDS LifecycleInv, Listing, TLAPS

LEMMA RecordFacts == NoRecord \notin Records /\ NoJob \notin Jobs
  BY DEF NoRecord, Records, Statuses, NoJob, Jobs

-----------------------------------------------------------------------------
(* Control: only the holder of the lock moves.                             *)

LEMMA GotoFacts ==
    ASSUME NEW p \in Procs, NEW l \in Labels, ControlOK, Exclusive,
           pc[p] # "idle", Goto(p, l)
    PROVE  /\ ControlOK' /\ Exclusive'
           /\ pc'[p] = l /\ job'[p] = job[p]
           /\ \A q \in Procs : q # p => pc'[q] = "idle"
<1>1. lock = p /\ \A q \in Procs : q # p => pc[q] = "idle"
  BY NoneAssumption DEF Exclusive
<1>2. ControlOK' /\ pc'[p] = l /\ job'[p] = job[p]
  BY DEF ControlOK, Goto
<1>3. \A q \in Procs : q # p => pc'[q] = "idle"
  BY <1>1 DEF ControlOK, Goto
<1>4. Exclusive'
  BY <1>1, <1>3 DEF Exclusive, Goto
<1> QED BY <1>2, <1>3, <1>4

LEMMA ReturnFacts ==
    ASSUME NEW p \in Procs, ControlOK, Exclusive, pc[p] # "idle", Return(p)
    PROVE  /\ ControlOK' /\ Exclusive'
           /\ \A q \in Procs : pc'[q] = "idle"
<1>1. \A q \in Procs : q # p => pc[q] = "idle"
  BY DEF Exclusive
<1>2. ControlOK' /\ \A q \in Procs : pc'[q] = "idle"
  BY <1>1 DEF ControlOK, Return, Labels
<1> QED BY <1>2 DEF Exclusive

(* A command that goes on preserves the invariant if it keeps the data     *)
(* invariant and knows what its next call relies on.                       *)
LEMMA Advance ==
    ASSUME NEW p \in Procs, NEW l \in Labels, IInv, pc[p] # "idle",
           Goto(p, l), DataInv', Running(p)'
    PROVE  IInv'
<1>1. /\ ControlOK' /\ Exclusive'
      /\ \A q \in Procs : q # p => pc'[q] = "idle"
  BY GotoFacts DEF IInv
<1> QED BY <1>1 DEF IInv, Running

(* A command that returns or dies preserves it if it keeps the data        *)
(* invariant.                                                              *)
LEMMA Finish ==
    ASSUME NEW p \in Procs, IInv, pc[p] # "idle", Return(p), DataInv'
    PROVE  IInv'
<1>1. ControlOK' /\ Exclusive' /\ \A q \in Procs : pc'[q] = "idle"
  BY ReturnFacts DEF IInv
<1> QED BY <1>1 DEF IInv, Running

(* The first step of a command.                                            *)
LEMMA Start ==
    ASSUME NEW p \in Procs, NEW l \in Labels, NEW j \in Jobs, IInv,
           Begin(p, j, l), Running(p)'
    PROVE  IInv' /\ pc'[p] = l /\ job'[p] = j
<1>1. \A q \in Procs : pc[q] = "idle"
  BY NoneAssumption DEF IInv, Exclusive, Begin
<1>2. ControlOK' /\ pc'[p] = l /\ job'[p] = j
  BY DEF IInv, ControlOK, Begin
<1>3. \A q \in Procs : q # p => pc'[q] = "idle"
  BY <1>1 DEF IInv, ControlOK, Begin
<1>4. Exclusive'
  BY <1>3 DEF Exclusive, Begin
<1>5. DataInv'
  BY DEF IInv, DataInv, Begin, DataOK, AbsentIsEmpty, ReadyIsComplete,
     MachineInputsKept, SavedGenerationKept, BackendOwned, HomeAccounted,
     files, storage, backend
<1> QED BY <1>2, <1>3, <1>4, <1>5 DEF IInv, Running

-----------------------------------------------------------------------------
(* Effects on disk and in Lima.                                            *)

LEMMA UnchangedKeepsData ==
    ASSUME DataInv, UnchangedData
    PROVE  DataInv'
BY DEF DataInv, UnchangedData, DataOK, AbsentIsEmpty, ReadyIsComplete,
   MachineInputsKept, SavedGenerationKept, BackendOwned, HomeAccounted,
   files, storage, backend

(* Save, complete or not, keeps the data invariant if the generation it    *)
(* selects is whole whenever there is a machine, a ready status is true,   *)
(* and the identity it may record is the only one with a home to account   *)
(* for.                                                                    *)
LEMMA SavedKeepsData ==
    ASSUME NEW p \in Procs, NEW s \in Statuses, NEW n \in 0..3,
           DataInv, SavedSteps(p, s, n),
           job[p].id \in Ids, job[p].gen \in Gens,
           identity \in {None, job[p].id},
           \A i \in Ids : homes[i] # "absent" /\ i # job[p].id => i \in archive,
           machine[job[p].id] # "none" => gens[job[p].gen] = "whole",
           s = "ready" => /\ machine[job[p].id] # "none"
                          /\ config[job[p].id] = job[p].gen
                          /\ applied[job[p].id] = job[p].gen
    PROVE  DataInv'
<1> USE DEF DataInv
<1>1. DataOK'
  BY DEF SavedSteps, DataOK, storage, backend, Records
<1>2. AbsentIsEmpty'
  BY DEF SavedSteps, DataOK, AbsentIsEmpty, storage, backend
<1>3. (ReadFaults \/ ReadyIsComplete)'
  BY NoneAssumption
  DEF SavedSteps, DataOK, ReadyIsComplete, MachineInputsKept, BackendOwned,
      storage, backend
<1>4. MachineInputsKept'
  BY DEF SavedSteps, MachineInputsKept, storage, backend
<1>5. SavedGenerationKept'
  BY NoneAssumption
  DEF SavedSteps, DataOK, SavedGenerationKept, BackendOwned, storage, backend
<1>6. BackendOwned'
  BY NoneAssumption DEF SavedSteps, DataOK, BackendOwned, storage, backend
<1>7. HomeAccounted'
  BY NoneAssumption DEF SavedSteps, DataOK, HomeAccounted, AbsentIsEmpty, storage, backend
<1> QED BY <1>1, <1>2, <1>3, <1>4, <1>5, <1>6, <1>7

(* RemoveAll of the state directory, complete or not, once no machine is   *)
(* left and every home is gone or archived.                                *)
LEMMA RemovedKeepsData ==
    ASSUME DataInv, Remove \/ RemoveFailed,
           ReadFaults \/ record.status # "ready",
           \A i \in Ids : machine[i] = "none",
           \A i \in Ids : homes[i] # "absent" => i \in archive
    PROVE  DataInv'
<1> USE DEF DataInv
<1>1. DataOK'
  BY DEF Remove, RemoveFailed, ShrinkGens, DataOK, storage, backend, TreeStates
<1>2. AbsentIsEmpty'
  BY DEF Remove, RemoveFailed, ShrinkGens, DataOK, AbsentIsEmpty, Shrunk
<1>3. (ReadFaults \/ ReadyIsComplete)'
  BY DEF Remove, RemoveFailed, ReadyIsComplete, NoRecord
<1>4. MachineInputsKept' /\ BackendOwned' /\ HomeAccounted'
  BY DEF Remove, RemoveFailed, MachineInputsKept, BackendOwned, HomeAccounted,
     storage, backend
<1>5. SavedGenerationKept'
  BY DEF Remove, RemoveFailed, SavedGenerationKept, DataOK, storage, backend
<1> QED BY <1>1, <1>2, <1>3, <1>4, <1>5

(* Removing a home, wholly or in part, when no machine mounts it.          *)
LEMMA RemovedHomeKeepsData ==
    ASSUME NEW i \in Ids, DataInv, RemoveHome(i) \/ RemoveHomeFailed(i),
           machine[i] = "none", ReadFaults \/ record.status # "ready"
    PROVE  DataInv'
<1> USE DEF DataInv, RemoveHome, RemoveHomeFailed, files, backend
<1>1. DataOK'
  BY DEF DataOK, Shrunk, TreeStates
<1>2. AbsentIsEmpty' /\ BackendOwned' /\ SavedGenerationKept'
  BY DEF AbsentIsEmpty, BackendOwned, SavedGenerationKept
<1>3. (ReadFaults \/ ReadyIsComplete)'
  BY DEF ReadyIsComplete
<1>4. MachineInputsKept'
  BY DEF DataOK, MachineInputsKept
<1>5. HomeAccounted'
  BY DEF DataOK, HomeAccounted, Shrunk
<1> QED BY <1>1, <1>2, <1>3, <1>4, <1>5

(* A Lima or guest call on the recorded identity: a machine over a whole   *)
(* generation and home, or none, and no change of a ready VM but power.    *)
LEMMA LimaKeepsData ==
    ASSUME NEW i \in Ids, NEW m \in {"none", "stopped", "running"},
           NEW c \in Gens \union {None}, NEW a \in Gens \union {None},
           DataInv, Lima(i, m, c, a), identity = i,
           m # "none" => /\ c \in Gens
                         /\ gens[c] = "whole"
                         /\ homes[i] = "whole"
                         /\ record # NoRecord => gens[record.gen] = "whole",
           \/ ReadFaults
           \/ record.status = "ready" => m # "none" /\ c = config[i] /\ a = applied[i]
    PROVE  DataInv'
<1> USE DEF DataInv, Lima, files, storage
<1>1. DataOK'
  BY DEF DataOK
<1>2. AbsentIsEmpty' /\ HomeAccounted'
  BY DEF AbsentIsEmpty, HomeAccounted
<1>3. (ReadFaults \/ ReadyIsComplete)'
  BY DEF DataOK, ReadyIsComplete
<1>4. MachineInputsKept'
  BY DEF DataOK, MachineInputsKept
<1>5. SavedGenerationKept'
  BY DEF DataOK, SavedGenerationKept
<1>6. BackendOwned'
  BY DEF DataOK, BackendOwned
<1> QED BY <1>1, <1>2, <1>3, <1>4, <1>5, <1>6

(* Power changes neither what exists nor what it mounts or runs.           *)
LEMMA PowerKeepsData ==
    ASSUME NEW i \in Ids, NEW m \in {"none", "stopped", "running"}, DataInv,
           Lima(i, m, config[i], applied[i]),
           m = "none" <=> machine[i] = "none"
    PROVE  /\ DataInv'
           /\ config' = config /\ applied' = applied
           /\ \A k \in Ids : machine'[k] = "none" <=> machine[k] = "none"
<1> USE DEF DataInv
<1>1. /\ config' = config /\ applied' = applied
      /\ machine' = [machine EXCEPT ![i] = m]
      /\ UNCHANGED <<files, storage>>
  BY DEF DataOK, Lima
<1>2. \A k \in Ids : machine'[k] = "none" <=> machine[k] = "none"
  BY <1>1 DEF DataOK
<1>3. DataOK'
  BY <1>1 DEF DataOK, files, storage
<1>4. AbsentIsEmpty' /\ HomeAccounted'
  BY <1>1 DEF AbsentIsEmpty, HomeAccounted, files, storage
<1>5. (ReadFaults \/ ReadyIsComplete)' /\ MachineInputsKept' /\ BackendOwned'
  BY <1>1, <1>2
  DEF DataOK, ReadyIsComplete, MachineInputsKept, BackendOwned, files, storage
<1>6. SavedGenerationKept'
  BY <1>1, <1>2, NoneAssumption DEF DataOK, SavedGenerationKept, files, storage
<1> QED BY <1>1, <1>2, <1>3, <1>4, <1>5, <1>6

(* Where a start or a stop that failed can get.                            *)
LEMMA TowardFacts ==
    ASSUME NEW i \in Ids, NEW m \in {"stopped", "running"},
           NEW n \in Toward(i, m), DataOK
    PROVE  /\ n \in {"none", "stopped", "running"}
           /\ n = "none" <=> machine[i] = "none"
BY DEF Toward, DataOK

(* Preparing a generation that neither a machine nor, while there is one,  *)
(* the saved record refers to.                                             *)
LEMMA PreparedKeepsData ==
    ASSUME NEW p \in Procs, DataInv, Prepare(p) \/ PrepareFailed(p),
           job[p].gen \in Gens,
           \A i \in Ids : machine[i] # "none" =>
               config[i] # job[p].gen /\ record.gen # job[p].gen
    PROVE  DataInv'
<1> USE DEF DataInv, Prepare, PrepareFailed, storage, backend
<1>1. DataOK'
  BY DEF DataOK, TreeStates
<1>2. AbsentIsEmpty'
  BY DEF DataOK, AbsentIsEmpty
<1>3. (ReadFaults \/ ReadyIsComplete)' /\ BackendOwned'
  BY DEF ReadyIsComplete, BackendOwned
<1>4. MachineInputsKept'
  BY DEF DataOK, MachineInputsKept
<1>5. SavedGenerationKept'
  BY NoneAssumption, RecordFacts DEF DataOK, SavedGenerationKept, Records
<1>6. HomeAccounted'
  BY DEF HomeAccounted
<1> QED BY <1>1, <1>2, <1>3, <1>4, <1>5, <1>6

(* Removing generations that no machine and no record refers to.           *)
LEMMA ShrunkKeepsData ==
    ASSUME NEW S \in SUBSET Gens, DataInv, ShrinkGens(S),
           UNCHANGED <<directory, identity, record, storage, backend>>,
           \A i \in Ids : machine[i] # "none" =>
               config[i] \notin S /\ record.gen \notin S
    PROVE  DataInv'
<1> USE DEF DataInv, ShrinkGens, storage, backend
<1>1. DataOK'
  BY DEF DataOK
<1>2. AbsentIsEmpty'
  BY DEF AbsentIsEmpty, Shrunk
<1>3. (ReadFaults \/ ReadyIsComplete)' /\ BackendOwned' /\ HomeAccounted'
  BY DEF ReadyIsComplete, BackendOwned, HomeAccounted
<1>4. MachineInputsKept'
  BY DEF DataOK, MachineInputsKept
<1>5. SavedGenerationKept'
  BY NoneAssumption, RecordFacts DEF DataOK, SavedGenerationKept, Records
<1> QED BY <1>1, <1>2, <1>3, <1>4, <1>5

(* Changing the archive of an identity that stays recorded.                *)
LEMMA ArchivedKeepsData ==
    ASSUME NEW i \in Ids, DataInv, identity = i,
           archive' \in {archive \union {i}, archive \ {i}, archive},
           UNCHANGED <<files, homes, backend>>
    PROVE  DataInv'
BY DEF DataInv, files, backend, DataOK, AbsentIsEmpty, ReadyIsComplete,
   MachineInputsKept, SavedGenerationKept, BackendOwned, HomeAccounted

-----------------------------------------------------------------------------
(* Create                                                                  *)

LEMMA BeginCreateStep ==
    ASSUME NEW p \in Procs, IInv, BeginCreate(p)
    PROVE  IInv'
<1>1. PICK i \in Ids, g \in Gens :
          /\ FreshId(i)
          /\ Begin(p, [NoJob EXCEPT !.op = "create", !.id = i, !.gen = g,
                                    !.readable = TRUE], "prepareCreation")
  BY DEF BeginCreate
<1> DEFINE j == [NoJob EXCEPT !.op = "create", !.id = i, !.gen = g,
                             !.readable = TRUE]
<1>2. j \in Jobs /\ j.op = "create" /\ j.id = i /\ j.gen = g
  BY DEF NoJob, Jobs
<1> HIDE DEF j
<1>3. Begin(p, j, "prepareCreation")
  BY <1>1 DEF j
<1>4. identity = None /\ record = NoRecord
  BY DEF BeginCreate, IInv, DataInv, AbsentIsEmpty
<1>5. \A k \in Ids : homes[k] # "absent" => k \in archive
  BY <1>4, NoneAssumption DEF BeginCreate, IInv, DataInv, HomeAccounted
<1>6. pc'[p] = "prepareCreation" /\ job'[p] = j
  BY <1>3 DEF IInv, ControlOK, Begin
<1>7. Creating(p)'
  BY <1>1, <1>2, <1>3, <1>4, <1>6
  DEF Creating, Begin, FreshId, files, storage, backend, NoRecord
<1>8. Running(p)'
  BY <1>2, <1>3, <1>4, <1>5, <1>6, <1>7
  DEF Running, Applying, Updating, Deleting, Begin, files, storage, backend
<1> QED BY <1>2, <1>3, <1>8, Start DEF Labels

LEMMA PrepareCreationStep ==
    ASSUME NEW p \in Procs, IInv, PrepareCreation(p)
    PROVE  IInv'
<1>1. /\ pc[p] = "prepareCreation"
      /\ Running(p) /\ Creating(p) /\ identity = None /\ DataInv
  BY DEF IInv, PrepareCreation, At, Running, Creating
<1>2. \A i \in Ids : machine[i] = "none"
  BY <1>1, NoneAssumption DEF DataInv, BackendOwned
<1>3. DataInv'
  BY <1>1, <1>2, PreparedKeepsData DEF PrepareCreation, Creating
<1>4. CASE Prepare(p) /\ Goto(p, "createHome")
  <2>1. "createHome" \in Labels
    BY DEF Labels
  <2>2. Running(p)'
    BY <1>1, <1>4, <2>1, GotoFacts
    DEF IInv, DataInv, DataOK, Running, Creating, Applying, Updating, Deleting,
        Prepare, storage, backend
  <2> QED BY <1>1, <1>3, <1>4, <2>1, <2>2, Advance
<1>5. CASE PrepareFailed(p) /\ Goto(p, "discardCreation")
  <2>1. "discardCreation" \in Labels
    BY DEF Labels
  <2>2. Running(p)'
    BY <1>1, <1>5, <2>1, GotoFacts
    DEF IInv, DataInv, DataOK, Running, Creating, Applying, Updating, Deleting,
        PrepareFailed, storage, backend
  <2> QED BY <1>1, <1>3, <1>5, <2>1, <2>2, Advance
<1>6. CASE Return(p)
  BY <1>1, <1>3, <1>6, Finish
<1> QED BY <1>4, <1>5, <1>6 DEF PrepareCreation, Broken

LEMMA CreateHomeStep ==
    ASSUME NEW p \in Procs, IInv, CreateHome(p)
    PROVE  IInv'
<1>1. /\ pc[p] = "createHome"
      /\ Running(p) /\ Creating(p) /\ identity = None /\ DataInv
      /\ directory = "present"
  BY DEF IInv, CreateHome, At, Running, Creating
<1>2. DataInv'
  BY <1>1, NoneAssumption
  DEF CreateHome, DataInv, DataOK, AbsentIsEmpty, ReadyIsComplete, TreeStates,
      MachineInputsKept, SavedGenerationKept, BackendOwned, HomeAccounted,
      files, backend
<1>3. CASE /\ homes' = [homes EXCEPT ![job[p].id] = "whole"]
           /\ Goto(p, "saveCreating")
  <2>1. "saveCreating" \in Labels
    BY DEF Labels
  <2>2. Running(p)'
    BY <1>1, <1>3, <2>1, GotoFacts
    DEF IInv, DataInv, DataOK, Running, Creating, Applying, Updating, Deleting,
        CreateHome, Jobs, files, backend
  <2> QED BY <1>1, <1>2, <1>3, <2>1, <2>2, Advance
<1>4. CASE UNCHANGED homes /\ Goto(p, "discardCreation")
  <2>1. "discardCreation" \in Labels
    BY DEF Labels
  <2>2. Running(p)'
    BY <1>1, <1>4, <2>1, GotoFacts
    DEF IInv, Running, Creating, Applying, Updating, Deleting,
        CreateHome, files, backend
  <2> QED BY <1>1, <1>2, <1>4, <2>1, <2>2, Advance
<1>5. CASE Return(p)
  BY <1>1, <1>2, <1>5, Finish
<1> QED BY <1>3, <1>4, <1>5 DEF CreateHome, Broken

LEMMA SaveCreatingStep ==
    ASSUME NEW p \in Procs, IInv, SaveCreating(p)
    PROVE  IInv'
<1>1. /\ pc[p] = "saveCreating"
      /\ Running(p) /\ Creating(p) /\ identity = None /\ DataInv
      /\ record = NoRecord
  BY DEF IInv, SaveCreating, At, Running, Creating
<1>2. PICK n \in 0..3 :
          /\ SavedSteps(p, "creating", n)
          /\ \/ n = 3 /\ Goto(p, "createBackend")
             \/ Goto(p, "rollbackCreation")
             \/ Return(p)
  BY DEF SaveCreating, Save, SaveFailed, Broken
<1>3. DataInv'
  BY <1>1, <1>2, SavedKeepsData DEF Running, Creating, Jobs, Statuses
<1>4. CASE n = 3 /\ Goto(p, "createBackend")
  <2>1. "createBackend" \in Labels
    BY DEF Labels
  <2>2. Running(p)'
    BY <1>1, <1>2, <1>4, <2>1, GotoFacts
    DEF IInv, DataInv, DataOK, Running, Creating, Applying, Updating, Deleting,
        SavedSteps, storage, backend
  <2> QED BY <1>1, <1>3, <1>4, <2>1, <2>2, Advance
<1>5. CASE Goto(p, "rollbackCreation")
  <2>1. "rollbackCreation" \in Labels
    BY DEF Labels
  <2>2. Running(p)'
    BY <1>1, <1>2, <1>5, <2>1, GotoFacts
    DEF IInv, DataInv, DataOK, Running, Creating, Applying, Updating, Deleting,
        SavedSteps, storage, backend, NoRecord
  <2> QED BY <1>1, <1>3, <1>5, <2>1, <2>2, Advance
<1>6. CASE Return(p)
  BY <1>1, <1>3, <1>6, Finish
<1> QED BY <1>2, <1>4, <1>5, <1>6

LEMMA RollbackCreationStep ==
    ASSUME NEW p \in Procs, IInv, RollbackCreation(p)
    PROVE  IInv'
<1>1. /\ pc[p] = "rollbackCreation"
      /\ Running(p) /\ Creating(p) /\ DataInv
      /\ job[p].id \in Ids /\ machine[job[p].id] = "none"
  BY DEF IInv, RollbackCreation, At, Running, Creating, Jobs
<1>2. DataInv'
  BY <1>1, RemovedHomeKeepsData DEF RollbackCreation, Creating
<1>3. CASE RemoveHome(job[p].id) /\ Goto(p, "discardCreation")
  <2>1. "discardCreation" \in Labels
    BY DEF Labels
  <2>2. Running(p)'
    BY <1>1, <1>3, <2>1, GotoFacts
    DEF IInv, DataInv, DataOK, Running, Creating, Applying, Updating, Deleting,
        RemoveHome, files, backend
  <2> QED BY <1>1, <1>2, <1>3, <2>1, <2>2, Advance
<1>4. CASE RemoveHomeFailed(job[p].id) /\ Goto(p, "recordFailure")
  <2>1. "recordFailure" \in Labels
    BY DEF Labels
  <2>2. Running(p)'
    BY <1>1, <1>4, <2>1, GotoFacts
    DEF IInv, DataInv, DataOK, Running, Creating, Applying, Updating, Deleting,
        RemoveHomeFailed, files, backend
  <2> QED BY <1>1, <1>2, <1>4, <2>1, <2>2, Advance
<1>5. CASE Return(p)
  BY <1>1, <1>2, <1>5, Finish
<1> QED BY <1>3, <1>4, <1>5 DEF RollbackCreation, Broken

LEMMA DiscardCreationStep ==
    ASSUME NEW p \in Procs, IInv, DiscardCreation(p)
    PROVE  IInv'
<1>1. pc[p] = "discardCreation" /\ Running(p) /\ Creating(p) /\ DataInv
  BY DEF IInv, DiscardCreation, At, Running
<1>2. \A i \in Ids : machine[i] = "none"
  BY <1>1, NoneAssumption DEF Running, Creating, DataInv, BackendOwned
<1>3. \A i \in Ids : homes[i] # "absent" => i \in archive
  BY <1>1 DEF Running, Creating
<1>4. DataInv'
  BY <1>1, <1>2, <1>3, RemovedKeepsData DEF DiscardCreation, Creating
<1> QED BY <1>1, <1>4, Finish DEF DiscardCreation

LEMMA CreateBackendStep ==
    ASSUME NEW p \in Procs, IInv, CreateBackend(p)
    PROVE  IInv'
<1>1. /\ pc[p] = "createBackend"
      /\ Running(p) /\ Creating(p) /\ DataInv
      /\ job[p].id \in Ids /\ job[p].gen \in Gens
  BY DEF IInv, CreateBackend, At, Running, Creating, Jobs
<1>2. DataInv'
  BY <1>1, LimaKeepsData, UnchangedKeepsData DEF CreateBackend, Creating
<1>3. CASE /\ Lima(job[p].id, "stopped", job[p].gen, None)
           /\ Goto(p, "startBackend")
  <2>1. "startBackend" \in Labels
    BY DEF Labels
  <2>2. Running(p)'
    BY <1>1, <1>3, <2>1, GotoFacts
    DEF IInv, DataInv, DataOK, Running, Creating, Applying, Updating, Deleting,
        Lima, files, storage
  <2> QED BY <1>1, <1>2, <1>3, <2>1, <2>2, Advance
<1>4. CASE Goto(p, "recordFailure")
  <2>1. "recordFailure" \in Labels
    BY DEF Labels
  <2>2. Running(p)'
    BY <1>1, <1>4, <2>1, GotoFacts, NoneAssumption
    DEF IInv, DataInv, DataOK, AbsentIsEmpty, Running, Creating, Applying,
        Updating, Deleting, CreateBackend, Lima, UnchangedData, files, storage,
        backend
  <2> QED BY <1>1, <1>2, <1>4, <2>1, <2>2, Advance
<1>5. CASE Return(p)
  BY <1>1, <1>2, <1>5, Finish
<1> QED BY <1>3, <1>4, <1>5 DEF CreateBackend, Broken

-----------------------------------------------------------------------------
(* The calls shared by create and update                                   *)

LEMMA StartBackendStep ==
    ASSUME NEW p \in Procs, IInv, StartBackend(p)
    PROVE  IInv'
<1>1. /\ pc[p] = "startBackend"
      /\ Running(p) /\ Applying(p) /\ DataInv
      /\ job[p].id \in Ids /\ job[p].gen \in Gens
      /\ machine[job[p].id] \in {"stopped", "running"}
  BY DEF IInv, DataInv, DataOK, StartBackend, At, Running, Applying, Jobs
<1>2. PICK m \in {"stopped", "running"} :
          Lima(job[p].id, m, config[job[p].id], applied[job[p].id])
  BY <1>1 DEF StartBackend, Toward
<1>3. DataInv'
  BY <1>1, <1>2, PowerKeepsData
<1>4. CASE /\ machine'[job[p].id] = "running"
           /\ Goto(p, "applyGuest")
  <2>1. "applyGuest" \in Labels
    BY DEF Labels
  <2>2. Running(p)'
    BY <1>1, <1>2, <1>4, <2>1, GotoFacts
    DEF IInv, DataInv, DataOK, Running, Creating, Applying, Updating, Deleting,
        Lima, files, storage
  <2> QED BY <1>1, <1>3, <1>4, <2>1, <2>2, Advance
<1>5. CASE Goto(p, "recordFailure")
  <2>1. "recordFailure" \in Labels
    BY DEF Labels
  <2>2. Running(p)'
    BY <1>1, <1>2, <1>5, <2>1, GotoFacts, NoneAssumption
    DEF IInv, DataInv, DataOK, AbsentIsEmpty, MachineInputsKept, Running,
        Creating, Applying, Updating, Deleting, Lima, files, storage
  <2> QED BY <1>1, <1>3, <1>5, <2>1, <2>2, Advance
<1>6. CASE Return(p)
  BY <1>1, <1>3, <1>6, Finish
<1>7. Lima(job[p].id, "running", config[job[p].id], applied[job[p].id]) =>
          machine'[job[p].id] = "running"
  BY <1>1 DEF Lima, IInv, DataInv, DataOK
<1> QED BY <1>4, <1>5, <1>6, <1>7 DEF StartBackend, Broken

LEMMA ApplyGuestStep ==
    ASSUME NEW p \in Procs, IInv, ApplyGuest(p)
    PROVE  IInv'
<1>1. /\ pc[p] = "applyGuest"
      /\ Running(p) /\ Applying(p) /\ DataInv
      /\ job[p].id \in Ids /\ job[p].gen \in Gens
      /\ machine[job[p].id] \in {"stopped", "running"}
  BY DEF IInv, DataInv, DataOK, ApplyGuest, At, Running, Applying, Jobs
<1>2. PICK m \in {"stopped", "running"},
           a \in {applied[job[p].id], config[job[p].id]} :
          Lima(job[p].id, m, config[job[p].id], a)
  BY <1>1 DEF ApplyGuest, Toward
<1>3. DataInv'
  <2>1. /\ identity = job[p].id /\ record.gen = job[p].gen
        /\ record.status # "ready"
        /\ config[job[p].id] = job[p].gen
        /\ machine[job[p].id] # "none"
    BY <1>1 DEF Applying
  <2>2. gens[job[p].gen] = "whole" /\ homes[job[p].id] = "whole"
    BY <1>1, <2>1 DEF DataInv, MachineInputsKept
  <2>3. a \in Gens \union {None}
    BY <1>1, <2>1 DEF DataInv, DataOK
  <2> QED BY <1>1, <1>2, <2>1, <2>2, <2>3, LimaKeepsData
<1>4. CASE /\ Lima(job[p].id, "running", config[job[p].id], config[job[p].id])
           /\ Goto(p, "saveReady")
  <2>1. "saveReady" \in Labels
    BY DEF Labels
  <2>2. Running(p)'
    BY <1>1, <1>4, <2>1, GotoFacts
    DEF IInv, DataInv, DataOK, Running, Creating, Applying, Updating, Deleting,
        Lima, files, storage
  <2> QED BY <1>1, <1>3, <1>4, <2>1, <2>2, Advance
<1>5. CASE Goto(p, "recordFailure")
  <2>1. "recordFailure" \in Labels
    BY DEF Labels
  <2>2. Running(p)'
    BY <1>1, <1>2, <1>5, <2>1, GotoFacts, NoneAssumption
    DEF IInv, DataInv, DataOK, AbsentIsEmpty, MachineInputsKept, Running,
        Creating, Applying, Updating, Deleting, Lima, files, storage
  <2> QED BY <1>1, <1>3, <1>5, <2>1, <2>2, Advance
<1>6. CASE Return(p)
  BY <1>1, <1>3, <1>6, Finish
<1> QED BY <1>4, <1>5, <1>6 DEF ApplyGuest, Broken

LEMMA SaveReadyStep ==
    ASSUME NEW p \in Procs, IInv, SaveReady(p)
    PROVE  IInv'
<1>1. /\ pc[p] = "saveReady"
      /\ Running(p) /\ Applying(p) /\ DataInv
      /\ job[p].id \in Ids /\ job[p].gen \in Gens
  BY DEF IInv, SaveReady, At, Running, Applying, Jobs
<1>2. PICK n \in 0..3 :
          /\ SavedSteps(p, "ready", n)
          /\ \/ n = 3 /\ Goto(p, "prune")
             \/ Return(p)
  BY DEF SaveReady, Save, SaveFailed
<1>3. DataInv'
  BY <1>1, <1>2, SavedKeepsData
  DEF Running, Applying, Statuses, DataInv, MachineInputsKept
<1>4. CASE n = 3 /\ Goto(p, "prune")
  <2>1. "prune" \in Labels
    BY DEF Labels
  <2>2. Running(p)'
    BY <1>1, <1>2, <1>4, <2>1, GotoFacts
    DEF IInv, DataInv, DataOK, Running, Creating, Applying, Updating, Deleting,
        SavedSteps, storage, backend
  <2> QED BY <1>1, <1>3, <1>4, <2>1, <2>2, Advance
<1>5. CASE Return(p)
  BY <1>1, <1>3, <1>5, Finish
<1> QED BY <1>2, <1>4, <1>5

LEMMA RecordFailureStep ==
    ASSUME NEW p \in Procs, IInv, RecordFailure(p)
    PROVE  IInv'
<1>1. /\ pc[p] = "recordFailure"
      /\ Running(p) /\ Applying(p) /\ DataInv
      /\ job[p].id \in Ids
  BY DEF IInv, RecordFailure, At, Running, Jobs
<1>2. PICK n \in 0..3 : SavedSteps(p, "error", n)
  BY DEF RecordFailure, SaveFailed
<1>3. DataInv'
  BY <1>1, <1>2, SavedKeepsData DEF Running, Applying, Statuses
<1> QED BY <1>1, <1>3, Finish DEF RecordFailure

-----------------------------------------------------------------------------
(* Update                                                                  *)

LEMMA BeginUpdateStep ==
    ASSUME NEW p \in Procs, IInv, BeginUpdate(p)
    PROVE  IInv'
<1>1. PICK g \in Gens :
          /\ FreshGen(g)
          /\ Begin(p, [NoJob EXCEPT !.op = "update", !.id = identity, !.gen = g,
                                    !.readable = TRUE], "prepareUpdate")
  BY DEF BeginUpdate
<1> DEFINE j == [NoJob EXCEPT !.op = "update", !.id = identity, !.gen = g,
                             !.readable = TRUE]
<1>2. /\ identity \in Ids /\ machine[identity] # "none" /\ record # NoRecord
      /\ DataInv
  BY DEF BeginUpdate, IInv, DataInv, DataOK
<1>3. j \in Jobs /\ j.op = "update" /\ j.id = identity /\ j.gen = g
  BY <1>2 DEF NoJob, Jobs
<1> HIDE DEF j
<1>4. Begin(p, j, "prepareUpdate")
  BY <1>1 DEF j
<1>5. pc'[p] = "prepareUpdate" /\ job'[p] = j
  BY <1>4 DEF IInv, ControlOK, Begin
<1>6. \A k \in Ids : homes[k] # "absent" /\ k # identity => k \in archive
  BY <1>2, NoneAssumption DEF DataInv, HomeAccounted
<1>7. Updating(p)'
  BY <1>1, <1>2, <1>3, <1>4, <1>5
  DEF Updating, Begin, FreshGen, files, storage, backend
<1>8. Running(p)'
  BY <1>2, <1>3, <1>4, <1>5, <1>6, <1>7
  DEF Running, Applying, Creating, Deleting, Begin, files, storage, backend
<1> QED BY <1>3, <1>4, <1>8, Start DEF Labels

LEMMA PrepareUpdateStep ==
    ASSUME NEW p \in Procs, IInv, PrepareUpdate(p)
    PROVE  IInv'
<1>1. /\ pc[p] = "prepareUpdate"
      /\ Running(p) /\ Updating(p) /\ DataInv /\ identity = job[p].id
      /\ job[p].id \in Ids /\ job[p].gen \in Gens
  BY DEF IInv, PrepareUpdate, At, Running, Updating, Jobs
<1>2. DataInv'
  BY <1>1, PreparedKeepsData DEF PrepareUpdate, Updating, DataInv, BackendOwned
<1>3. CASE Prepare(p) /\ Goto(p, "saveUpdating")
  <2>1. "saveUpdating" \in Labels
    BY DEF Labels
  <2>2. Running(p)'
    BY <1>1, <1>3, <2>1, GotoFacts
    DEF IInv, DataInv, DataOK, Running, Creating, Applying, Updating, Deleting,
        Prepare, storage, backend
  <2> QED BY <1>1, <1>2, <1>3, <2>1, <2>2, Advance
<1>4. CASE PrepareFailed(p) /\ Goto(p, "discardUncommitted")
  <2>1. "discardUncommitted" \in Labels
    BY DEF Labels
  <2>2. Running(p)'
    BY <1>1, <1>4, <2>1, GotoFacts
    DEF IInv, DataInv, DataOK, Running, Creating, Applying, Updating, Deleting,
        PrepareFailed, storage, backend
  <2> QED BY <1>1, <1>2, <1>4, <2>1, <2>2, Advance
<1>5. CASE Return(p)
  BY <1>1, <1>2, <1>5, Finish
<1> QED BY <1>3, <1>4, <1>5 DEF PrepareUpdate, Broken

LEMMA SaveUpdatingStep ==
    ASSUME NEW p \in Procs, IInv, SaveUpdating(p)
    PROVE  IInv'
<1>1. /\ pc[p] = "saveUpdating"
      /\ Running(p) /\ Updating(p) /\ DataInv /\ identity = job[p].id
      /\ job[p].id \in Ids /\ job[p].gen \in Gens
  BY DEF IInv, SaveUpdating, At, Running, Updating, Jobs
<1>2. PICK n \in 0..3 :
          /\ SavedSteps(p, "updating", n)
          /\ \/ n = 3 /\ Goto(p, "checkBackend")
             \/ Goto(p, "discardUncommitted")
             \/ Return(p)
  BY DEF SaveUpdating, Save, SaveFailed, Broken
<1>3. DataInv'
  BY <1>1, <1>2, SavedKeepsData DEF Running, Updating, Statuses
<1>4. CASE n = 3 /\ Goto(p, "checkBackend")
  <2>1. "checkBackend" \in Labels
    BY DEF Labels
  <2>2. Running(p)'
    BY <1>1, <1>2, <1>4, <2>1, GotoFacts, NoneAssumption, RecordFacts
    DEF IInv, DataInv, DataOK, Running, Creating, Applying, Updating, Deleting,
        SavedSteps, storage, backend, NoRecord
  <2> QED BY <1>1, <1>3, <1>4, <2>1, <2>2, Advance
<1>5. CASE Goto(p, "discardUncommitted")
  <2>1. "discardUncommitted" \in Labels
    BY DEF Labels
  <2>2. Running(p)'
    BY <1>1, <1>2, <1>5, <2>1, GotoFacts, NoneAssumption, RecordFacts
    DEF IInv, DataInv, DataOK, Running, Creating, Applying, Updating, Deleting,
        SavedSteps, storage, backend, NoRecord
  <2> QED BY <1>1, <1>3, <1>5, <2>1, <2>2, Advance
<1>6. CASE Return(p)
  BY <1>1, <1>3, <1>6, Finish
<1> QED BY <1>2, <1>4, <1>5, <1>6

LEMMA DiscardUncommittedStep ==
    ASSUME NEW p \in Procs, IInv, DiscardUncommitted(p)
    PROVE  IInv'
<1>1. /\ pc[p] = "discardUncommitted"
      /\ Running(p) /\ Updating(p) /\ DataInv
      /\ job[p].id \in Ids /\ job[p].gen \in Gens
  BY DEF IInv, DiscardUncommitted, At, Running, Updating, Jobs
<1>2. CASE /\ record.gen # job[p].gen
           /\ ShrinkGens({job[p].gen})
  <2>1. \A i \in Ids : machine[i] # "none" =>
            config[i] \notin {job[p].gen} /\ record.gen \notin {job[p].gen}
    BY <1>1, <1>2 DEF Updating, DataInv, BackendOwned
  <2> QED BY <1>1, <1>2, <2>1, ShrunkKeepsData, Finish DEF DiscardUncommitted
<1>3. CASE UNCHANGED gens
  BY <1>1, <1>3, UnchangedKeepsData, Finish
  DEF DiscardUncommitted, UnchangedData, files
<1> QED BY <1>2, <1>3 DEF DiscardUncommitted

LEMMA CheckBackendStep ==
    ASSUME NEW p \in Procs, IInv, CheckBackend(p)
    PROVE  IInv'
<1>1. /\ pc[p] = "checkBackend" /\ UnchangedData
      /\ Running(p) /\ Updating(p) /\ DataInv
  BY DEF IInv, CheckBackend, At, Running
<1>2. DataInv'
  BY <1>1, UnchangedKeepsData
<1>3. CASE Goto(p, "stopBackend")
  <2>1. "stopBackend" \in Labels
    BY DEF Labels
  <2>2. Running(p)'
    BY <1>1, <1>3, <2>1, GotoFacts
    DEF IInv, Running, Creating, Applying, Updating, Deleting,
        UnchangedData, files, storage, backend
  <2> QED BY <1>1, <1>2, <1>3, <2>1, <2>2, Advance
<1>4. CASE Goto(p, "editBackend")
  <2>1. "editBackend" \in Labels
    BY DEF Labels
  <2>2. Running(p)'
    BY <1>1, <1>4, <2>1, GotoFacts
    DEF IInv, Running, Creating, Applying, Updating, Deleting,
        UnchangedData, files, storage, backend
  <2> QED BY <1>1, <1>2, <1>4, <2>1, <2>2, Advance
<1>5. CASE Goto(p, "recordFailure")
  <2>1. "recordFailure" \in Labels
    BY DEF Labels
  <2>2. Running(p)'
    BY <1>1, <1>5, <2>1, GotoFacts, NoneAssumption
    DEF IInv, DataInv, DataOK, AbsentIsEmpty, Running, Creating, Applying,
        Updating, Deleting, UnchangedData, files, storage, backend
  <2> QED BY <1>1, <1>2, <1>5, <2>1, <2>2, Advance
<1>6. CASE Return(p)
  BY <1>1, <1>2, <1>6, Finish
<1> QED BY <1>3, <1>4, <1>5, <1>6 DEF CheckBackend, Broken

LEMMA StopBackendStep ==
    ASSUME NEW p \in Procs, IInv, StopBackend(p)
    PROVE  IInv'
<1>1. /\ pc[p] = "stopBackend"
      /\ Running(p) /\ Updating(p) /\ DataInv
      /\ job[p].id \in Ids /\ machine[job[p].id] # "none"
  BY DEF IInv, StopBackend, At, Running, Updating, Jobs
<1>2. PICK m \in {"stopped", "running"} :
          Lima(job[p].id, m, config[job[p].id], applied[job[p].id])
  BY <1>1 DEF StopBackend, Toward, DataInv, DataOK
<1>3. /\ DataInv' /\ config' = config /\ applied' = applied
      /\ \A k \in Ids : machine'[k] = "none" <=> machine[k] = "none"
      /\ UNCHANGED <<files, storage>>
  BY <1>1, <1>2, PowerKeepsData DEF Lima
<1>4. CASE Goto(p, "editBackend")
  <2>1. "editBackend" \in Labels
    BY DEF Labels
  <2>2. Running(p)'
    BY <1>1, <1>3, <1>4, <2>1, GotoFacts
    DEF IInv, Running, Creating, Applying, Updating, Deleting, files, storage
  <2> QED BY <1>1, <1>3, <1>4, <2>1, <2>2, Advance
<1>5. CASE Goto(p, "recordFailure")
  <2>1. "recordFailure" \in Labels
    BY DEF Labels
  <2>2. Running(p)'
    BY <1>1, <1>3, <1>5, <2>1, GotoFacts, NoneAssumption
    DEF IInv, DataInv, DataOK, AbsentIsEmpty, Running, Creating, Applying,
        Updating, Deleting, files, storage
  <2> QED BY <1>1, <1>3, <1>5, <2>1, <2>2, Advance
<1>6. CASE Return(p)
  BY <1>1, <1>3, <1>6, Finish
<1> QED BY <1>4, <1>5, <1>6 DEF StopBackend, Broken

LEMMA EditBackendStep ==
    ASSUME NEW p \in Procs, IInv, EditBackend(p)
    PROVE  IInv'
<1>1. /\ pc[p] = "editBackend"
      /\ Running(p) /\ Updating(p) /\ DataInv
      /\ job[p].id \in Ids /\ job[p].gen \in Gens
      /\ identity = job[p].id /\ record = [status |-> "updating", gen |-> job[p].gen]
      /\ gens[job[p].gen] = "whole" /\ machine[job[p].id] # "none"
  BY DEF IInv, EditBackend, At, Running, Updating, Jobs
<1>2. homes[job[p].id] = "whole" /\ applied[job[p].id] \in Gens \union {None}
  BY <1>1 DEF DataInv, DataOK, MachineInputsKept
<1>3. DataInv'
  <2>1. CASE Lima(job[p].id, "stopped", job[p].gen, applied[job[p].id])
    BY <1>1, <1>2, <2>1, LimaKeepsData
  <2>2. CASE UnchangedData
    BY <1>1, <2>2, UnchangedKeepsData
  <2> QED BY <2>1, <2>2 DEF EditBackend
<1>4. CASE /\ Lima(job[p].id, "stopped", job[p].gen, applied[job[p].id])
           /\ Goto(p, "startBackend")
  <2>1. "startBackend" \in Labels
    BY DEF Labels
  <2>2. Running(p)'
    BY <1>1, <1>4, <2>1, GotoFacts
    DEF IInv, DataInv, DataOK, Running, Creating, Applying, Updating, Deleting,
        Lima, files, storage
  <2> QED BY <1>1, <1>3, <1>4, <2>1, <2>2, Advance
<1>5. CASE Goto(p, "recordFailure")
  <2>1. "recordFailure" \in Labels
    BY DEF Labels
  <2>2. Running(p)'
    BY <1>1, <1>5, <2>1, GotoFacts, NoneAssumption
    DEF IInv, DataInv, DataOK, AbsentIsEmpty, Running, Creating, Applying,
        Updating, Deleting, EditBackend, Lima, UnchangedData, files, storage,
        backend
  <2> QED BY <1>1, <1>3, <1>5, <2>1, <2>2, Advance
<1>6. CASE Return(p)
  BY <1>1, <1>3, <1>6, Finish
<1> QED BY <1>4, <1>5, <1>6 DEF EditBackend, Broken

LEMMA PruneStep ==
    ASSUME NEW p \in Procs, IInv, Prune(p)
    PROVE  IInv'
<1>1. pc[p] = "prune" /\ Running(p) /\ Applying(p) /\ DataInv
  BY DEF IInv, Prune, At, Running
<1>2. \A i \in Ids : machine[i] # "none" =>
          config[i] \notin Gens \ {job[p].gen} /\ record.gen \notin Gens \ {job[p].gen}
  BY <1>1 DEF Applying, DataInv, BackendOwned
<1>3. DataInv'
  BY <1>1, <1>2, ShrunkKeepsData DEF Prune
<1> QED BY <1>1, <1>3, Finish DEF Prune

-----------------------------------------------------------------------------
(* Delete, start and stop                                                  *)

LEMMA BeginDeleteStep ==
    ASSUME NEW p \in Procs, IInv, BeginDelete(p)
    PROVE  IInv'
<1>1. PICK force \in BOOLEAN, removeHome \in BOOLEAN, readable \in BOOLEAN :
          /\ readable => record # NoRecord
          /\ ~readable => record = NoRecord \/ ReadFaults
          /\ Begin(p, [op |-> "delete", id |-> identity, gen |-> record.gen,
                       readable |-> readable,
                       force |-> force, removeHome |-> removeHome],
                   IF readable THEN "saveDeleting" ELSE "stopForDelete")
  BY DEF BeginDelete
<1> DEFINE l == IF readable THEN "saveDeleting" ELSE "stopForDelete"
          j == [op |-> "delete", id |-> identity, gen |-> record.gen,
                readable |-> readable,
                force |-> force, removeHome |-> removeHome]
<1>2. identity \in Ids /\ DataInv
  BY DEF BeginDelete, IInv, DataInv, DataOK
<1>3. /\ j \in Jobs /\ j.op = "delete" /\ j.id = identity
      /\ j.gen = record.gen /\ j.readable = readable
  BY <1>2 DEF Jobs, DataInv, DataOK, Records, NoRecord
<1>4. /\ l \in Labels /\ l \in {"saveDeleting", "stopForDelete"}
      /\ l = "saveDeleting" <=> readable
  BY DEF Labels
<1>5. Begin(p, j, l)
  BY <1>1
<1> HIDE DEF j, l
<1>6. pc'[p] = l /\ job'[p] = j
  BY <1>5 DEF IInv, ControlOK, Begin
<1>7. \A k \in Ids : homes[k] # "absent" /\ k # identity => k \in archive
  BY <1>2, NoneAssumption DEF DataInv, HomeAccounted
<1>8. Deleting(p)'
  <2>1. identity' = identity /\ record' = record
    BY <1>5 DEF Begin, files
  <2>2. job'[p].readable => record' # NoRecord' /\ record'.gen = job'[p].gen
    BY <1>1, <1>3, <1>6, <2>1, Zenon DEF NoRecord
  <2>3. pc'[p] = "saveDeleting" <=> job'[p].readable
    BY <1>3, <1>4, <1>6, Zenon
  <2>4. record = NoRecord => record.status # "ready"
    BY DEF NoRecord
  <2>5. pc'[p] = "stopForDelete" =>
            record'.status # "ready" \/ (ReadFaults /\ ~job'[p].readable)
    BY <1>1, <1>3, <1>4, <1>6, <2>1, <2>4, Zenon
  <2> QED BY <1>3, <1>4, <1>6, <2>1, <2>2, <2>3, <2>5 DEF Deleting
<1>9. Running(p)'
  BY <1>2, <1>3, <1>4, <1>5, <1>6, <1>7, <1>8
  DEF Running, Applying, Creating, Updating, Begin, files, storage, backend
<1> QED BY <1>3, <1>4, <1>5, <1>9, Start

LEMMA SaveDeletingStep ==
    ASSUME NEW p \in Procs, IInv, SaveDeleting(p)
    PROVE  IInv'
<1>1. /\ pc[p] = "saveDeleting"
      /\ Running(p) /\ Deleting(p) /\ DataInv /\ identity = job[p].id
      /\ job[p].id \in Ids /\ record # NoRecord /\ record.gen = job[p].gen
      /\ job[p].gen \in Gens
  BY DEF IInv, DataInv, DataOK, Records, SaveDeleting, At, Running, Deleting, Jobs
<1>2. PICK n \in 0..3 :
          /\ SavedSteps(p, "deleting", n)
          /\ \/ n = 3 /\ Goto(p, "stopForDelete")
             \/ Return(p)
  BY DEF SaveDeleting, Save, SaveFailed
<1>3. machine[job[p].id] # "none" => gens[job[p].gen] = "whole"
  BY <1>1, NoneAssumption DEF DataInv, SavedGenerationKept
<1>4. DataInv'
  BY <1>1, <1>2, <1>3, SavedKeepsData DEF Running, Statuses
<1>5. CASE n = 3 /\ Goto(p, "stopForDelete")
  <2>1. "stopForDelete" \in Labels
    BY DEF Labels
  <2>2. Running(p)'
    BY <1>1, <1>2, <1>5, <2>1, GotoFacts, NoneAssumption
    DEF IInv, Running, Creating, Applying, Updating, Deleting,
        SavedSteps, storage, backend, NoRecord
  <2> QED BY <1>1, <1>4, <1>5, <2>1, <2>2, Advance
<1>6. CASE Return(p)
  BY <1>1, <1>4, <1>6, Finish
<1> QED BY <1>2, <1>5, <1>6

(* A deletion that fails has a true record to put the failure in.          *)
LEMMA DeleteBrokenStep ==
    ASSUME NEW p \in Procs, IInv, pc[p] # "idle", DeleteBroken(p), DataInv',
           job[p] \in Jobs, job[p].op = "delete",
           job[p].readable =>
               /\ directory' = "present"
               /\ job[p].gen \in Gens
               /\ record'.status # "ready"
               /\ machine'[job[p].id] # "none" => gens'[job[p].gen] = "whole",
           identity' \in {None, job[p].id},
           \A i \in Ids : homes'[i] # "absent" /\ i # job[p].id => i \in archive'
    PROVE  IInv'
<1>1. CASE Return(p)
  BY <1>1, Finish
<1>2. CASE job[p].readable /\ Goto(p, "recordFailure")
  <2>1. "recordFailure" \in Labels
    BY DEF Labels
  <2>2. pc'[p] = "recordFailure" /\ job'[p] = job[p]
    BY <1>2, <2>1, GotoFacts DEF IInv
  <2>3. Running(p)'
    BY <1>2, <2>2
    DEF Running, Creating, Applying, Updating, Deleting
  <2> QED BY <1>2, <2>1, <2>3, Advance
<1> QED BY <1>1, <1>2 DEF DeleteBroken, Broken

(* What every call of a deletion starts from.                              *)
LEMMA DeletingFacts ==
    ASSUME NEW p \in Procs, IInv,
           pc[p] \in {"stopForDelete", "deleteBackend", "releaseHome",
                     "forgetHome", "removeState"}
    PROVE  /\ DataInv /\ Running(p) /\ pc[p] # "idle"
           /\ job[p] \in Jobs /\ job[p].op = "delete"
           /\ job[p].id \in Ids /\ identity = job[p].id
           /\ directory = "present"
           /\ ReadFaults \/ record.status # "ready"
           /\ job[p].readable =>
                  /\ record.status # "ready"
                  /\ job[p].gen \in Gens /\ record.gen = job[p].gen
                  /\ machine[job[p].id] # "none" => gens[job[p].gen] = "whole"
           /\ \A i \in Ids : homes[i] # "absent" /\ i # job[p].id => i \in archive
<1>1. DataInv /\ Running(p) /\ Deleting(p) /\ pc[p] # "idle" /\ job[p] \in Jobs
  BY DEF IInv, Running
<1>2. job[p].op = "delete" /\ job[p].id \in Ids /\ identity = job[p].id
  BY <1>1 DEF Deleting, Jobs
<1>3. directory = "present" /\ (ReadFaults \/ record.status # "ready")
  BY <1>1, <1>2, NoneAssumption DEF Deleting, DataInv, DataOK, AbsentIsEmpty
<1>4. ASSUME job[p].readable
      PROVE  /\ record.status # "ready"
             /\ job[p].gen \in Gens /\ record.gen = job[p].gen
             /\ machine[job[p].id] # "none" => gens[job[p].gen] = "whole"
  BY <1>1, <1>2, <1>4, NoneAssumption
  DEF Deleting, DataInv, DataOK, Records, SavedGenerationKept
<1> QED BY <1>1, <1>2, <1>3, <1>4 DEF Running

LEMMA StopForDeleteStep ==
    ASSUME NEW p \in Procs, IInv, StopForDelete(p)
    PROVE  IInv'
<1>1. pc[p] = "stopForDelete"
  BY DEF StopForDelete, At
<1>2. PICK m \in {"none", "stopped", "running"} :
          /\ m = "none" <=> machine[job[p].id] = "none"
          /\ \/ Lima(job[p].id, m, config[job[p].id], applied[job[p].id])
             \/ UnchangedData
  BY <1>1, DeletingFacts DEF StopForDelete, DataInv, DataOK
<1>3. /\ DataInv'
      /\ \A k \in Ids : machine'[k] = "none" <=> machine[k] = "none"
      /\ UNCHANGED <<files, storage>>
  <2>1. CASE Lima(job[p].id, m, config[job[p].id], applied[job[p].id])
    BY <1>1, <1>2, <2>1, DeletingFacts, PowerKeepsData DEF Lima
  <2>2. CASE UnchangedData
    BY <1>1, <2>2, DeletingFacts, UnchangedKeepsData DEF UnchangedData, backend
  <2> QED BY <1>2, <2>1, <2>2
<1>4. CASE machine[job[p].id] = "none" /\ Goto(p, "releaseHome")
  <2>1. "releaseHome" \in Labels
    BY DEF Labels
  <2>2. Running(p)'
    BY <1>1, <1>3, <1>4, <2>1, GotoFacts, DeletingFacts
    DEF IInv, Running, Creating, Applying, Updating, Deleting, files, storage
  <2> QED BY <1>1, <1>3, <1>4, <2>1, <2>2, Advance
<1>5. CASE Goto(p, "deleteBackend")
  <2>1. "deleteBackend" \in Labels
    BY DEF Labels
  <2>2. Running(p)'
    BY <1>1, <1>3, <1>5, <2>1, GotoFacts, DeletingFacts
    DEF IInv, Running, Creating, Applying, Updating, Deleting, files, storage
  <2> QED BY <1>1, <1>3, <1>5, <2>1, <2>2, Advance
<1>6. CASE DeleteBroken(p)
  BY <1>1, <1>3, <1>6, DeletingFacts, DeleteBrokenStep DEF files, storage
<1> QED BY <1>4, <1>5, <1>6 DEF StopForDelete

LEMMA DeleteBackendStep ==
    ASSUME NEW p \in Procs, IInv, DeleteBackend(p)
    PROVE  IInv'
<1>1. pc[p] = "deleteBackend"
  BY DEF DeleteBackend, At
<1>2. CASE Lima(job[p].id, "none", None, None)
  <2>1. DataInv'
    BY <1>1, <1>2, DeletingFacts, LimaKeepsData
  <2>2. machine'[job[p].id] = "none" /\ UNCHANGED <<files, storage>>
    BY <1>1, <1>2, DeletingFacts DEF Lima, DataInv, DataOK
  <2>3. CASE Goto(p, "releaseHome")
    <3>1. "releaseHome" \in Labels
      BY DEF Labels
    <3>2. Running(p)'
      BY <1>1, <2>2, <2>3, <3>1, GotoFacts, DeletingFacts
      DEF IInv, Running, Creating, Applying, Updating, Deleting, files, storage
    <3> QED BY <1>1, <2>1, <2>3, <3>1, <3>2, Advance
  <2>4. CASE DeleteBroken(p)
    BY <1>1, <2>1, <2>2, <2>4, DeletingFacts, DeleteBrokenStep
    DEF files, storage
  <2> QED BY <1>1, <2>3, <2>4 DEF DeleteBackend
<1>3. ASSUME NEW m \in Toward(job[p].id, "stopped"),
             Lima(job[p].id, m, config[job[p].id], applied[job[p].id]),
             DeleteBroken(p)
      PROVE  IInv'
  <2>1. DataOK /\ job[p].id \in Ids
    BY <1>1, DeletingFacts DEF DataInv
  <2>2. /\ m \in {"none", "stopped", "running"}
        /\ m = "none" <=> machine[job[p].id] = "none"
    BY <1>3, <2>1, TowardFacts
  <2>3. /\ DataInv'
        /\ \A k \in Ids : machine'[k] = "none" <=> machine[k] = "none"
        /\ UNCHANGED <<files, storage>>
    BY <1>1, <1>3, <2>1, <2>2, DeletingFacts, PowerKeepsData DEF Lima
  <2> QED BY <1>1, <1>3, <2>3, DeletingFacts, DeleteBrokenStep
          DEF files, storage
<1> QED BY <1>2, <1>3 DEF DeleteBackend

LEMMA ReleaseHomeStep ==
    ASSUME NEW p \in Procs, IInv, ReleaseHome(p)
    PROVE  IInv'
<1>1. pc[p] = "releaseHome"
  BY DEF ReleaseHome, At
<1>2. machine[job[p].id] = "none"
  BY <1>1 DEF IInv, Running, Deleting
<1>3. CASE /\ job[p].removeHome
           /\ RemoveHome(job[p].id) \/ RemoveHomeFailed(job[p].id)
  <2>1. DataInv'
    BY <1>1, <1>2, <1>3, DeletingFacts, RemovedHomeKeepsData
  <2>2. /\ \A k \in Ids : k # job[p].id => homes'[k] = homes[k]
        /\ UNCHANGED <<files, archive, backend>>
    BY <1>1, <1>3, DeletingFacts
    DEF RemoveHome, RemoveHomeFailed, DataInv, DataOK
  <2>3. CASE RemoveHome(job[p].id) /\ Goto(p, "forgetHome")
    <3>1. "forgetHome" \in Labels
      BY DEF Labels
    <3>2. homes'[job[p].id] = "absent"
      BY <1>1, <2>3, DeletingFacts DEF RemoveHome, DataInv, DataOK
    <3>3. Running(p)'
      BY <1>1, <1>2, <1>3, <2>2, <2>3, <3>1, <3>2, GotoFacts, DeletingFacts
      DEF IInv, Running, Creating, Applying, Updating, Deleting, files, backend
    <3> QED BY <1>1, <2>1, <2>3, <3>1, <3>3, Advance
  <2>4. CASE DeleteBroken(p)
    BY <1>1, <1>2, <2>1, <2>2, <2>4, DeletingFacts, DeleteBrokenStep
    DEF files, backend
  <2> QED BY <1>3, <2>3, <2>4 DEF ReleaseHome
<1>4. CASE ~job[p].removeHome
  <2>1. /\ archive' \in {archive, archive \union {job[p].id}}
        /\ UNCHANGED <<files, homes, backend>>
    BY <1>4 DEF ReleaseHome
  <2>2. DataInv'
    BY <1>1, <2>1, DeletingFacts, ArchivedKeepsData
  <2>3. CASE archive' = archive \union {job[p].id} /\ Goto(p, "removeState")
    <3>1. "removeState" \in Labels
      BY DEF Labels
    <3>2. Running(p)'
      BY <1>1, <1>2, <2>1, <2>3, <3>1, GotoFacts, DeletingFacts
      DEF IInv, Running, Creating, Applying, Updating, Deleting, files, backend
    <3> QED BY <1>1, <2>2, <2>3, <3>1, <3>2, Advance
  <2>4. CASE DeleteBroken(p)
    BY <1>1, <1>2, <2>1, <2>2, <2>4, DeletingFacts, DeleteBrokenStep
    DEF files, backend
  <2> QED BY <1>4, <2>3, <2>4 DEF ReleaseHome
<1> QED BY <1>3, <1>4 DEF ReleaseHome

LEMMA ForgetHomeStep ==
    ASSUME NEW p \in Procs, IInv, ForgetHome(p)
    PROVE  IInv'
<1>1. pc[p] = "forgetHome"
  BY DEF ForgetHome, At
<1>2. machine[job[p].id] = "none" /\ homes[job[p].id] = "absent"
  BY <1>1 DEF IInv, Running, Deleting
<1>3. /\ archive' \in {archive, archive \ {job[p].id}}
      /\ UNCHANGED <<files, homes, backend>>
  BY DEF ForgetHome
<1>4. DataInv'
  BY <1>1, <1>3, DeletingFacts, ArchivedKeepsData
<1>5. CASE Goto(p, "removeState")
  <2>1. "removeState" \in Labels
    BY DEF Labels
  <2>2. Running(p)'
    BY <1>1, <1>2, <1>3, <1>5, <2>1, GotoFacts, DeletingFacts
    DEF IInv, Running, Creating, Applying, Updating, Deleting, files, backend
  <2> QED BY <1>1, <1>4, <1>5, <2>1, <2>2, Advance
<1>6. CASE DeleteBroken(p)
  BY <1>1, <1>2, <1>3, <1>4, <1>6, DeletingFacts, DeleteBrokenStep
  DEF files, backend
<1> QED BY <1>5, <1>6 DEF ForgetHome

LEMMA RemoveStateStep ==
    ASSUME NEW p \in Procs, IInv, RemoveState(p)
    PROVE  IInv'
<1>1. pc[p] = "removeState"
  BY DEF RemoveState, At
<1>2. /\ machine[job[p].id] = "none"
      /\ homes[job[p].id] = "absent" \/ job[p].id \in archive
  BY <1>1 DEF IInv, Running, Deleting
<1>3. \A i \in Ids : machine[i] = "none"
  BY <1>1, <1>2, DeletingFacts DEF DataInv, BackendOwned
<1>4. \A i \in Ids : homes[i] # "absent" => i \in archive
  BY <1>1, <1>2, DeletingFacts
<1>5. DataInv'
  BY <1>1, <1>3, <1>4, DeletingFacts, RemovedKeepsData DEF RemoveState
<1>6. CASE Return(p)
  BY <1>1, <1>5, <1>6, Finish
<1>7. CASE RemoveFailed /\ DeleteBroken(p)
  <2>1. /\ directory' = directory /\ UNCHANGED <<storage, backend>>
        /\ identity' \in {identity, None}
        /\ job[p].readable => record'.status # "ready"
    BY <1>1, <1>7, DeletingFacts DEF RemoveFailed, NoRecord
  <2> QED BY <1>1, <1>2, <1>5, <1>7, <2>1, DeletingFacts, DeleteBrokenStep
          DEF storage, backend
<1> QED BY <1>6, <1>7 DEF RemoveState

LEMMA BeginPowerStep ==
    ASSUME NEW p \in Procs, IInv, BeginPower(p)
    PROVE  IInv'
<1>1. PICK o \in {"start", "stop"} :
          Begin(p, [NoJob EXCEPT !.op = o, !.id = identity], "power")
  BY DEF BeginPower
<1> DEFINE j == [NoJob EXCEPT !.op = o, !.id = identity]
<1>2. identity \in Ids /\ DataInv
  BY DEF BeginPower, IInv, DataInv, DataOK
<1>3. j \in Jobs /\ j.op \in {"start", "stop"} /\ j.id = identity
  BY <1>2 DEF NoJob, Jobs
<1> HIDE DEF j
<1>4. Begin(p, j, "power")
  BY <1>1 DEF j
<1>5. pc'[p] = "power" /\ job'[p] = j
  BY <1>4 DEF IInv, ControlOK, Begin
<1>6. \A k \in Ids : homes[k] # "absent" /\ k # identity => k \in archive
  BY <1>2, NoneAssumption DEF DataInv, HomeAccounted
<1>7. Running(p)'
  BY <1>2, <1>3, <1>4, <1>5, <1>6
  DEF Running, Applying, Creating, Updating, Deleting, Begin, files, storage
<1> QED BY <1>3, <1>4, <1>7, Start DEF Labels

LEMMA PowerStep ==
    ASSUME NEW p \in Procs, IInv, Power(p)
    PROVE  IInv'
<1>1. pc[p] = "power" /\ DataInv /\ DataOK /\ job[p].id \in Ids
  BY DEF IInv, DataInv, Power, At, Running, Jobs
<1>2. PICK m \in {"none", "stopped", "running"} :
          /\ m = "none" <=> machine[job[p].id] = "none"
          /\ Lima(job[p].id, m, config[job[p].id], applied[job[p].id])
  BY <1>1 DEF Power, Toward, DataOK
<1>3. DataInv'
  BY <1>1, <1>2, PowerKeepsData
<1> QED BY <1>1, <1>3, Finish DEF Power

LEMMA GuestHaltsStep ==
    ASSUME NEW i \in Ids, IInv, GuestHalts(i)
    PROVE  IInv'
<1>1. /\ DataInv' /\ config' = config /\ applied' = applied
      /\ \A k \in Ids : machine'[k] = "none" <=> machine[k] = "none"
      /\ UNCHANGED <<control, files, storage>>
  BY PowerKeepsData DEF IInv, GuestHalts, Lima
<1>2. ControlOK' /\ Exclusive'
  BY <1>1 DEF IInv, ControlOK, Exclusive, control
<1>3. ASSUME NEW q \in Procs
      PROVE  Running(q)'
  BY <1>1 DEF IInv, Running, Jobs, Creating, Applying, Updating, Deleting,
     control, files, storage
<1> QED BY <1>1, <1>2, <1>3 DEF IInv

-----------------------------------------------------------------------------
(* The invariant.                                                          *)

LEMMA InitIInv == Init => IInv
<1> SUFFICES ASSUME Init PROVE IInv
  OBVIOUS
<1>1. ControlOK /\ Exclusive /\ \A p \in Procs : pc[p] = "idle"
  BY DEF Init, ControlOK, Exclusive, Labels
<1>2. DataInv
  BY DEF Init, DataInv, DataOK, AbsentIsEmpty, ReadyIsComplete, NoRecord,
     MachineInputsKept, SavedGenerationKept, BackendOwned, HomeAccounted,
     TreeStates
<1> QED BY <1>1, <1>2 DEF IInv, Running

LEMMA NextIInv == IInv /\ [Next]_vars => IInv'
<1> SUFFICES ASSUME IInv, [Next]_vars PROVE IInv'
  OBVIOUS
<1>1. ASSUME NEW p \in Procs, Create(p)
      PROVE  IInv'
  BY <1>1, BeginCreateStep, PrepareCreationStep, CreateHomeStep,
     SaveCreatingStep, RollbackCreationStep, DiscardCreationStep,
     CreateBackendStep
  DEF Create
<1>2. ASSUME NEW p \in Procs, Apply(p)
      PROVE  IInv'
  BY <1>2, StartBackendStep, ApplyGuestStep, SaveReadyStep, RecordFailureStep
  DEF Apply
<1>3. ASSUME NEW p \in Procs, Update(p)
      PROVE  IInv'
  BY <1>3, BeginUpdateStep, PrepareUpdateStep, SaveUpdatingStep,
     DiscardUncommittedStep, CheckBackendStep, StopBackendStep,
     EditBackendStep, PruneStep
  DEF Update
<1>4. ASSUME NEW p \in Procs, Delete(p)
      PROVE  IInv'
  BY <1>4, BeginDeleteStep, SaveDeletingStep, StopForDeleteStep,
     DeleteBackendStep, ReleaseHomeStep, ForgetHomeStep, RemoveStateStep
  DEF Delete
<1>5. ASSUME NEW p \in Procs, PowerCommand(p)
      PROVE  IInv'
  BY <1>5, BeginPowerStep, PowerStep DEF PowerCommand
<1>6. ASSUME NEW i \in Ids, GuestHalts(i)
      PROVE  IInv'
  BY <1>6, GuestHaltsStep
<1>7. CASE UNCHANGED vars
  <2>1. DataInv'
    BY <1>7, UnchangedKeepsData DEF vars, UnchangedData, IInv
  <2>2. ControlOK' /\ Exclusive'
    BY <1>7 DEF vars, control, IInv, ControlOK, Exclusive
  <2>3. ASSUME NEW q \in Procs
        PROVE  Running(q)'
    BY <1>7 DEF IInv, Running, Jobs, Creating, Applying, Updating, Deleting,
       vars, control, files, storage, backend
  <2> QED BY <2>1, <2>2, <2>3 DEF IInv
<1> QED BY <1>1, <1>2, <1>3, <1>4, <1>5, <1>6, <1>7 DEF Next

(* The strengthened invariant holds in every state of every run, for any   *)
(* number of processes, identities and generations.                        *)
THEOREM Invariance == Spec => []IInv
<1>1. Init => IInv
  BY InitIInv
<1>2. IInv /\ [Next]_vars => IInv'
  BY NextIInv
<1> QED BY <1>1, <1>2, PTL DEF Spec

(* Type correctness: a command never runs without an identity, and disk    *)
(* and Lima hold only what the code can write.                             *)
THEOREM TypeCorrect == Spec => []TypeOK
<1>1. IInv => TypeOK
  BY DEF IInv, DataInv, TypeOK
<1> QED BY <1>1, Invariance, PTL

(* A ready record is true - intact home, a machine over the recorded       *)
(* generation, a guest built from it - unless an intact record can fail to *)
(* be read (vm/doc.go: ready is saved last).                               *)
THEOREM ReadyComplete ==
    ASSUME ~ReadFaults
    PROVE  Spec => []ReadyIsComplete
<1>1. IInv => ReadyIsComplete
  BY DEF IInv, DataInv
<1> QED BY <1>1, Invariance, PTL

(* No discard, prune, rollback or deletion takes what a machine mounts.    *)
THEOREM InputsKept == Spec => []MachineInputsKept
<1>1. IInv => MachineInputsKept
  BY DEF IInv, DataInv
<1> QED BY <1>1, Invariance, PTL

(* The generation a saved record selects is complete while the VM has a    *)
(* machine.                                                                *)
THEOREM GenerationKept == Spec => []SavedGenerationKept
<1>1. IInv => SavedGenerationKept
  BY DEF IInv, DataInv
<1> QED BY <1>1, Invariance, PTL

(* No machine is ever without the identity that delete needs to find it.   *)
THEOREM BackendAlwaysOwned == Spec => []BackendOwned
<1>1. IInv => BackendOwned
  BY DEF IInv, DataInv
<1> QED BY <1>1, Invariance, PTL

(* No home is ever lost track of.                                          *)
THEOREM HomesAccounted == Spec => []HomeAccounted
<1>1. IInv => HomeAccounted
  BY DEF IInv, DataInv
<1> QED BY <1>1, Invariance, PTL

-----------------------------------------------------------------------------
(* Homes are removed in two places only.                                   *)

LEMMA HomesUntouched ==
    ASSUME Next,
           \A p \in Procs : ~RollbackCreation(p) /\ ~ReleaseHome(p)
    PROVE  \/ homes' = homes
           \/ \E p \in Procs : CreateHome(p)
<1>1. ASSUME NEW p \in Procs, Create(p), ~CreateHome(p)
      PROVE  homes' = homes
  BY <1>1 DEF Create, BeginCreate, PrepareCreation, SaveCreating,
     DiscardCreation, CreateBackend, Begin, Prepare, PrepareFailed, Save,
     SaveFailed, SavedSteps, Remove, RemoveFailed, Lima, UnchangedData,
     files, storage
<1>2. ASSUME NEW p \in Procs, Apply(p)
      PROVE  homes' = homes
  BY <1>2 DEF Apply, StartBackend, ApplyGuest, SaveReady, RecordFailure, Save,
     SaveFailed, SavedSteps, Lima, storage
<1>3. ASSUME NEW p \in Procs, Update(p)
      PROVE  homes' = homes
  BY <1>3 DEF Update, BeginUpdate, PrepareUpdate, SaveUpdating,
     DiscardUncommitted, CheckBackend, StopBackend, EditBackend, Prune, Begin,
     Prepare, PrepareFailed, Save, SaveFailed, SavedSteps, Lima,
     UnchangedData, storage
<1>4. ASSUME NEW p \in Procs, Delete(p)
      PROVE  homes' = homes
  BY <1>4 DEF Delete, BeginDelete, SaveDeleting, StopForDelete, DeleteBackend,
     ForgetHome, RemoveState, Begin, Save, SaveFailed, SavedSteps, Lima,
     Remove, RemoveFailed, UnchangedData, storage
<1>5. ASSUME NEW p \in Procs, PowerCommand(p)
      PROVE  homes' = homes
  BY <1>5 DEF PowerCommand, BeginPower, Power, Begin, Lima, storage
<1>6. ASSUME NEW i \in Ids, GuestHalts(i)
      PROVE  homes' = homes
  BY <1>6 DEF GuestHalts, Lima, storage
<1> QED BY <1>1, <1>2, <1>3, <1>4, <1>5, <1>6 DEF Next

LEMMA RemovalStep ==
    ASSUME IInv, [Next]_vars, NEW i \in Ids, HomeRemoved(i)
    PROVE  RemovalRequested(i)
<1>1. homes' # homes /\ Next
  BY DEF HomeRemoved, vars, storage
<1>2. ASSUME NEW p \in Procs, CreateHome(p)
      PROVE  FALSE
  BY <1>2 DEF CreateHome, HomeRemoved, IInv, DataInv, DataOK
<1>3. ASSUME NEW p \in Procs, RollbackCreation(p)
      PROVE  RemovalRequested(i)
  <2>1. /\ job[p].op = "create" /\ machine[job[p].id] = "none"
        /\ job[p].id \in Ids
    BY <1>3 DEF RollbackCreation, At, IInv, Running, Creating, Jobs
  <2>2. job[p].id = i
    BY <1>3, <2>1
    DEF RollbackCreation, RemoveHome, RemoveHomeFailed, HomeRemoved, IInv,
        DataInv, DataOK
  <2> QED BY <2>1, <2>2 DEF RemovalRequested
<1>4. ASSUME NEW p \in Procs, ReleaseHome(p)
      PROVE  RemovalRequested(i)
  <2>1. /\ job[p].op = "delete" /\ machine[job[p].id] = "none"
        /\ job[p].id \in Ids
    BY <1>4, DeletingFacts DEF ReleaseHome, At, Running, Deleting
  <2>2. job[p].removeHome /\ job[p].id = i
    BY <1>4, <2>1
    DEF ReleaseHome, RemoveHome, RemoveHomeFailed, HomeRemoved, IInv,
        DataInv, DataOK
  <2> QED BY <2>1, <2>2 DEF RemovalRequested
<1> QED BY <1>1, <1>2, <1>3, <1>4, HomesUntouched

(* A home is removed only by a delete that asked for it or by the rollback *)
(* of a creation, and never under a machine.                               *)
THEOREM RemovalsRequested == Spec => HomeRemovalRequested
<1>1. IInv /\ [Next]_vars =>
          [\A i \in Ids : HomeRemoved(i) => RemovalRequested(i)]_vars
  BY RemovalStep
<1> QED BY <1>1, Invariance, PTL DEF Spec, HomeRemovalRequested

-----------------------------------------------------------------------------
(* The lifecycle implements Ownership. The case analysis follows the calls;*)
(* what a call relies on comes from the inductive invariant.               *)

(* Ownership sees neither control, nor records and generations, nor power. *)
LEMMA Stutter ==
    ASSUME UNCHANGED <<identity, homes, archive>>,
           \A i \in Ids : machine'[i] = "none" <=> machine[i] = "none"
    PROVE  UNCHANGED Owner!vars
BY DEF Owner!vars

-----------------------------------------------------------------------------
(* The calls that Ownership sees.                                          *)

(* A save records the identity of a creation, once.                        *)
LEMMA SaveRefines ==
    ASSUME NEW p \in Procs, NEW s \in Statuses, NEW n \in 0..3, DataInv,
           SavedSteps(p, s, n), job[p].id \in Ids, identity \in {None, job[p].id}
    PROVE  [Owner!Next]_(Owner!vars)
<1>1. UNCHANGED <<homes, archive, machine>>
  BY DEF SavedSteps, storage, backend
<1>2. CASE identity' = identity
  BY <1>1, <1>2, Stutter
<1>3. CASE identity = None /\ identity' = job[p].id
  <2>1. Owner!Claim(job[p].id)
    BY <1>1, <1>3, NoneAssumption DEF Owner!Claim, DataInv, BackendOwned
  <2> QED BY <2>1 DEF Owner!Next
<1> QED BY <1>2, <1>3 DEF SavedSteps

(* The identity goes with the state directory.                             *)
LEMMA RemoveRefines ==
    ASSUME DataInv, Remove \/ RemoveFailed,
           \A i \in Ids : machine[i] = "none",
           \A i \in Ids : homes[i] # "absent" => i \in archive
    PROVE  [Owner!Next]_(Owner!vars)
<1>1. UNCHANGED <<homes, archive, machine>>
  BY DEF Remove, RemoveFailed, storage, backend
<1>2. CASE identity' = identity
  BY <1>1, <1>2, Stutter
<1>3. CASE identity # None /\ identity' = None
  <2>1. identity \in Ids
    BY <1>3 DEF DataInv, DataOK
  <2>2. Owner!Release(identity)
    BY <1>1, <1>3, <2>1 DEF Owner!Release
  <2> QED BY <2>1, <2>2 DEF Owner!Next
<1> QED BY <1>2, <1>3 DEF Remove, RemoveFailed

(* A home is removed, wholly or in part.                                   *)
LEMMA RemoveHomeRefines ==
    ASSUME NEW i \in Ids, DataInv, RemoveHome(i) \/ RemoveHomeFailed(i),
           machine[i] = "none", identity \in {i, None},
           i \in archive => identity = i
    PROVE  [Owner!Next]_(Owner!vars)
<1>1. UNCHANGED <<identity, archive, machine>>
  BY DEF RemoveHome, RemoveHomeFailed, files, backend
<1>2. PICK t \in Shrunk(homes[i]) : homes' = [homes EXCEPT ![i] = t]
  BY DEF RemoveHome, RemoveHomeFailed, Shrunk
<1>3. t \in Owner!Shrunk(homes[i])
  BY <1>2 DEF Shrunk, Owner!Shrunk
<1>4. Owner!Discard(i)
  BY <1>1, <1>2, <1>3 DEF Owner!Discard
<1> QED BY <1>4 DEF Owner!Next

(* A machine appears for the owner, or goes.                               *)
LEMMA MachineRefines ==
    ASSUME NEW i \in Ids, NEW m \in {"none", "stopped"}, DataOK, identity = i,
           m = "stopped" => homes[i] = "whole",
           machine' = [machine EXCEPT ![i] = m], UNCHANGED <<files, storage>>
    PROVE  [Owner!Next]_(Owner!vars)
<1>1. UNCHANGED <<identity, homes, archive>>
  BY DEF files, storage
<1>2. CASE m = "stopped"
  <2>1. {k \in Ids : machine'[k] # "none"} = {k \in Ids : machine[k] # "none"} \union {i}
    BY <1>2 DEF DataOK
  <2>2. Owner!Build(i)
    BY <1>1, <1>2, <2>1 DEF Owner!Build
  <2> QED BY <2>2 DEF Owner!Next
<1>3. CASE m = "none"
  <2>1. {k \in Ids : machine'[k] # "none"} = {k \in Ids : machine[k] # "none"} \ {i}
    BY <1>3 DEF DataOK
  <2>2. Owner!Destroy(i)
    BY <1>1, <2>1 DEF Owner!Destroy
  <2> QED BY <2>2 DEF Owner!Next
<1> QED BY <1>2, <1>3

(* A start, a stop or a halt.                                              *)
LEMMA PowerRefines ==
    ASSUME NEW i \in Ids, NEW m \in {"none", "stopped", "running"}, DataInv,
           Lima(i, m, config[i], applied[i]),
           m = "none" <=> machine[i] = "none"
    PROVE  UNCHANGED Owner!vars
<1>1. UNCHANGED <<identity, homes, archive>>
  BY DEF Lima, files, storage
<1> QED BY <1>1, PowerKeepsData, Stutter

-----------------------------------------------------------------------------
(* Every step of a command.                                                *)

LEMMA CreateRefines ==
    ASSUME NEW p \in Procs, IInv, Create(p)
    PROVE  [Owner!Next]_(Owner!vars)
<1>1. CASE BeginCreate(p) \/ PrepareCreation(p)
  <2>1. UNCHANGED <<identity, homes, archive, machine>>
    BY <1>1 DEF BeginCreate, PrepareCreation, Begin, Prepare, PrepareFailed,
       files, storage, backend
  <2> QED BY <2>1, Stutter
<1>2. CASE CreateHome(p)
  <2>1. /\ job[p].id \in Ids /\ identity = None /\ job[p].id \notin archive
        /\ homes[job[p].id] = "absent"
    BY <1>2 DEF CreateHome, At, IInv, Running, Creating, Jobs
  <2>2. UNCHANGED <<identity, archive, machine>>
    BY <1>2 DEF CreateHome, files, backend
  <2>3. CASE homes' = [homes EXCEPT ![job[p].id] = "whole"]
    <3>1. Owner!Allocate(job[p].id)
      BY <2>1, <2>2, <2>3 DEF Owner!Allocate
    <3> QED BY <2>1, <3>1 DEF Owner!Next
  <2>4. CASE UNCHANGED homes
    BY <2>2, <2>4, Stutter
  <2> QED BY <1>2, <2>3, <2>4 DEF CreateHome
<1>3. CASE SaveCreating(p)
  <2>1. PICK n \in 0..3 : SavedSteps(p, "creating", n)
    BY <1>3 DEF SaveCreating, Save, SaveFailed
  <2>2. DataInv /\ job[p].id \in Ids /\ identity \in {None, job[p].id}
    BY <1>3 DEF SaveCreating, At, IInv, Running, Jobs
  <2> QED BY <2>1, <2>2, SaveRefines DEF Statuses
<1>4. CASE RollbackCreation(p)
  <2>1. /\ DataInv /\ job[p].id \in Ids /\ identity \in {None, job[p].id}
        /\ machine[job[p].id] = "none" /\ job[p].id \notin archive
    BY <1>4 DEF RollbackCreation, At, IInv, Running, Creating, Jobs
  <2> QED BY <1>4, <2>1, RemoveHomeRefines DEF RollbackCreation
<1>5. CASE DiscardCreation(p)
  <2>1. DataInv /\ pc[p] = "discardCreation" /\ Running(p) /\ Creating(p)
    BY <1>5 DEF DiscardCreation, At, IInv, Running
  <2>2. \A i \in Ids : machine[i] = "none"
    BY <2>1, NoneAssumption DEF Running, Creating, DataInv, BackendOwned
  <2>3. \A i \in Ids : homes[i] # "absent" => i \in archive
    BY <2>1 DEF Running, Creating
  <2> QED BY <1>5, <2>1, <2>2, <2>3, RemoveRefines DEF DiscardCreation
<1>6. CASE CreateBackend(p)
  <2>1. /\ job[p].id \in Ids /\ identity = job[p].id /\ DataOK
        /\ homes[job[p].id] = "whole"
    BY <1>6 DEF CreateBackend, At, IInv, DataInv, Running, Creating, Jobs
  <2>2. CASE Lima(job[p].id, "stopped", job[p].gen, None)
    BY <2>1, <2>2, MachineRefines DEF Lima
  <2>3. CASE UnchangedData
    <3>1. UNCHANGED <<identity, homes, archive, machine>>
      BY <2>3 DEF UnchangedData, files, storage, backend
    <3> QED BY <3>1, Stutter
  <2> QED BY <1>6, <2>2, <2>3 DEF CreateBackend
<1> QED BY <1>1, <1>2, <1>3, <1>4, <1>5, <1>6 DEF Create

LEMMA ApplyRefines ==
    ASSUME NEW p \in Procs, IInv, Apply(p)
    PROVE  [Owner!Next]_(Owner!vars)
<1>1. DataInv /\ DataOK /\ job[p].id \in Ids /\ identity \in {None, job[p].id}
  BY DEF Apply, StartBackend, ApplyGuest, SaveReady, RecordFailure, At, IInv,
     DataInv, Running, Jobs
<1>2. CASE StartBackend(p) \/ ApplyGuest(p)
  <2>1. UNCHANGED <<identity, homes, archive>>
    BY <1>2 DEF StartBackend, ApplyGuest, Lima, files, storage
  <2>2. \A i \in Ids : machine'[i] = "none" <=> machine[i] = "none"
    BY <1>1, <1>2 DEF StartBackend, ApplyGuest, Lima, Toward, DataOK
  <2> QED BY <2>1, <2>2, Stutter
<1>3. CASE SaveReady(p) \/ RecordFailure(p)
  <2>1. PICK s \in Statuses, n \in 0..3 : SavedSteps(p, s, n)
    BY <1>3 DEF SaveReady, RecordFailure, Save, SaveFailed, Statuses
  <2> QED BY <1>1, <2>1, SaveRefines
<1> QED BY <1>2, <1>3 DEF Apply

LEMMA UpdateRefines ==
    ASSUME NEW p \in Procs, IInv, Update(p)
    PROVE  [Owner!Next]_(Owner!vars)
<1>1. CASE \/ BeginUpdate(p) \/ PrepareUpdate(p) \/ DiscardUncommitted(p)
           \/ CheckBackend(p) \/ Prune(p)
  <2>1. UNCHANGED <<identity, homes, archive, machine>>
    BY <1>1 DEF BeginUpdate, PrepareUpdate, DiscardUncommitted, CheckBackend,
       Prune, Begin, Prepare, PrepareFailed, UnchangedData, files, storage,
       backend
  <2> QED BY <2>1, Stutter
<1>2. CASE SaveUpdating(p)
  <2>1. PICK n \in 0..3 : SavedSteps(p, "updating", n)
    BY <1>2 DEF SaveUpdating, Save, SaveFailed
  <2>2. DataInv /\ job[p].id \in Ids /\ identity \in {None, job[p].id}
    BY <1>2 DEF SaveUpdating, At, IInv, Running, Jobs
  <2> QED BY <2>1, <2>2, SaveRefines DEF Statuses
<1>3. CASE StopBackend(p) \/ EditBackend(p)
  <2>1. DataOK /\ job[p].id \in Ids
    BY <1>3 DEF StopBackend, EditBackend, At, IInv, DataInv, Running, Jobs
  <2>2. UNCHANGED <<identity, homes, archive>>
    BY <1>3 DEF StopBackend, EditBackend, UnchangedData, Lima, files, storage
  <2>3. \A i \in Ids : machine'[i] = "none" <=> machine[i] = "none"
    BY <1>3, <2>1
    DEF StopBackend, EditBackend, UnchangedData, Lima, Toward, DataOK, backend
  <2> QED BY <2>2, <2>3, Stutter
<1> QED BY <1>1, <1>2, <1>3 DEF Update

LEMMA DeleteRefines ==
    ASSUME NEW p \in Procs, IInv, Delete(p)
    PROVE  [Owner!Next]_(Owner!vars)
<1>1. CASE BeginDelete(p)
  BY <1>1, Stutter DEF BeginDelete, Begin, files, storage, backend
<1>2. CASE SaveDeleting(p)
  <2>1. PICK n \in 0..3 : SavedSteps(p, "deleting", n)
    BY <1>2 DEF SaveDeleting, Save, SaveFailed
  <2>2. DataInv /\ job[p].id \in Ids /\ identity \in {None, job[p].id}
    BY <1>2 DEF SaveDeleting, At, IInv, Running, Jobs
  <2> QED BY <2>1, <2>2, SaveRefines DEF Statuses
<1>3. CASE StopForDelete(p)
  <2>1. DataOK /\ job[p].id \in Ids
    BY <1>3, DeletingFacts DEF StopForDelete, At, DataInv
  <2>2. UNCHANGED <<identity, homes, archive>>
    BY <1>3 DEF StopForDelete, UnchangedData, Lima, files, storage
  <2>3. \A i \in Ids : machine'[i] = "none" <=> machine[i] = "none"
    BY <1>3, <2>1 DEF StopForDelete, UnchangedData, Lima, DataOK, backend
  <2> QED BY <2>2, <2>3, Stutter
<1>4. CASE DeleteBackend(p)
  <2>1. DataOK /\ job[p].id \in Ids /\ identity = job[p].id
    BY <1>4, DeletingFacts DEF DeleteBackend, At, DataInv
  <2>2. UNCHANGED <<identity, homes, archive>>
    BY <1>4 DEF DeleteBackend, Lima, files, storage
  <2>3. CASE Lima(job[p].id, "none", None, None)
    BY <2>1, <2>3, MachineRefines DEF Lima
  <2>4. ASSUME NEW m \in Toward(job[p].id, "stopped"),
               Lima(job[p].id, m, config[job[p].id], applied[job[p].id])
        PROVE  \A i \in Ids : machine'[i] = "none" <=> machine[i] = "none"
    BY <2>1, <2>4 DEF Lima, Toward, DataOK
  <2> QED BY <1>4, <2>2, <2>3, <2>4, Stutter DEF DeleteBackend
<1>5. CASE ReleaseHome(p)
  <2>1. /\ DataInv /\ job[p].id \in Ids /\ identity = job[p].id
        /\ machine[job[p].id] = "none"
    BY <1>5, DeletingFacts DEF ReleaseHome, At, Running, Deleting
  <2>2. CASE RemoveHome(job[p].id) \/ RemoveHomeFailed(job[p].id)
    BY <2>1, <2>2, RemoveHomeRefines
  <2>3. CASE /\ UNCHANGED <<files, homes, backend>>
             /\ archive' = archive \union {job[p].id}
    <3>1. Owner!Keep(job[p].id)
      BY <2>1, <2>3 DEF Owner!Keep, files, backend
    <3> QED BY <2>1, <3>1 DEF Owner!Next
  <2>4. CASE UNCHANGED <<files, storage, backend>>
    <3>1. UNCHANGED <<identity, homes, archive, machine>>
      BY <2>4 DEF files, storage, backend
    <3> QED BY <3>1, Stutter
  <2> QED BY <1>5, <2>2, <2>3, <2>4 DEF ReleaseHome, storage
<1>6. CASE ForgetHome(p)
  <2>1. /\ job[p].id \in Ids /\ identity = job[p].id
        /\ homes[job[p].id] = "absent"
    BY <1>6, DeletingFacts DEF ForgetHome, At, Running, Deleting
  <2>2. CASE archive' = archive \ {job[p].id}
    <3>1. Owner!Forget(job[p].id)
      BY <1>6, <2>1, <2>2 DEF ForgetHome, Owner!Forget, files, backend
    <3> QED BY <2>1, <3>1 DEF Owner!Next
  <2>3. CASE UNCHANGED archive
    BY <1>6, <2>3, Stutter DEF ForgetHome, files, backend
  <2> QED BY <1>6, <2>2, <2>3 DEF ForgetHome
<1>7. CASE RemoveState(p)
  <2>1. /\ DataInv /\ machine[job[p].id] = "none" /\ identity = job[p].id
        /\ homes[job[p].id] = "absent" \/ job[p].id \in archive
        /\ \A i \in Ids : homes[i] # "absent" /\ i # job[p].id => i \in archive
    BY <1>7, DeletingFacts DEF RemoveState, At, Running, Deleting
  <2>2. \A i \in Ids : machine[i] = "none"
    BY <2>1 DEF DataInv, BackendOwned
  <2> QED BY <1>7, <2>1, <2>2, RemoveRefines DEF RemoveState
<1> QED BY <1>1, <1>2, <1>3, <1>4, <1>5, <1>6, <1>7 DEF Delete

LEMMA PowerCommandRefines ==
    ASSUME NEW p \in Procs, IInv, PowerCommand(p)
    PROVE  [Owner!Next]_(Owner!vars)
<1>1. CASE BeginPower(p)
  BY <1>1, Stutter DEF BeginPower, Begin, files, storage, backend
<1>2. CASE Power(p)
  <2>1. DataOK /\ job[p].id \in Ids
    BY <1>2 DEF Power, At, IInv, DataInv, Running, Jobs
  <2>2. UNCHANGED <<identity, homes, archive>>
    BY <1>2 DEF Power, Lima, files, storage
  <2>3. \A i \in Ids : machine'[i] = "none" <=> machine[i] = "none"
    BY <1>2, <2>1 DEF Power, Lima, Toward, DataOK
  <2> QED BY <2>2, <2>3, Stutter
<1> QED BY <1>1, <1>2 DEF PowerCommand

LEMMA NextRefines == IInv /\ [Next]_vars => [Owner!Next]_(Owner!vars)
<1> SUFFICES ASSUME IInv, [Next]_vars PROVE [Owner!Next]_(Owner!vars)
  OBVIOUS
<1>1. ASSUME NEW i \in Ids, GuestHalts(i)
      PROVE  UNCHANGED Owner!vars
  BY <1>1, PowerRefines DEF GuestHalts, IInv
<1>2. CASE UNCHANGED vars
  BY <1>2, Stutter DEF vars, files, storage, backend
<1> QED BY <1>1, <1>2, CreateRefines, ApplyRefines, UpdateRefines,
        DeleteRefines, PowerCommandRefines
        DEF Next

(* Whatever commands run, fail or are killed, limanix keeps the promises   *)
(* of Ownership on a VM name (vm/doc.go, "Failure and deletion             *)
(* boundaries").                                                           *)
THEOREM Refinement == Spec => ImplementsOwnership
<1>1. Init => Owner!Init
  BY DEF Init, Owner!Init
<1>2. IInv /\ [Next]_vars => [Owner!Next]_(Owner!vars)
  BY NextRefines
<1> QED BY <1>1, <1>2, Invariance, PTL DEF Spec, ImplementsOwnership, Owner!Spec

-----------------------------------------------------------------------------
(* What a step of Ownership cannot do, and so no step of a command.        *)

(* Once a VM was deleted, no command touches the home it preserved, or     *)
(* withdraws its archive: not the delete of a later VM of the same name,   *)
(* whatever it removes, and no failed creation (delete.go releaseHome).    *)
PreservedKept ==
    \A i \in archive : identity # i => homes'[i] = homes[i] /\ i \in archive'

(* A name changes hands only through nobody's: its identity goes when no   *)
(* machine is left and the home is archived or gone, and a new one comes   *)
(* when there was none (store.go Save, Remove; delete.go).                 *)
NameGivenUp ==
    \A i \in Ids : identity = i /\ identity' # i =>
        /\ identity' = None
        /\ machine[i] = "none" /\ machine'[i] = "none"
        /\ i \in archive \/ homes[i] = "absent"

(* A machine is built for the owner of the name only, over an intact home, *)
(* and never for the identity of an archived home that the name has left   *)
(* (create.go: the identity is saved before the machine is made).          *)
MachineBuiltOwned ==
    \A i \in Ids : machine[i] = "none" /\ machine'[i] # "none" =>
        identity = i /\ identity' = i /\ homes[i] = "whole"

(* A step of a command is a step of Ownership or leaves its variables      *)
(* alone, and neither breaks the three.                                    *)
LEMMA OwnershipPrevents ==
    ASSUME IInv, [Next]_vars
    PROVE  PreservedKept /\ NameGivenUp /\ MachineBuiltOwned
<1> DEFINE Machines == {i \in Ids : machine[i] # "none"}
<1>1. [Owner!Next]_(Owner!vars)
  BY NextRefines
<1>2. /\ homes \in [Ids -> TreeStates] /\ archive \subseteq Ids
      /\ None \notin Ids
  BY NoneAssumption DEF IInv, DataInv, DataOK
<1>3. CASE UNCHANGED Owner!vars
  BY <1>2, <1>3 DEF Owner!vars, PreservedKept, NameGivenUp, MachineBuiltOwned
<1>4. ASSUME NEW i \in Ids,
             \/ Owner!Allocate(i) \/ Owner!Claim(i) \/ Owner!Build(i)
             \/ Owner!Destroy(i) \/ Owner!Discard(i) \/ Owner!Keep(i)
             \/ Owner!Forget(i) \/ Owner!Release(i)
      PROVE  PreservedKept /\ NameGivenUp /\ MachineBuiltOwned
  <2>1. PreservedKept
    BY <1>2, <1>4 DEF PreservedKept, Owner!Allocate, Owner!Claim, Owner!Build,
       Owner!Destroy, Owner!Discard, Owner!Keep, Owner!Forget, Owner!Release
  <2>2. NameGivenUp
    BY <1>2, <1>4 DEF NameGivenUp, Owner!Allocate, Owner!Claim, Owner!Build,
       Owner!Destroy, Owner!Discard, Owner!Keep, Owner!Forget, Owner!Release
  <2>3. MachineBuiltOwned
    BY <1>2, <1>4 DEF MachineBuiltOwned, Owner!Allocate, Owner!Claim,
       Owner!Build, Owner!Destroy, Owner!Discard, Owner!Keep, Owner!Forget,
       Owner!Release
  <2> QED BY <2>1, <2>2, <2>3
<1> QED BY <1>1, <1>3, <1>4 DEF Owner!Next

(* Preserved homes outlive whatever happens to the name afterwards.        *)
THEOREM PreservedHomesUntouched == Spec => [][PreservedKept]_vars
<1>1. IInv /\ [Next]_vars => [PreservedKept]_vars
  BY OwnershipPrevents
<1> QED BY <1>1, Invariance, PTL DEF Spec

(* A name is given up last, and never handed over.                         *)
THEOREM NameGivenUpLast == Spec => [][NameGivenUp]_vars
<1>1. IInv /\ [Next]_vars => [NameGivenUp]_vars
  BY OwnershipPrevents
<1> QED BY <1>1, Invariance, PTL DEF Spec

(* No machine is built before its identity is saved and its home is whole. *)
THEOREM MachinesBuiltOwned == Spec => [][MachineBuiltOwned]_vars
<1>1. IInv /\ [Next]_vars => [MachineBuiltOwned]_vars
  BY OwnershipPrevents
<1> QED BY <1>1, Invariance, PTL DEF Spec

-----------------------------------------------------------------------------
(* Commands beside listings. Listings see a command's files and lock, and  *)
(* change neither: with the listings hidden, module Listing implements     *)
(* Lifecycle, and everything proved of it holds beside listings as well.   *)

(* Commands beside listings are commands (list.go writes nothing).         *)
THEOREM ListingHidden == ListSpec => Spec
<1>1. ListInit => Init
  BY DEF ListInit
<1>2. ASSUME [ListNext]_listedVars
      PROVE  [Next]_vars
  <2>1. ASSUME NEW l \in Lists, BeginList(l) \/ List(l) \/ EndList(l)
        PROVE  UNCHANGED vars
    BY <2>1 DEF BeginList, List, ReadIdentity, ReadRecord, TryLock, RereadRecord,
       Report, EndList, Step
  <2> QED BY <1>2, <2>1 DEF ListNext, Command, listedVars
<1> QED BY <1>1, <1>2, PTL DEF ListSpec, Spec

(* The ownership protocol is kept beside any number of listings.           *)
THEOREM RefinementBesideListings == ListSpec => ImplementsOwnership
  BY ListingHidden, Refinement, PTL

(* So is the promise of a ready record, which a listing passes on.         *)
THEOREM ReadyBesideListings ==
    ASSUME ~ReadFaults
    PROVE  ListSpec => []ReadyIsComplete
<1>1. Spec => []ReadyIsComplete
  BY ReadyComplete
<1> QED BY <1>1, ListingHidden, PTL

(* Without a command under the VM lock, identity and record stay.          *)
LEMMA UnlockedFilesStay ==
    ASSUME IInv, [Next]_vars, lock = None
    PROVE  UNCHANGED <<identity, record>>
<1>1. \A p \in Procs : pc[p] = "idle"
  BY NoneAssumption DEF IInv, Exclusive
<1>2. ASSUME NEW p \in Procs, Create(p)
      PROVE  UNCHANGED <<identity, record>>
  <2>1. BeginCreate(p)
    BY <1>1, <1>2 DEF Create, PrepareCreation, CreateHome, SaveCreating,
       RollbackCreation, DiscardCreation, CreateBackend, At
  <2> QED BY <2>1 DEF BeginCreate, Begin, files
<1>3. ASSUME NEW p \in Procs, Apply(p)
      PROVE  FALSE
  BY <1>1, <1>3 DEF Apply, StartBackend, ApplyGuest, SaveReady, RecordFailure, At
<1>4. ASSUME NEW p \in Procs, Update(p)
      PROVE  UNCHANGED <<identity, record>>
  <2>1. BeginUpdate(p)
    BY <1>1, <1>4 DEF Update, PrepareUpdate, SaveUpdating, DiscardUncommitted,
       CheckBackend, StopBackend, EditBackend, Prune, At
  <2> QED BY <2>1 DEF BeginUpdate, Begin, files
<1>5. ASSUME NEW p \in Procs, Delete(p)
      PROVE  UNCHANGED <<identity, record>>
  <2>1. BeginDelete(p)
    BY <1>1, <1>5 DEF Delete, SaveDeleting, StopForDelete, DeleteBackend,
       ReleaseHome, ForgetHome, RemoveState, At
  <2> QED BY <2>1 DEF BeginDelete, Begin, files
<1>6. ASSUME NEW p \in Procs, PowerCommand(p)
      PROVE  UNCHANGED <<identity, record>>
  <2>1. BeginPower(p)
    BY <1>1, <1>6 DEF PowerCommand, Power, At
  <2> QED BY <2>1 DEF BeginPower, Begin, files
<1>7. ASSUME NEW i \in Ids, GuestHalts(i)
      PROVE  UNCHANGED <<identity, record>>
  BY <1>7 DEF GuestHalts, Lima, files
<1> QED BY <1>2, <1>3, <1>4, <1>5, <1>6, <1>7 DEF Next, vars, files

(* A listing that holds the shared lock keeps commands out.                *)
SharedExcludes == shared # {} => lock = None

(* What a listing read again under the lock is still so; it calls nothing  *)
(* interrupted before.                                                     *)
Rereading ==
    \A l \in Lists :
        /\ step[l] \in {"rereadIdentity", "rereadRecord"} => l \in shared
        /\ step[l] = "rereadRecord" => identity = entry[l].id
        /\ entry[l].status = "interrupted" =>
            /\ step[l] = "report" /\ l \in shared
            /\ identity = entry[l].id
            /\ record.status \in InFlight
            /\ record.gen = entry[l].gen

ListInv == IInv /\ ListTypeOK /\ SharedExcludes /\ Rereading

LEMMA EntryFacts ==
    ASSUME DataInv
    PROVE  /\ NoEntry \in Entries /\ NoEntry.status = "absent"
           /\ \A i \in Ids \union {None} :
                /\ Damaged(i) \in Entries /\ Damaged(i).status = "absent"
                /\ Loaded(i) \in Entries
                /\ Loaded(i).status = record.status /\ Loaded(i).status # "interrupted"
                /\ Loaded(i).id = i /\ Loaded(i).gen = record.gen
BY DEF DataInv, DataOK, Records, NoRecord, Statuses, Entries, NoEntry, Damaged, Loaded

LEMMA InitListInv == ListInit => ListInv
BY InitIInv DEF ListInit, ListInv, ListTypeOK, SharedExcludes, Rereading,
   Entries, NoEntry

(* Under a shared lock no command begins, so none changes what was read.   *)
LEMMA CommandListInv ==
    ASSUME ListInv, Command
    PROVE  ListInv'
<1>1. IInv' /\ UNCHANGED <<step, entry, shared>>
  BY NextIInv DEF ListInv, Command, reading
<1>2. shared # {} => lock' = None /\ UNCHANGED <<identity, record>>
  BY UnlockedFilesStay DEF ListInv, Command, SharedExcludes
<1>3. ListTypeOK' /\ SharedExcludes'
  BY <1>1, <1>2 DEF ListInv, ListTypeOK, SharedExcludes
<1>4. Rereading'
  BY <1>1, <1>2 DEF ListInv, Rereading
<1> QED BY <1>1, <1>3, <1>4 DEF ListInv

(* One listing goes on; the others keep what they have read.               *)
LEMMA StepListInv ==
    ASSUME NEW l \in Lists, NEW e \in Entries, ListInv,
           NEW s \in {"idle", "readIdentity", "readRecord", "tryLock",
                      "rereadIdentity", "rereadRecord", "report"},
           Step(l, s, e),
           \/ shared' = shared
           \/ shared' = shared \ {l}
           \/ shared' = shared \union {l} /\ lock = None,
           l \in shared' => s \in {"rereadIdentity", "rereadRecord", "report"},
           s \in {"rereadIdentity", "rereadRecord"} => l \in shared',
           s = "rereadRecord" => identity = e.id,
           e.status = "interrupted" =>
               /\ s = "report" /\ l \in shared' /\ identity = e.id
               /\ record.status \in InFlight /\ record.gen = e.gen
    PROVE  ListInv'
<1>1. UNCHANGED vars
  BY DEF Step
<1>2. IInv'
  BY <1>1, NextIInv DEF ListInv
<1>3. lock' = lock /\ identity' = identity /\ record' = record
  BY <1>1 DEF vars, control, files
<1>4. ListTypeOK' /\ SharedExcludes'
  BY <1>3 DEF ListInv, ListTypeOK, SharedExcludes, Step
<1>5. Rereading'
  BY <1>3 DEF ListInv, ListTypeOK, Rereading, Step
<1> QED BY <1>2, <1>4, <1>5 DEF ListInv

LEMMA ListingListInv ==
    ASSUME NEW l \in Lists, ListInv, BeginList(l) \/ List(l) \/ EndList(l)
    PROVE  ListInv'
<1> DEFINE e == entry[l]
<1>1. /\ e \in Entries /\ e.id \in Ids \union {None}
      /\ l \in shared => step[l] \in {"rereadIdentity", "rereadRecord", "report"}
      /\ DataInv /\ identity \in Ids \union {None}
  BY DEF ListInv, ListTypeOK, Entries, IInv, DataInv, DataOK
<1>2. CASE BeginList(l) \/ Report(l) \/ EndList(l)
  BY <1>1, <1>2, EntryFacts, StepListInv DEF BeginList, Report, EndList
<1>3. CASE ReadIdentity(l)
  <2>1. CASE Step(l, "report", NoEntry)
    BY <1>1, <1>3, <2>1, EntryFacts, StepListInv DEF ReadIdentity
  <2>2. CASE Step(l, IF step[l] = "readIdentity" THEN "readRecord" ELSE "rereadRecord",
                  [e EXCEPT !.id = identity])
    <3>1. /\ [e EXCEPT !.id = identity] \in Entries
          /\ [e EXCEPT !.id = identity].id = identity
          /\ [e EXCEPT !.id = identity].status = e.status
      BY <1>1 DEF Entries
    <3>2. e.status # "interrupted" /\ (step[l] = "rereadIdentity" => l \in shared)
      BY <1>3 DEF ReadIdentity, ListInv, Rereading
    <3> HIDE DEF e
    <3> QED BY <1>1, <1>3, <2>2, <3>1, <3>2, StepListInv DEF ReadIdentity
  <2> QED BY <1>3, <2>1, <2>2 DEF ReadIdentity
<1>4. CASE ReadRecord(l)
  BY <1>1, <1>4, EntryFacts, StepListInv DEF ReadRecord
<1>5. CASE TryLock(l)
  <2>1. e.status # "interrupted"
    BY <1>5 DEF TryLock, ListInv, Rereading
  <2> HIDE DEF e
  <2>2. Step(l, "rereadIdentity", e) \/ Step(l, "report", e) \/ Step(l, "report", Damaged(e.id))
    BY <1>5 DEF TryLock, e
  <2>3. /\ step[l] = "tryLock"
        /\ \/ shared' = shared \union {l} /\ lock = None /\ Step(l, "rereadIdentity", e)
           \/ shared' = shared /\ Step(l, "report", e)
           \/ shared' = shared /\ Step(l, "report", Damaged(e.id))
    BY <1>5 DEF TryLock, e
  <2> QED BY <1>1, <2>1, <2>3, EntryFacts, StepListInv
<1>6. CASE RereadRecord(l)
  <2>1. l \in shared /\ identity = e.id /\ shared' = shared
    BY <1>6 DEF RereadRecord, ListInv, Rereading
  <2>2. CASE Step(l, "report", Damaged(e.id))
    BY <1>1, <2>1, <2>2, EntryFacts, StepListInv
  <2>3. CASE Step(l, "report", Interrupted(Loaded(e.id)))
    <3>1. /\ Interrupted(Loaded(e.id)) \in Entries
          /\ Interrupted(Loaded(e.id)).id = e.id
          /\ Interrupted(Loaded(e.id)).gen = record.gen
          /\ Interrupted(Loaded(e.id)).status = "interrupted" => record.status \in InFlight
      BY <1>1, EntryFacts DEF Interrupted, Entries
    <3> QED BY <1>1, <2>1, <2>3, <3>1, StepListInv
  <2> QED BY <1>6, <2>2, <2>3 DEF RereadRecord
<1> QED BY <1>2, <1>3, <1>4, <1>5, <1>6 DEF List

LEMMA NextListInv ==
    ASSUME ListInv, [ListNext]_listedVars
    PROVE  ListInv'
<1>1. CASE UNCHANGED listedVars
  <2>1. IInv'
    BY <1>1, NextIInv DEF ListInv, listedVars
  <2>2. UNCHANGED <<step, entry, shared, lock, identity, record>>
    BY <1>1 DEF listedVars, reading, vars, control, files
  <2>3. ListTypeOK' /\ SharedExcludes' /\ Rereading'
    BY <2>2 DEF ListInv, ListTypeOK, SharedExcludes, Rereading
  <2> QED BY <2>1, <2>3 DEF ListInv
<1> QED BY <1>1, CommandListInv, ListingListInv DEF ListNext

LEMMA ListInvariance == ListSpec => []ListInv
BY InitListInv, NextListInv, PTL DEF ListSpec

(* The variables of the listings keep their types, and a listing holds the *)
(* VM lock only from a successful try to its report (list.go).             *)
THEOREM ListTypeCorrect == ListSpec => []ListTypeOK
<1>1. ListInv => ListTypeOK
  BY DEF ListInv
<1> QED BY <1>1, ListInvariance, PTL

(* What is reported as interrupted is so when it is reported: no command   *)
(* runs, and the record is that of an unfinished operation of the reported *)
(* VM and generation (list.go refreshInterruptedEntry).                    *)
THEOREM InterruptedTrue == ListSpec => []InterruptedJustified
<1>1. ListInv => InterruptedJustified
  BY DEF ListInv, SharedExcludes, Rereading, InterruptedJustified
<1> QED BY <1>1, ListInvariance, PTL

(* An operation is reported as in progress only when a command has the     *)
(* lock as the listing looks (domain.Interrupted).                         *)
THEOREM InFlightTrue == ListSpec => InFlightHasWriter
<1>1. ASSUME ListInv, [ListNext]_listedVars, NEW l \in Lists,
             step[l] # "report", step'[l] = "report", entry'[l].status \in InFlight
      PROVE  lock # None
  <2>1. List(l)
    <3>1. ASSUME NEW k \in Lists, NEW s, NEW e, Step(k, s, e), k # l
          PROVE  FALSE
      BY <1>1, <3>1 DEF Step, ListInv, ListTypeOK
    <3>2. ~BeginList(l) /\ ~EndList(l)
      BY <1>1 DEF BeginList, EndList, Step, ListInv, ListTypeOK
    <3>3. ASSUME NEW k \in Lists, BeginList(k) \/ List(k) \/ EndList(k)
          PROVE  k = l
      BY <3>1, <3>3 DEF BeginList, List, ReadIdentity, ReadRecord, TryLock,
         RereadRecord, Report, EndList
    <3>4. ~Command /\ ~UNCHANGED listedVars
      BY <1>1 DEF Command, reading, listedVars
    <3> QED BY <1>1, <3>2, <3>3, <3>4 DEF ListNext
  <2>2. /\ \A s, e : Step(l, s, e) => s = "report" /\ e.status \in InFlight
        /\ step[l] # "report"
    BY <1>1 DEF Step, ListInv, ListTypeOK
  <2>3. "absent" \notin InFlight /\ "interrupted" \notin InFlight /\ DataInv
    BY <1>1 DEF InFlight, ListInv, IInv
  <2>4. ~Step(l, "report", NoEntry) /\ \A i \in Ids \union {None} : ~Step(l, "report", Damaged(i))
    BY <2>2, <2>3, EntryFacts
  <2>5. entry[l].id \in Ids \union {None}
    BY <1>1 DEF ListInv, ListTypeOK, Entries
  <2>6. TryLock(l)
    <3>1. ~ReadIdentity(l) /\ ~Report(l)
      BY <2>2, <2>4 DEF ReadIdentity, Report
    <3>2. ~ReadRecord(l)
      BY <2>2, <2>3, <2>4, <2>5, EntryFacts DEF ReadRecord
    <3>3. ~RereadRecord(l)
      <4>1. Interrupted(Loaded(entry[l].id)).status \notin InFlight
        BY <2>3, <2>5, EntryFacts DEF Interrupted, Entries
      <4> QED BY <2>2, <2>4, <2>5, <4>1 DEF RereadRecord
    <3> QED BY <2>1, <3>1, <3>2, <3>3 DEF List
  <2> QED BY <2>2, <2>4, <2>5, <2>6 DEF TryLock
<1>2. ListInv /\ [ListNext]_listedVars =>
        [\A l \in Lists :
            /\ step[l] # "report" /\ step'[l] = "report"
            /\ entry'[l].status \in InFlight
            => lock # None]_listedVars
  BY <1>1
<1> QED BY <1>2, ListInvariance, PTL DEF ListSpec, InFlightHasWriter

=============================================================================
