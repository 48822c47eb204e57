--------------------------- MODULE GuestApplyProofs ---------------------------
(***************************************************************************)
(* Proofs about GuestApply: a provisioning that returns as cancelled leaves *)
(* no rebuild behind, the guest restarts only after a completed one, and a *)
(* rebuild is stopped only for a caller that gave up.                      *)
(*                                                                         *)
(* Caller, session and unit take their steps in any order. What ties them  *)
(* together is that a unit is born of one request, that a session has one, *)
(* and that a unit which has ended stays so.                               *)
(***************************************************************************)
EXTENDS GuestApply, TLAPS

Ended == {"built", "failed", "stopped"}

\* A unit exists once the request for it was served; only a session makes
\* that request.
UnitRequested ==
    /\ unit = "unborn" <=> request # "served"
    /\ session = "none" => request = "none"

\* A session that reports success has seen the unit complete.
SuccessIsBuilt ==
    /\ session # "closed" => runErr = "none"
    /\ session = "closed" /\ runErr = "none" => unit = "built"

\* What the caller knows at each of its steps.
CallerKnows ==
    /\ pc \in {"install", "build"} => session = "none"
    /\ pc \notin {"install", "returned"} => installed = Installs
    /\ pc \in {"stop", "stopFailed", "close", "finish"} => cancelled
    /\ pc = "stopFailed" => stopErr = "failed"
    /\ pc \in {"close", "finish"} /\ stopErr = "none" => unit \in Ended
    /\ pc \in {"powerOff", "powerOn", "verify"} => unit = "built"

\* And what its result says.
ResultTells ==
    /\ result # "none" => pc = "returned"
    /\ result = "cancelled" => session = "none" \/ unit \in Ended
    /\ result = "ok" => unit = "built" /\ installed = Installs

IInv ==
    /\ TypeOK
    /\ UnitRequested
    /\ SuccessIsBuilt
    /\ CallerKnows
    /\ ResultTells

-----------------------------------------------------------------------------

LEMMA InitIInv == Init => IInv
<1> SUFFICES ASSUME Init
             PROVE  IInv
  OBVIOUS
<1>1. TypeOK
  <2>1. installed \in 0..Installs
    BY DEF Init, Installs
  <2> QED BY <2>1 DEF Init, TypeOK
<1>2. UnitRequested /\ SuccessIsBuilt /\ CallerKnows /\ ResultTells
  BY DEF Init, UnitRequested, SuccessIsBuilt, CallerKnows, ResultTells
<1> QED BY <1>1, <1>2 DEF IInv

LEMMA InstallKeeps ==
    ASSUME IInv, Install \/ Build
    PROVE  IInv'
BY DEF Install, Build, Goto, Return, remote, IInv, TypeOK, UnitRequested,
   SuccessIsBuilt, CallerKnows, ResultTells, Installs, Ended

\* The session and the unit, which the caller does not wait for.
LEMMA GuestKeeps ==
    ASSUME IInv,
           \/ Cancel \/ SendRequest \/ LaunchUnit \/ UnitEnds \/ GuestHalts
           \/ SessionEnds \/ DeadlineExpires
    PROVE  IInv'
<1> USE DEF IInv, Cancel, SendRequest, LaunchUnit, UnitEnds, GuestHalts,
            SessionEnds, DeadlineExpires, caller, remote
<1>1. TypeOK'
  BY DEF TypeOK
<1>2. UnitRequested' /\ SuccessIsBuilt'
  BY DEF TypeOK, UnitRequested, SuccessIsBuilt, CallerKnows
<1>3. CallerKnows'
  BY DEF TypeOK, UnitRequested, CallerKnows, Ended
<1>4. ResultTells'
  BY DEF TypeOK, UnitRequested, ResultTells, Ended
<1> QED BY <1>1, <1>2, <1>3, <1>4

LEMMA WaitKeeps ==
    ASSUME IInv, Wait
    PROVE  IInv'
BY DEF Wait, Goto, Return, remote, IInv, TypeOK, UnitRequested,
   SuccessIsBuilt, CallerKnows, ResultTells, Ended

\* A stop that succeeds has found a unit, and leaves none that runs.
LEMMA StopUnitKeeps ==
    ASSUME IInv, StopUnit
    PROVE  IInv'
BY DEF StopUnit, Goto, IInv, TypeOK, UnitRequested, SuccessIsBuilt,
   CallerKnows, ResultTells, Ended

LEMMA StopKeeps ==
    ASSUME IInv, GiveUp \/ RetryStop \/ CloseSession \/ FinishBuild
    PROVE  IInv'
<1> USE DEF IInv, GiveUp, RetryStop, CloseSession, FinishBuild, Goto, Return, remote
<1>1. TypeOK'
  BY DEF TypeOK
<1>2. UnitRequested' /\ SuccessIsBuilt' /\ CallerKnows'
  BY DEF TypeOK, UnitRequested, SuccessIsBuilt, CallerKnows
<1>3. ResultTells'
  BY DEF TypeOK, SuccessIsBuilt, CallerKnows, ResultTells, Ended
<1> QED BY <1>1, <1>2, <1>3

LEMMA PowerKeeps ==
    ASSUME IInv, PowerOff \/ PowerOn \/ Verify
    PROVE  IInv'
BY DEF PowerOff, PowerOn, Verify, Goto, Return, remote, IInv, TypeOK,
   UnitRequested, SuccessIsBuilt, CallerKnows, ResultTells, Installs, Ended

LEMMA NextIInv ==
    ASSUME IInv, [Next]_vars
    PROVE  IInv'
<1>1. CASE UNCHANGED vars
  BY <1>1 DEF vars, caller, remote, IInv, TypeOK, UnitRequested,
     SuccessIsBuilt, CallerKnows, ResultTells
<1> QED BY <1>1, InstallKeeps, GuestKeeps, WaitKeeps, StopUnitKeeps, StopKeeps,
           PowerKeeps DEF Next, Apply

LEMMA Invariance == Spec => []IInv
BY InitIInv, NextIInv, PTL DEF Spec

-----------------------------------------------------------------------------
(* The properties                                                          *)

\* The variables of apply.go and rebuild.go keep their types.
THEOREM TypeCorrect == Spec => []TypeOK
<1>1. IInv => TypeOK
  BY DEF IInv
<1> QED BY <1>1, Invariance, PTL

\* A provisioning that returns as merely cancelled leaves no rebuild in the
\* guest, running or about to be launched (rebuild.go).
THEOREM CancellationStops == Spec => []CancellationStopsUnit
<1>1. IInv => CancellationStopsUnit
  BY DEF IInv, UnitRequested, ResultTells, CancellationStopsUnit, Ended
<1> QED BY <1>1, Invariance, PTL

\* The guest is restarted, and provisioning succeeds, only after a completed
\* rebuild in a complete environment (apply.go).
THEOREM RebootsBuilt == Spec => []RebootsOnlyBuilt
<1>1. IInv => RebootsOnlyBuilt
  BY DEF IInv, CallerKnows, ResultTells, RebootsOnlyBuilt
<1> QED BY <1>1, Invariance, PTL

\* No session that breaks, and no guest that halts, stops a rebuild in the
\* name of a caller that still waits for it (rebuild.go).
THEOREM StoppedForCancelled == Spec => StoppedOnlyWhenCancelled
<1>1. ASSUME IInv, [Next]_vars, unit = "running", unit' = "stopped"
      PROVE  cancelled
  <2>1. StopUnit
    BY <1>1
    DEF Next, Apply, Install, Build, Wait, GiveUp, RetryStop, CloseSession,
        FinishBuild, PowerOff, PowerOn, Verify, Cancel, SendRequest, LaunchUnit,
        UnitEnds, GuestHalts, SessionEnds, DeadlineExpires, vars, remote
  <2> QED BY <1>1, <2>1 DEF StopUnit, IInv, CallerKnows
<1>2. IInv /\ [Next]_vars => [unit = "running" /\ unit' = "stopped" => cancelled]_vars
  BY <1>1
<1> QED BY <1>2, Invariance, PTL DEF Spec, StoppedOnlyWhenCancelled

-----------------------------------------------------------------------------
(* The answer for good. Session, request and unit go on after Apply has    *)
(* returned.                                                               *)

\* A success and a cancellation are answers that stay true: no request that
\* is still on its way, and no session, changes the unit any more. Only a
\* caller that got an error can find the guest rebuilt later, and records the
\* error (rebuild.go; manager.go applyGuest).
AnswerStands ==
    /\ result # "none" => result' = result
    /\ result \in {"ok", "cancelled"} => unit' = unit

\* The answer of a provisioning stays true after it has returned.
THEOREM AnswersStand == Spec => [][AnswerStands]_vars
<1>1. ASSUME IInv, Next
      PROVE  AnswerStands
  <2>1. CASE result = "none"
    BY <2>1 DEF AnswerStands
  <2>2. CASE result # "none"
    <3>1. pc = "returned"
      BY <1>1, <2>2 DEF IInv, ResultTells
    <3>2. \/ Cancel \/ SendRequest \/ LaunchUnit \/ UnitEnds \/ GuestHalts
          \/ SessionEnds \/ DeadlineExpires
      BY <1>1, <3>1
      DEF Next, Apply, Install, Build, Wait, StopUnit, GiveUp, RetryStop,
          CloseSession, FinishBuild, PowerOff, PowerOn, Verify
    <3>3. result' = result
      BY <3>2 DEF Cancel, SendRequest, LaunchUnit, UnitEnds, GuestHalts,
         SessionEnds, DeadlineExpires, caller
    <3>4. ASSUME result \in {"ok", "cancelled"}
          PROVE  unit' = unit
      <4>1. session = "none" \/ unit \in Ended
        BY <1>1, <3>4 DEF IInv, ResultTells, Ended
      <4>2. request # "sent" /\ unit # "running"
        BY <1>1, <4>1 DEF IInv, UnitRequested, Ended
      <4> QED BY <3>2, <4>2 DEF Cancel, SendRequest, LaunchUnit, UnitEnds,
              GuestHalts, SessionEnds, DeadlineExpires, remote
    <3> QED BY <3>3, <3>4 DEF AnswerStands
  <2> QED BY <2>1, <2>2
<1>2. IInv /\ [Next]_vars => [AnswerStands]_vars
  BY <1>1
<1> QED BY <1>2, Invariance, PTL DEF Spec

=============================================================================
