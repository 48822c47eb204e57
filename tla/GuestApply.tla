------------------------------ MODULE GuestApply ------------------------------
(***************************************************************************)
(* Provisioning a guest (internal/guest: apply.go, rebuild.go) over the    *)
(* SSH client of internal/lima.                                            *)
(*                                                                         *)
(* The rebuild runs as a transient systemd unit in the guest; an SSH       *)
(* session asks for it and waits for its end. Session, unit and caller are *)
(* separate parties: the session can break while the unit runs, and a      *)
(* request that reached the guest can still become a unit when nobody      *)
(* listens any more. A cancelled caller keeps the session open and asks    *)
(* the guest to stop the unit, again and again for 30 seconds, because the *)
(* unit may not exist yet.                                                 *)
(*                                                                         *)
(* Every remote command may fail, before or after its effect.              *)
(***************************************************************************)
EXTENDS Naturals

VARIABLES
    pc,         \* the next step of Apply's caller
    cancelled,  \* ctx is done
    installed,  \* environment commands done, of Installs
    session,    \* the goroutine's SSH session: none, open, closing or closed
    runErr,     \* its result, once closed: none or failed
    request,    \* systemd-run's request: none, sent, served or lost
    unit,       \* unborn, running, built, failed or stopped
    deadline,   \* rebuildStopTimeout: off, running or expired
    stopErr,    \* the last systemctl stop: none or failed
    power,      \* the guest: running or stopped
    result      \* none, ok, failed, cancelled or unconfirmed

caller  == <<pc, result>>
remote  == <<request, unit, power>>
vars    == <<caller, cancelled, installed, session, runErr, remote, deadline,
             stopErr>>

Installs == 3   \* the directory and two files of installEnvironment

Init ==
    /\ pc = "install"
    /\ cancelled = FALSE
    /\ installed = 0
    /\ session = "none"
    /\ runErr = "none"
    /\ request = "none"
    /\ unit = "unborn"
    /\ deadline = "off"
    /\ stopErr = "none"
    /\ power = "running"
    /\ result = "none"

Goto(l) == pc' = l /\ UNCHANGED result

Return(r) == pc' = "returned" /\ result' = r

-----------------------------------------------------------------------------
(* The guest and the session.                                              *)

Cancel ==
    /\ ~cancelled
    /\ cancelled' = TRUE
    /\ UNCHANGED <<caller, installed, session, runErr, remote, deadline, stopErr>>

SendRequest ==
    /\ session = "open"
    /\ request = "none"
    /\ power = "running"
    /\ request' = "sent"
    /\ UNCHANGED <<caller, cancelled, installed, session, runErr, unit, power,
                   deadline, stopErr>>

LaunchUnit ==
    /\ request = "sent"
    /\ request' = "served"
    /\ unit' = "running"
    /\ UNCHANGED <<caller, cancelled, installed, session, runErr, power,
                   deadline, stopErr>>

UnitEnds ==
    /\ unit = "running"
    /\ unit' \in {"built", "failed"}
    /\ UNCHANGED <<caller, cancelled, installed, session, runErr, request,
                   power, deadline, stopErr>>

GuestHalts ==
    /\ power = "running"
    /\ pc \in {"wait", "stop", "stopFailed", "close", "finish"}
    /\ power' = "stopped"
    /\ unit' = IF unit = "running" THEN "failed" ELSE unit
    /\ request' = IF request = "sent" THEN "lost" ELSE request
    /\ UNCHANGED <<caller, cancelled, installed, session, runErr, deadline,
                   stopErr>>

(* --wait hands on the unit's success; anything else is a failure, from a  *)
(* failed or stopped unit to a broken connection.                          *)
SessionEnds ==
    /\ session \in {"open", "closing"}
    /\ session' = "closed"
    /\ runErr' \in IF unit = "built" THEN {"none", "failed"} ELSE {"failed"}
    /\ UNCHANGED <<caller, cancelled, installed, remote, deadline, stopErr>>

DeadlineExpires ==
    /\ deadline = "running"
    /\ deadline' = "expired"
    /\ UNCHANGED <<caller, cancelled, installed, session, runErr, remote, stopErr>>

-----------------------------------------------------------------------------
(* Apply                                                                   *)

(* Mutant: the count of the commands is off by one.                        *)
InstallOneMore ==
    /\ pc = "install"
    /\ IF installed <= Installs
       THEN installed' = installed + 1 /\ Goto("install")
       ELSE UNCHANGED installed /\ Goto("build")
    /\ UNCHANGED <<cancelled, session, runErr, remote, deadline, stopErr>>

Install ==
    /\ pc = "install"
    /\ \/ /\ installed < Installs
          /\ installed' = installed + 1
          /\ Goto("install")
       \/ /\ installed = Installs
          /\ UNCHANGED installed
          /\ Goto("build")
       \/ /\ installed < Installs
          /\ installed' \in {installed, installed + 1}
          /\ Return("failed")
    /\ UNCHANGED <<cancelled, session, runErr, remote, deadline, stopErr>>

(* buildGeneration; the session does not inherit the cancellation.         *)
Build ==
    /\ pc = "build"
    /\ \/ cancelled /\ UNCHANGED session /\ Return("cancelled")
       \/ ~cancelled /\ session' = "open" /\ Goto("wait")
    /\ UNCHANGED <<cancelled, installed, runErr, remote, deadline, stopErr>>

(* Mutant: a broken session is cleaned up like a cancelled one.            *)
WaitStopsBroken ==
    /\ pc = "wait"
    /\ (session = "closed" /\ runErr = "failed") \/ cancelled
    /\ deadline' = "running"
    /\ Goto("stop")
    /\ UNCHANGED <<cancelled, installed, session, runErr, remote, stopErr>>

(* Mutant: the result of the rebuild is not looked at.                     *)
WaitIgnoresResult ==
    /\ pc = "wait"
    /\ session = "closed"
    /\ Goto("powerOff")
    /\ UNCHANGED <<cancelled, installed, session, runErr, remote, deadline, stopErr>>

Wait ==
    /\ pc = "wait"
    /\ \/ /\ session = "closed"
          /\ UNCHANGED deadline
          /\ \/ ~cancelled /\ runErr = "none" /\ Goto("powerOff")
             \/ ~cancelled /\ runErr = "failed" /\ Return("failed")
             \/ cancelled /\ runErr = "none" /\ Return("cancelled")
       \/ /\ cancelled      \* also when the session has failed meanwhile
          /\ deadline' = "running"
          /\ Goto("stop")
    /\ UNCHANGED <<cancelled, installed, session, runErr, remote, stopErr>>

(* Mutant: a unit that is not there counts as stopped.                     *)
StopUnitOnce ==
    /\ pc = "stop"
    /\ unit' = IF unit = "running" THEN "stopped" ELSE unit
    /\ stopErr' = "none"
    /\ Goto("close")
    /\ UNCHANGED <<cancelled, installed, session, runErr, request, power, deadline>>

(* One systemctl stop: it succeeds only on a unit that is loaded.          *)
StopUnit ==
    /\ pc = "stop"
    /\ \/ /\ unit \in {"running", "built", "failed"}
          /\ power = "running"
          /\ deadline = "running"
          /\ unit' = IF unit = "running" THEN "stopped" ELSE unit
          /\ stopErr' = "none"
          /\ Goto("close")
       \/ /\ unit' \in IF unit = "running" /\ deadline = "running"
                       THEN {"running", "stopped"} ELSE {unit}
          /\ stopErr' = "failed"
          /\ Goto("stopFailed")
    /\ UNCHANGED <<cancelled, installed, session, runErr, request, power, deadline>>

(* Mutant: no time limit on the retries.                                   *)
GiveUpNever ==
    /\ pc = "stopFailed"
    /\ session = "closed"
    /\ Goto("close")
    /\ UNCHANGED <<cancelled, installed, session, runErr, remote, deadline, stopErr>>

GiveUp ==
    /\ pc = "stopFailed"
    /\ session = "closed" \/ deadline = "expired"
    /\ Goto("close")
    /\ UNCHANGED <<cancelled, installed, session, runErr, remote, deadline, stopErr>>

RetryStop ==
    /\ pc = "stopFailed"
    /\ Goto("stop")
    /\ UNCHANGED <<cancelled, installed, session, runErr, remote, deadline, stopErr>>

CloseSession ==
    /\ pc = "close"
    /\ session' = IF session = "open" THEN "closing" ELSE session
    /\ Goto("finish")
    /\ UNCHANGED <<cancelled, installed, runErr, remote, deadline, stopErr>>

FinishBuild ==
    /\ pc = "finish"
    /\ session = "closed"
    /\ IF stopErr = "failed" /\ runErr = "failed"
       THEN Return("unconfirmed") ELSE Return("cancelled")
    /\ UNCHANGED <<cancelled, installed, session, runErr, remote, deadline, stopErr>>

PowerOff ==
    /\ pc = "powerOff"
    /\ \/ power' = "stopped" /\ Goto("powerOn")
       \/ power' \in {power, "stopped"} /\ Return("failed")
    /\ UNCHANGED <<cancelled, installed, session, runErr, request, unit,
                   deadline, stopErr>>

PowerOn ==
    /\ pc = "powerOn"
    /\ \/ power' = "running" /\ Goto("verify")
       \/ power' \in {power, "running"} /\ Return("failed")
    /\ UNCHANGED <<cancelled, installed, session, runErr, request, unit,
                   deadline, stopErr>>

Verify ==
    /\ pc = "verify"
    /\ Return("ok") \/ Return("failed")
    /\ UNCHANGED <<cancelled, installed, session, runErr, remote, deadline, stopErr>>

Apply ==
    \/ Install \/ Build \/ Wait \/ StopUnit \/ GiveUp \/ RetryStop
    \/ CloseSession \/ FinishBuild \/ PowerOff \/ PowerOn \/ Verify

Next ==
    \/ Apply
    \/ Cancel \/ SendRequest \/ LaunchUnit \/ UnitEnds \/ GuestHalts
    \/ SessionEnds \/ DeadlineExpires

(* The caller's steps end: SSH commands are killed with their context. A   *)
(* session ends when it is told to, and time passes. select chooses among  *)
(* ready cases at random, so the way out of the retries is not missed for  *)
(* ever. Nothing is assumed of the guest or of an uncancelled session.     *)
Fairness ==
    /\ WF_vars(Apply)
    /\ SF_vars(GiveUp)
    /\ WF_vars(session = "closing" /\ SessionEnds)
    /\ WF_vars(DeadlineExpires)

Spec == Init /\ [][Next]_vars /\ Fairness

-----------------------------------------------------------------------------
(* Properties                                                              *)

(* The variables keep their types.                                         *)
TypeOK ==
    /\ pc \in {"install", "build", "wait", "stop", "stopFailed", "close",
               "finish", "powerOff", "powerOn", "verify", "returned"}
    /\ cancelled \in BOOLEAN
    /\ installed \in 0..Installs
    /\ session \in {"none", "open", "closing", "closed"}
    /\ runErr \in {"none", "failed"}
    /\ request \in {"none", "sent", "served", "lost"}
    /\ unit \in {"unborn", "running", "built", "failed", "stopped"}
    /\ deadline \in {"off", "running", "expired"}
    /\ stopErr \in {"none", "failed"}
    /\ power \in {"running", "stopped"}
    /\ result \in {"none", "ok", "failed", "cancelled", "unconfirmed"}

(* A provisioning that returns as merely cancelled leaves no rebuild in    *)
(* the guest, running or about to be launched (guest/doc.go: "Cancellation *)
(* stops that unit before returning. Failure to confirm the stop is        *)
(* reported as an error").                                                 *)
CancellationStopsUnit ==
    result = "cancelled" => unit # "running" /\ request # "sent"

(* The guest is restarted, and provisioning succeeds, only after all of    *)
(* the environment and a completed rebuild (apply.go: "a failed rebuild    *)
(* never reboots").                                                        *)
RebootsOnlyBuilt ==
    \/ pc \notin {"powerOff", "powerOn", "verify"} /\ result # "ok"
    \/ unit = "built" /\ installed = Installs

(* A rebuild in progress is stopped only on behalf of a caller that gave   *)
(* up; a lost connection alone never stops it (rebuild.go).                *)
StoppedOnlyWhenCancelled ==
    [][unit = "running" /\ unit' = "stopped" => cancelled]_vars

(* A cancelled provisioning returns, whatever the guest does or fails to   *)
(* do (rebuild.go: rebuildStopTimeout).                                    *)
CancelledReturns == cancelled ~> pc = "returned"

=============================================================================
