---------------------------- MODULE NetworkSetup ----------------------------
(***************************************************************************)
(* The privileged part of shared networking (internal/vmnet): a command    *)
(* inspects what is installed, asks its user, has a privileged installer   *)
(* run by sudo, and inspects again.                                        *)
(*                                                                         *)
(* Commands and installers are processes of their own. An installer that   *)
(* was started goes on when its command dies or is cancelled; it runs      *)
(* under a lock that is tried once. networks.yaml belongs to Lima and its  *)
(* user: it may change between any two steps. Rules are named by the       *)
(* configuration they are generated from.                                  *)
(*                                                                         *)
(* The text that is asked, paths, permissions and the version probe of the *)
(* helper are failures of the call that checks them.                       *)
(***************************************************************************)
CONSTANTS
    Procs,      \* commands, and with each the installer it starts
    Configs,    \* contents of networks.yaml, and the rules they generate
    None        \* nobody, or no file

ASSUME ConfigAssumption == None \notin Procs \cup Configs

VARIABLES
    pc,         \* the next call of each command
    cancelled,  \* commands whose context is done
    yaml,       \* networks.yaml
    seen,       \* the configuration each command has inspected
    asked,      \* commands that have asked their user, who agreed
    agreed,     \* what each user agreed to last
    installer,  \* the next call of the installer each command started
    snapshot,   \* the configuration on its standard input
    helper,     \* the helper's file: absent, whole, or unusable
    sudoers,    \* the rules in place
    saved,      \* a backup holds the rules in place
    setupLock   \* the command whose installer holds the setup lock

child     == <<installer, snapshot>>
privileged == <<helper, sudoers, saved, setupLock>>
answers   == <<asked, agreed>>
vars == <<pc, cancelled, yaml, seen, answers, child, privileged>>

Labels == {"idle", "helper", "rules", "confirm", "install", "installing",
           "ready", "failed"}
InstallerLabels == {"none", "lock", "helper", "backup", "write",
                    "succeeded", "failed"}

Goto(p, l) == pc' = [pc EXCEPT ![p] = l]

-----------------------------------------------------------------------------
\* Setup.Ensure, called by "network setup" and by the start of a QEMU VM.

\* Ensure returns, or goes on, to l: what a command knew is gone with it.
Returns(p, l) ==
    /\ Goto(p, l)
    /\ IF l \in {"ready", "failed"}
       THEN seen' = [seen EXCEPT ![p] = None] /\ asked' = asked \ {p}
       ELSE UNCHANGED <<seen, asked>>

BeginSetup(p) ==
    /\ pc[p] = "idle"
    /\ Goto(p, "helper")
    /\ UNCHANGED <<cancelled, yaml, seen, answers, child, privileged>>

\* inspect loads the configuration and looks for the helper. What it loads
\* the second time in one process may be what it loaded the first.
InspectHelper(p) ==
    /\ pc[p] = "helper"
    /\ \E c \in {yaml} \cup (IF p \in asked THEN {seen[p]} ELSE {}) :
        \/ /\ helper = "whole"
           /\ Goto(p, "rules")
           /\ seen' = [seen EXCEPT ![p] = c]
           /\ UNCHANGED asked
        \/ /\ helper = "absent" /\ p \notin asked
           /\ Goto(p, "confirm")
           /\ seen' = [seen EXCEPT ![p] = c]
           /\ UNCHANGED asked
        \/ /\ helper = "unusable" \/ (helper = "absent" /\ p \in asked)
           /\ Returns(p, "failed")
    /\ UNCHANGED <<cancelled, yaml, agreed, child, privileged>>

\* checkSudoers, the last thing inspect looks at.
InspectRules(p) ==
    /\ pc[p] = "rules"
    /\ \/ sudoers = seen[p] /\ p \notin cancelled /\ Returns(p, "ready")
       \/ sudoers # seen[p] /\ p \notin asked /\ Returns(p, "confirm")
       \/ sudoers # seen[p] /\ p \in asked /\ Returns(p, "failed")
    /\ UNCHANGED <<cancelled, yaml, agreed, child, privileged>>

\* The prompt names the helper, the rules and their group. A command has one
\* installer at a time (a bound of the model).
Confirm(p) ==
    /\ pc[p] = "confirm" /\ installer[p] = "none"
    /\ asked' = asked \cup {p}
    /\ agreed' = [agreed EXCEPT ![p] = seen[p]]
    /\ Goto(p, "install")
    /\ UNCHANGED <<cancelled, yaml, seen, child, privileged>>

StartInstaller(p) ==
    /\ pc[p] = "install" /\ p \notin cancelled
    /\ installer' = [installer EXCEPT ![p] = "lock"]
    /\ snapshot' = [snapshot EXCEPT ![p] = seen[p]]
    /\ Goto(p, "installing")
    /\ UNCHANGED <<cancelled, yaml, seen, answers, privileged>>

Reaped(p) ==
    /\ installer' = [installer EXCEPT ![p] = "none"]
    /\ snapshot' = [snapshot EXCEPT ![p] = None]
    /\ agreed' = [agreed EXCEPT ![p] = None]

\* command.Run returns when sudo ends, or was killed with the context.
InstallerReturns(p) ==
    /\ pc[p] = "installing"
    /\ \/ /\ installer[p] = "succeeded"
          /\ Returns(p, "helper")
       \/ /\ installer[p] = "failed" \/ p \in cancelled
          /\ Returns(p, "failed")
    /\ IF installer[p] \in {"succeeded", "failed"} THEN Reaped(p)
                                                    ELSE UNCHANGED <<child, agreed>>
    /\ UNCHANGED <<cancelled, yaml, privileged>>

\* Mutant: the prompt is read without an eye on the context.
SetupFailsAnswered(p) ==
    /\ pc[p] \in {"helper", "rules", "install"}
    /\ Returns(p, "failed")
    /\ UNCHANGED <<cancelled, yaml, agreed, child, privileged>>

\* Checks fail, there is no terminal, the user declines, sudo is refused, or
\* the context is done, also while the prompt waits for an answer.
SetupFails(p) ==
    /\ pc[p] \in {"helper", "rules", "confirm", "install"}
    /\ Returns(p, "failed")
    /\ UNCHANGED <<cancelled, yaml, agreed, child, privileged>>

Ensure(p) ==
    \/ InspectHelper(p) \/ InspectRules(p) \/ Confirm(p)
    \/ StartInstaller(p) \/ InstallerReturns(p) \/ SetupFails(p)

-----------------------------------------------------------------------------
\* Install, in the process that sudo runs.

Installing(p, l, k) ==
    /\ installer[p] = l
    /\ installer' = [installer EXCEPT ![p] = k]
    /\ UNCHANGED <<pc, cancelled, yaml, seen, answers, snapshot>>

\* Mutant: the lock is taken whoever holds it.
InstallationLockIgnored(p) ==
    /\ Installing(p, "lock", "helper")
    /\ setupLock' = p
    /\ UNCHANGED <<helper, sudoers, saved>>

InstallationLock(p) ==
    /\ \/ /\ setupLock = None
          /\ Installing(p, "lock", "helper")
          /\ setupLock' = p
       \/ /\ setupLock # None      \* ErrSetupBusy
          /\ Installing(p, "lock", "failed")
          /\ UNCHANGED setupLock
    /\ UNCHANGED <<helper, sudoers, saved>>

\* An existing helper is kept if it is safe and usable.
InstallHelper(p) ==
    /\ helper # "unusable"
    /\ Installing(p, "helper", "backup")
    /\ helper' = "whole"
    /\ UNCHANGED <<sudoers, saved, setupLock>>

\* Before it, loadSnapshot, Lima's generator and visudo work on a private
\* copy of the snapshot.
BackupSudoers(p) ==
    /\ Installing(p, "backup", "write")
    /\ saved' = (saved \/ sudoers # None)
    /\ UNCHANGED <<helper, sudoers, setupLock>>

Unlocked(p) == IF setupLock = p THEN None ELSE setupLock

\* The write replaces the rules at once and may still report a failure.
InstallSudoers(p) ==
    /\ \E k \in {"succeeded", "failed"} : Installing(p, "write", k)
    /\ sudoers' = snapshot[p]
    /\ saved' = (saved /\ sudoers = snapshot[p])
    /\ setupLock' = Unlocked(p)
    /\ UNCHANGED helper

\* Mutant: the lock file stays locked when a step fails.
InstallerFailsLocked(p) ==
    /\ installer[p] \notin {"none", "succeeded", "failed"}
    /\ installer' = [installer EXCEPT ![p] = "failed"]
    /\ UNCHANGED <<pc, cancelled, yaml, seen, answers, snapshot, privileged>>

\* A step fails, or the process dies; the lock goes with it.
InstallerFails(p) ==
    /\ installer[p] \notin {"none", "succeeded", "failed"}
    /\ installer' = [installer EXCEPT ![p] = "failed"]
    /\ setupLock' = Unlocked(p)
    /\ UNCHANGED <<pc, cancelled, yaml, seen, answers, snapshot, helper, sudoers, saved>>

Install(p) ==
    \/ InstallationLock(p) \/ InstallHelper(p) \/ BackupSudoers(p)
    \/ InstallSudoers(p) \/ InstallerFails(p)

\* Lima's user edits networks.yaml.
EditNetworks ==
    /\ yaml' \in Configs \ {yaml}
    /\ UNCHANGED <<pc, cancelled, seen, answers, child, privileged>>

\* The child of a command that no longer waits for it ends.
Reap(p) ==
    /\ pc[p] # "installing"
    /\ installer[p] \in {"succeeded", "failed"}
    /\ Reaped(p)
    /\ UNCHANGED <<pc, cancelled, yaml, seen, asked, privileged>>

\* Ensure has returned; or its process is killed at any step.
EndSetup(p) ==
    /\ pc[p] # "idle"
    /\ Goto(p, "idle")
    /\ cancelled' = cancelled \ {p}
    /\ asked' = asked \ {p}
    /\ seen' = [seen EXCEPT ![p] = None]
    /\ agreed' = IF installer[p] = "none" THEN [agreed EXCEPT ![p] = None] ELSE agreed
    /\ UNCHANGED <<yaml, child, privileged>>

Cancel(p) ==
    /\ pc[p] # "idle" /\ p \notin cancelled
    /\ cancelled' = cancelled \cup {p}
    /\ UNCHANGED <<pc, yaml, seen, answers, child, privileged>>

Next ==
    \/ \E p \in Procs :
        BeginSetup(p) \/ Ensure(p) \/ Install(p) \/ Reap(p) \/ EndSetup(p) \/ Cancel(p)
    \/ EditNetworks

Init ==
    /\ pc = [p \in Procs |-> "idle"]
    /\ cancelled = {} /\ asked = {}
    /\ yaml \in Configs
    /\ seen = [p \in Procs |-> None]
    /\ agreed = [p \in Procs |-> None]
    /\ installer = [p \in Procs |-> "none"]
    /\ snapshot = [p \in Procs |-> None]
    /\ helper \in {"absent", "whole", "unusable"}
    /\ sudoers \in Configs \cup {None}
    /\ saved = FALSE
    /\ setupLock = None

\* A cancelled command makes its calls. Nobody has to answer the prompt.
\* Installers wait for nobody and end.
Calls(p) ==
    \/ InspectHelper(p) \/ InspectRules(p) \/ InstallerReturns(p) \/ SetupFails(p)

Fairness ==
    \A p \in Procs : WF_vars(p \in cancelled /\ Calls(p)) /\ WF_vars(Install(p))

Spec == Init /\ [][Next]_vars /\ Fairness

-----------------------------------------------------------------------------
(* Properties                                                              *)

\* The variables keep their types; the setup lock is held exactly by an
\* installer between taking it and its end.
TypeOK ==
    /\ pc \in [Procs -> Labels]
    /\ cancelled \in SUBSET Procs /\ asked \in SUBSET Procs
    /\ yaml \in Configs
    /\ {seen, agreed, snapshot} \subseteq [Procs -> Configs \cup {None}]
    /\ installer \in [Procs -> InstallerLabels]
    /\ helper \in {"absent", "whole", "unusable"}
    /\ sudoers \in Configs \cup {None}
    /\ saved \in BOOLEAN
    /\ setupLock \in Procs \cup {None}
    /\ \A p \in Procs :
        setupLock = p <=> installer[p] \in {"helper", "backup", "write"}

\* Whatever several commands, dying installers and an edited networks.yaml
\* do to each other: rules are replaced only when a backup holds the ones
\* that go, only over a helper that is whole, and only by the rules for the
\* configuration that the user of that installer was shown and agreed to.
RulesReplacedSafely ==
    [][sudoers' # sudoers =>
        /\ saved \/ sudoers = None
        /\ helper = "whole"
        /\ \E p \in Procs : installer[p] = "write" /\ sudoers' = agreed[p]]_sudoers

\* A setup that is cancelled returns: out of the prompt, whose answer never
\* comes, and out of the wait for an installer; also a busy setup lock, which
\* its holder may keep for ever, does not hold anybody.
CancelledReturns ==
    \A p \in Procs : p \in cancelled ~> p \notin cancelled \/ pc[p] \in {"ready", "failed"}

=============================================================================
