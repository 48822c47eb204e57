--------------------------- MODULE NetworkSetupProofs ---------------------------
(***************************************************************************)
(* Proofs about NetworkSetup for every set of commands and every content   *)
(* of networks.yaml: the setup lock is held exactly by an installer at     *)
(* work, and the rules in place are replaced only over a whole helper, only *)
(* when a backup holds them, and only by rules that their user agreed to.  *)
(***************************************************************************)
EXTENDS NetworkSetup, TLAPS

\* From its first look at networks.yaml on, a command knows a configuration.
ConfigSeen ==
    \A p \in Procs :
        p \in asked \/ pc[p] \in {"rules", "confirm", "install"} => seen[p] \in Configs

\* What the user was shown is what the command will pass on, and what its
\* installer has on its standard input, as long as that installer lives.
AgreementPassed ==
    \A p \in Procs :
        /\ pc[p] = "install" => agreed[p] = seen[p] /\ installer[p] = "none"
        /\ installer[p] # "none" => agreed[p] \in Configs /\ snapshot[p] = agreed[p]

\* An installer that is about to write has the helper and the backup in
\* place, and nobody takes them away while it holds the setup lock.
WritePrepared ==
    \A p \in Procs :
        /\ installer[p] \in {"backup", "write"} => helper = "whole"
        /\ installer[p] = "write" => saved \/ sudoers = None

IInv == TypeOK /\ ConfigSeen /\ AgreementPassed /\ WritePrepared

-----------------------------------------------------------------------------

LEMMA InitIInv == Init => IInv
<1> SUFFICES ASSUME Init
             PROVE  IInv
  OBVIOUS
<1> USE ConfigAssumption DEF Init
<1>1. TypeOK
  BY DEF TypeOK, Labels, InstallerLabels
<1>2. ConfigSeen /\ AgreementPassed /\ WritePrepared
  BY DEF ConfigSeen, AgreementPassed, WritePrepared
<1> QED BY <1>1, <1>2 DEF IInv

\* Steps of a command leave the installers and what they install alone.
LEMMA CommandKeepsInstalled ==
    ASSUME IInv, UNCHANGED <<installer, privileged>>
    PROVE  WritePrepared'
BY DEF IInv, WritePrepared, privileged

-----------------------------------------------------------------------------
(* Setup.Ensure                                                            *)

LEMMA InspectKeeps ==
    ASSUME NEW p \in Procs, IInv, InspectHelper(p) \/ InspectRules(p)
    PROVE  IInv'
<1> USE ConfigAssumption DEF IInv, Goto
<1>1. UNCHANGED <<cancelled, yaml, agreed, child, privileged>>
  BY DEF InspectHelper, InspectRules
<1>2. PICK l \in {"rules", "confirm", "ready", "failed"} :
        /\ pc' = [pc EXCEPT ![p] = l]
        /\ \/ /\ l \in {"rules", "confirm"}
              /\ \E c \in Configs : seen' = [seen EXCEPT ![p] = c]
              /\ asked' = asked
           \/ /\ l \in {"ready", "failed"}
              /\ seen' = [seen EXCEPT ![p] = None] /\ asked' = asked \ {p}
  <2>1. CASE InspectHelper(p)
    <3>1. PICK c \in {yaml} \cup (IF p \in asked THEN {seen[p]} ELSE {}) :
            \/ Goto(p, "rules") /\ seen' = [seen EXCEPT ![p] = c] /\ UNCHANGED asked
            \/ Goto(p, "confirm") /\ seen' = [seen EXCEPT ![p] = c] /\ UNCHANGED asked
            \/ Returns(p, "failed")
      BY <2>1 DEF InspectHelper
    <3>2. c \in Configs
      BY DEF TypeOK, ConfigSeen
    <3> QED BY <3>1, <3>2 DEF Returns
  <2>2. CASE InspectRules(p)
    <3>1. seen[p] \in Configs /\ seen \in [Procs -> Configs \cup {None}]
      BY <2>2 DEF InspectRules, ConfigSeen, TypeOK
    <3>2. seen = [seen EXCEPT ![p] = seen[p]]
      BY <3>1
    <3>3. Returns(p, "ready") \/ Returns(p, "confirm") \/ Returns(p, "failed")
      BY <2>2 DEF InspectRules
    <3> QED BY <3>1, <3>2, <3>3 DEF Returns
  <2> QED BY <2>1, <2>2
<1>3. TypeOK'
  BY <1>1, <1>2 DEF TypeOK, Labels, child, privileged
<1>4. ConfigSeen' /\ AgreementPassed'
  BY <1>1, <1>2 DEF TypeOK, ConfigSeen, AgreementPassed, child
<1> QED BY <1>1, <1>3, <1>4, CommandKeepsInstalled DEF child

LEMMA ConfirmKeeps ==
    ASSUME NEW p \in Procs, IInv, Confirm(p)
    PROVE  IInv'
<1> USE DEF IInv, Confirm, Goto
<1>1. seen[p] \in Configs
  BY DEF ConfigSeen
<1>2. TypeOK'
  BY <1>1 DEF TypeOK, Labels, child, privileged
<1>3. ConfigSeen' /\ AgreementPassed'
  BY <1>1 DEF TypeOK, ConfigSeen, AgreementPassed, child
<1> QED BY <1>2, <1>3, CommandKeepsInstalled DEF child

LEMMA StartInstallerKeeps ==
    ASSUME NEW p \in Procs, IInv, StartInstaller(p)
    PROVE  IInv'
<1> USE DEF IInv, StartInstaller, Goto
<1>1. seen[p] \in Configs /\ agreed[p] = seen[p] /\ installer[p] = "none"
  BY DEF ConfigSeen, AgreementPassed
<1>2. TypeOK'
  BY <1>1 DEF TypeOK, Labels, InstallerLabels, answers, privileged
<1>3. ConfigSeen' /\ WritePrepared'
  BY DEF TypeOK, ConfigSeen, WritePrepared, answers, privileged
<1>4. AgreementPassed'
  BY <1>1 DEF TypeOK, AgreementPassed, answers
<1> QED BY <1>2, <1>3, <1>4

LEMMA ReturnsKeeps ==
    ASSUME NEW p \in Procs, NEW l \in {"helper", "failed"}, IInv, Returns(p, l),
           pc[p] \in {"installing", "helper", "rules", "confirm", "install"},
           UNCHANGED <<cancelled, yaml, privileged>>,
           \/ UNCHANGED <<child, agreed>>
           \/ installer[p] \in {"succeeded", "failed"} /\ Reaped(p)
    PROVE  IInv'
<1> USE ConfigAssumption DEF IInv, Returns, Reaped, Goto, child
<1>1. TypeOK'
  BY DEF TypeOK, Labels, InstallerLabels, privileged
<1>2. ConfigSeen' /\ AgreementPassed' /\ WritePrepared'
  BY DEF TypeOK, ConfigSeen, AgreementPassed, WritePrepared, privileged
<1> QED BY <1>1, <1>2

LEMMA EnsureKeeps ==
    ASSUME NEW p \in Procs, IInv, Ensure(p)
    PROVE  IInv'
<1>1. CASE InstallerReturns(p)
  BY <1>1, ReturnsKeeps DEF InstallerReturns
<1>2. CASE SetupFails(p)
  BY <1>2, ReturnsKeeps DEF SetupFails
<1> QED BY <1>1, <1>2, InspectKeeps, ConfirmKeeps, StartInstallerKeeps DEF Ensure

-----------------------------------------------------------------------------
(* Install                                                                 *)

\* Steps of an installer leave the commands, their answers and what they
\* handed on alone.
LEMMA InstallerKeepsAgreement ==
    ASSUME NEW p \in Procs, NEW l \in InstallerLabels, NEW k \in InstallerLabels,
           IInv, Installing(p, l, k), l # "none"
    PROVE  ConfigSeen' /\ AgreementPassed'
BY DEF Installing, IInv, TypeOK, ConfigSeen, AgreementPassed, answers

LEMMA InstallationLockKeeps ==
    ASSUME NEW p \in Procs, IInv, InstallationLock(p)
    PROVE  IInv'
<1> USE ConfigAssumption DEF IInv, InstallationLock
<1>1. PICK k \in {"helper", "failed"} : Installing(p, "lock", k)
  OBVIOUS
<1>2. TypeOK'
  BY DEF TypeOK, InstallerLabels, Installing, answers
<1>3. WritePrepared'
  BY <1>1 DEF TypeOK, WritePrepared, Installing
<1> QED BY <1>1, <1>2, <1>3, InstallerKeepsAgreement DEF InstallerLabels

LEMMA InstallHelperKeeps ==
    ASSUME NEW p \in Procs, IInv, InstallHelper(p)
    PROVE  IInv'
<1> USE ConfigAssumption DEF IInv, InstallHelper
<1>1. TypeOK'
  BY DEF TypeOK, InstallerLabels, Installing, answers
<1>2. WritePrepared'
  BY DEF TypeOK, WritePrepared, Installing
<1> QED BY <1>1, <1>2, InstallerKeepsAgreement DEF InstallerLabels

LEMMA BackupSudoersKeeps ==
    ASSUME NEW p \in Procs, IInv, BackupSudoers(p)
    PROVE  IInv'
<1> USE ConfigAssumption DEF IInv, BackupSudoers
<1>1. TypeOK'
  BY DEF TypeOK, InstallerLabels, Installing, answers
<1>2. WritePrepared'
  BY DEF TypeOK, WritePrepared, Installing
<1> QED BY <1>1, <1>2, InstallerKeepsAgreement DEF InstallerLabels

\* The rules change under no other installer that has made its backup: it
\* would hold the lock.
LEMMA InstallSudoersKeeps ==
    ASSUME NEW p \in Procs, IInv, InstallSudoers(p)
    PROVE  IInv'
<1> USE ConfigAssumption DEF IInv, InstallSudoers
<1>1. PICK k \in {"succeeded", "failed"} : Installing(p, "write", k)
  OBVIOUS
<1>2. TypeOK'
  BY <1>1 DEF TypeOK, InstallerLabels, Installing, Unlocked, answers
<1>3. WritePrepared'
  BY <1>1 DEF TypeOK, WritePrepared, Installing
<1> QED BY <1>1, <1>2, <1>3, InstallerKeepsAgreement DEF InstallerLabels

LEMMA InstallerFailsKeeps ==
    ASSUME NEW p \in Procs, IInv, InstallerFails(p)
    PROVE  IInv'
<1> USE ConfigAssumption DEF IInv, InstallerFails
<1>1. TypeOK'
  BY DEF TypeOK, InstallerLabels, Unlocked, answers
<1>2. ConfigSeen' /\ AgreementPassed' /\ WritePrepared'
  BY DEF TypeOK, ConfigSeen, AgreementPassed, WritePrepared, answers
<1> QED BY <1>1, <1>2

-----------------------------------------------------------------------------
(* What happens around them                                                *)

LEMMA ReapKeeps ==
    ASSUME NEW p \in Procs, IInv, Reap(p)
    PROVE  IInv'
<1> USE ConfigAssumption DEF IInv, Reap, Reaped
<1>1. TypeOK'
  BY DEF TypeOK, InstallerLabels, privileged
<1>2. ConfigSeen' /\ AgreementPassed' /\ WritePrepared'
  BY DEF TypeOK, ConfigSeen, AgreementPassed, WritePrepared, privileged
<1> QED BY <1>1, <1>2

\* What the user agreed to is kept while the installer lives that was told.
LEMMA EndSetupKeeps ==
    ASSUME NEW p \in Procs, IInv, EndSetup(p)
    PROVE  IInv'
<1> USE ConfigAssumption DEF IInv, EndSetup, Goto
<1>1. TypeOK'
  BY DEF TypeOK, Labels, child, privileged
<1>2. ConfigSeen' /\ AgreementPassed'
  BY DEF TypeOK, ConfigSeen, AgreementPassed, child
<1> QED BY <1>1, <1>2, CommandKeepsInstalled DEF child

LEMMA OtherKeeps ==
    ASSUME IInv, EditNetworks \/ (\E p \in Procs : BeginSetup(p) \/ Cancel(p))
    PROVE  IInv'
<1> USE DEF IInv, EditNetworks, BeginSetup, Cancel, Goto
<1>1. TypeOK'
  BY DEF TypeOK, Labels, answers, child, privileged
<1>2. ConfigSeen' /\ AgreementPassed'
  BY DEF TypeOK, ConfigSeen, AgreementPassed, answers, child
<1> QED BY <1>1, <1>2, CommandKeepsInstalled DEF child

LEMMA NextIInv ==
    ASSUME IInv, [Next]_vars
    PROVE  IInv'
<1>1. CASE UNCHANGED vars
  BY <1>1 DEF vars, answers, child, privileged, IInv, TypeOK, ConfigSeen,
     AgreementPassed, WritePrepared
<1>2. ASSUME NEW p \in Procs, Install(p)
      PROVE  IInv'
  BY <1>2, InstallationLockKeeps, InstallHelperKeeps, BackupSudoersKeeps,
     InstallSudoersKeeps, InstallerFailsKeeps DEF Install
<1> QED BY <1>1, <1>2, EnsureKeeps, ReapKeeps, EndSetupKeeps, OtherKeeps DEF Next

LEMMA Invariance == Spec => []IInv
BY InitIInv, NextIInv, PTL DEF Spec

-----------------------------------------------------------------------------
(* The properties                                                          *)

\* The variables keep their types, and the setup lock of the installation is
\* held exactly by an installer between taking it and its end.
THEOREM TypeCorrect == Spec => []TypeOK
<1>1. IInv => TypeOK
  BY DEF IInv
<1> QED BY <1>1, Invariance, PTL

\* Rules are replaced only over a whole helper, only when a backup holds the
\* ones that go, and only by the rules that the user of that installer was
\* shown (vmnet Install, Ensure).
THEOREM RulesReplaced == Spec => RulesReplacedSafely
<1>1. ASSUME IInv, [Next]_vars, sudoers' # sudoers
      PROVE  /\ saved \/ sudoers = None
             /\ helper = "whole"
             /\ \E p \in Procs : installer[p] = "write" /\ sudoers' = agreed[p]
  <2>1. ASSUME NEW p \in Procs, InstallSudoers(p)
        PROVE  installer[p] = "write" /\ sudoers' = snapshot[p]
    BY <2>1 DEF InstallSudoers, Installing
  <2>2. ASSUME NEW p \in Procs, Ensure(p)
        PROVE  FALSE
    BY <1>1, <2>2
    DEF Ensure, InspectHelper, InspectRules, Confirm, StartInstaller,
        InstallerReturns, SetupFails, privileged
  <2>3. \E p \in Procs : InstallSudoers(p)
    BY <1>1, <2>2
    DEF Next, Install, InstallationLock, InstallHelper, BackupSudoers,
        InstallerFails, BeginSetup, Reap, EndSetup, Cancel, EditNetworks, vars,
        privileged
  <2> QED BY <1>1, <2>1, <2>3 DEF IInv, AgreementPassed, WritePrepared
<1> QED BY <1>1, Invariance, PTL DEF Spec, RulesReplacedSafely

=============================================================================
