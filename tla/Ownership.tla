------------------------------ MODULE Ownership ------------------------------
(***************************************************************************)
(* What limanix promises about the resources of one VM name, whatever      *)
(* commands run, fail or are killed (internal/vm/doc.go, "Failure and      *)
(* deletion boundaries").                                                  *)
(*                                                                         *)
(*   owner     the identity recorded for the name, or None                 *)
(*   machines  the identities that have a Lima instance                    *)
(*   homes     how much of the home directory of each identity is on disk  *)
(*   kept      the identities archived by a delete that preserved the home *)
(*                                                                         *)
(* An identity is recorded before a machine is built for it and as long as *)
(* the machine exists; a home is removed only when no machine can mount it *)
(* and a preserved home of a deleted VM is never touched; a name is given  *)
(* up only when its home is gone or archived.                              *)
(***************************************************************************)
EXTENDS Trees

CONSTANTS Ids, None

VARIABLES owner, machines, homes, kept

vars == <<owner, machines, homes, kept>>

Init ==
    /\ owner = None
    /\ machines = {}
    /\ homes = [i \in Ids |-> "absent"]
    /\ kept = {}

(* A home is made for an identity that has nothing yet.                    *)
Allocate(i) ==
    /\ owner = None
    /\ homes[i] = "absent"
    /\ i \notin kept
    /\ homes' = [homes EXCEPT ![i] = "whole"]
    /\ UNCHANGED <<owner, machines, kept>>

(* The name gets an owner only when it has none, and no machine is left    *)
(* from an earlier owner.                                                  *)
Claim(i) ==
    /\ owner = None
    /\ machines = {}
    /\ owner' = i
    /\ UNCHANGED <<machines, homes, kept>>

(* A machine is built for the recorded owner, over an intact home.         *)
Build(i) ==
    /\ owner = i
    /\ homes[i] = "whole"
    /\ machines' = machines \union {i}
    /\ UNCHANGED <<owner, homes, kept>>

Destroy(i) ==
    /\ owner = i
    /\ machines' = machines \ {i}
    /\ UNCHANGED <<owner, homes, kept>>

(* Home contents go away only without a machine, and an archived home only *)
(* on behalf of the VM that still owns it.                                 *)
Discard(i) ==
    /\ owner \in {i, None}
    /\ i \in kept => owner = i
    /\ i \notin machines
    /\ \E t \in Shrunk(homes[i]) : homes' = [homes EXCEPT ![i] = t]
    /\ UNCHANGED <<owner, machines, kept>>

Keep(i) ==
    /\ owner = i
    /\ i \notin machines
    /\ kept' = kept \union {i}
    /\ UNCHANGED <<owner, machines, homes>>

(* An archive is withdrawn only after the home it names is gone.           *)
Forget(i) ==
    /\ owner = i
    /\ homes[i] = "absent"
    /\ kept' = kept \ {i}
    /\ UNCHANGED <<owner, machines, homes>>

(* The name is given up last, and the home never becomes unaccounted for.  *)
Release(i) ==
    /\ owner = i
    /\ i \notin machines
    /\ i \in kept \/ homes[i] = "absent"
    /\ owner' = None
    /\ UNCHANGED <<machines, homes, kept>>

Next ==
    \E i \in Ids :
        \/ Allocate(i) \/ Claim(i) \/ Build(i) \/ Destroy(i)
        \/ Discard(i) \/ Keep(i) \/ Forget(i) \/ Release(i)

Spec == Init /\ [][Next]_vars

=============================================================================
