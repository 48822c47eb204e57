----------------------------- MODULE BundleCache -----------------------------
(***************************************************************************)
(* The guest-agent cache (internal/bundle: bundle.go, cache.go) on top of  *)
(* WriteFileAtomic: several processes materialise the embedded archive     *)
(* under its digest and hand the path to Lima.                             *)
(*                                                                         *)
(* The same file operations serve "limanix first-config" (internal/cli/    *)
(* configuration.go), where users replace a text whose mode is theirs. A   *)
(* behaviour has one of the two purposes.                                  *)
(***************************************************************************)
EXTENDS AtomicFile

CONSTANT Archive    \* the archive embedded in this executable

ASSUME ArchiveAssumption == Archive \in Texts

VARIABLES
    purpose,    \* "cache" or "text"
    directory   \* the digest directory: absent, new, there, or foreign

vars == <<fileVars, purpose, directory>>

Agent == [text |-> Archive, mode |-> "0600"]

Calling(p, l, u) == pc[p] = l /\ purpose = u

\* The contexts and the embedded archive are looked at where the code does;
\* either may turn the call away.
GiveUp(p) ==
    /\ purpose = "cache" /\ pc[p] \in {"start", "lookup", "missing", "checked", "done"}
    /\ Goto(p, "failed")
    /\ UNCHANGED <<want, temp, old, opened, disk, purpose, directory>>

PrepareDirectory(p) ==
    /\ Calling(p, "start", "cache")
    /\ IF directory = "foreign"
       THEN /\ Goto(p, "failed")
            /\ UNCHANGED directory
       ELSE /\ Goto(p, "lookup")
            /\ directory' = IF directory = "absent" THEN "new" ELSE directory
    /\ UNCHANGED <<want, temp, old, opened, disk, purpose>>

\* The open of ensureCachedArchive; anything but a regular file is an error.
Lookup(p) ==
    /\ Calling(p, "lookup", "cache")
    /\ \/ OpenRegular(p, "read")
       \/ /\ entry \notin Inodes
          /\ Goto(p, IF entry = None THEN "missing" ELSE "failed")
          /\ UNCHANGED <<want, temp, old, opened, disk>>
    /\ UNCHANGED <<purpose, directory>>

Materialise(p) ==
    /\ Calling(p, "missing", "cache")
    /\ Write(p, Archive, "0600")
    /\ UNCHANGED <<purpose, directory>>

Holds(n, f) == file[n].text = f.text /\ file[n].mode = f.mode

\* Mutant: the permissions are not compared.
CompareArchiveText(p) ==
    /\ Calling(p, "read", "cache")
    /\ \/ file[opened[p]].text = Archive /\ Close(p, "checked")
       \/ Close(p, "failed")
    /\ UNCHANGED <<purpose, directory>>

\* The comparison of contents and mode; a reading error is a mismatch too.
CompareArchive(p) ==
    /\ Calling(p, "read", "cache")
    /\ \/ Holds(opened[p], Agent) /\ Close(p, "checked")
       \/ Close(p, "failed")
    /\ UNCHANGED <<purpose, directory>>

\* Path returns its destination, which Lima opens by name.
HandOver(p) ==
    /\ pc[p] \in {"checked", "done"} /\ purpose = "cache"
    /\ Goto(p, "have")
    /\ UNCHANGED <<want, temp, old, opened, disk, purpose, directory>>

FirstConfig(p) ==
    /\ Calling(p, "start", "text")
    /\ \E t \in Texts : Write(p, t, "0")
    /\ UNCHANGED <<purpose, directory>>

Replacing(p) == WriteStep(p) /\ UNCHANGED <<purpose, directory>>

\* The command ends, or its process dies at any step.
Restart(p) ==
    /\ pc[p] # "start"
    /\ Renew(p)
    /\ UNCHANGED <<purpose, directory>>

\* The new digest directory was never flushed and may go with all it held.
Blackout ==
    /\ UNCHANGED purpose
    /\ \/ /\ PowerLoss
          /\ directory' = IF directory = "new" THEN "there" ELSE directory
       \/ /\ directory = "new" /\ directory' = "absent"
          /\ Idle
          /\ entry' = None /\ kept' = {None} /\ UNCHANGED file

Next ==
    \/ \E p \in Procs :
        \/ GiveUp(p) \/ PrepareDirectory(p) \/ Lookup(p) \/ Materialise(p)
        \/ CompareArchive(p) \/ HandOver(p) \/ FirstConfig(p)
        \/ Replacing(p) \/ Restart(p)
    \/ Blackout

Found == {None, Foreign} \cup [text : Texts \cup {Torn}, mode : Modes]

\* What was there before: nothing, a file of any kind, or something else.
Init ==
    /\ purpose \in {"cache", "text"}
    /\ directory \in IF purpose = "text" THEN {"there"} ELSE {"absent", "there", "foreign"}
    /\ pc = [p \in Procs |-> "start"]
    /\ want = [p \in Procs |-> [text |-> None, mode |-> "0600"]]
    /\ temp = [p \in Procs |-> None]
    /\ old = [p \in Procs |-> None]
    /\ opened = [p \in Procs |-> None]
    /\ entry \in IF directory = "there" THEN {None, Foreign} \cup Inodes
                                        ELSE {None}
    /\ kept = {entry}
    /\ \E f \in [text : Texts \cup {Torn}, mode : Modes] :
        file = [n \in Inodes |-> [text |-> f.text, mode |-> f.mode, synced |-> TRUE]]

Spec == Init /\ [][Next]_vars

-----------------------------------------------------------------------------

\* Whoever was handed the cache entry finds it whole and private as long as
\* its command runs, whoever else materialises the same archive meanwhile.
HandedWhole ==
    \A p \in Procs : pc[p] = "have" => entry \in Inodes /\ Holds(entry, Agent)

\* A write that reported success cannot be undone by a power loss, as long
\* as the directory itself is there: neither the file it replaced nor an
\* absent name can return, although other writers may have come after it.
SuccessIsDurable ==
    \A p \in Procs : pc[p] = "done" => old[p] \notin kept

\* What a name leads to, as its readers see it.
Seen(e) == IF e \in Inodes THEN [text |-> file[e].text, mode |-> file[e].mode] ELSE e

Promise == INSTANCE Register WITH
    Written <- [text : Texts, mode : {"0600", "0644"}],
    value <- Seen(entry),
    kept <- {Seen(e) : e \in kept} \cup (IF directory = "new" THEN {None} ELSE {})

\* All of it implements a register: contents and mode change together, at
\* once, and a file that was cut short never appears under the name.
ImplementsRegister == Promise!Spec

=============================================================================
