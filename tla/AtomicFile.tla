----------------------------- MODULE AtomicFile -----------------------------
(***************************************************************************)
(* WriteFileAtomic and OpenRegular (internal/filesystem: atomic.go,        *)
(* file.go) on one name, by several processes.                             *)
(*                                                                         *)
(* The name leads to a file (an inode) or to something that is not a       *)
(* regular file. A power loss reverts what was not flushed: the name to    *)
(* one of the files it led to since the directory was last flushed, and    *)
(* the bytes of a file that was not. The temporary file of a process that  *)
(* died stays under its hidden name, which nothing reads: it is forgotten  *)
(* here.                                                                   *)
(***************************************************************************)
CONSTANTS
    Procs,      \* processes
    Inodes,     \* files in use at one time
    Texts,      \* whole contents
    None,       \* no file, and the contents of an empty one
    Torn,       \* contents cut short
    Foreign     \* a symlink, directory or special file

ASSUME FileAssumption ==
    /\ {None, Torn} \cap Texts = {}
    /\ {None, Foreign} \cap Inodes = {}
    /\ None # Torn /\ None # Foreign

VARIABLES
    pc,         \* the next call of each process
    want,       \* what each process writes: text and mode
    temp,       \* the file under each process's temporary name
    old,        \* what the name led to when the process renamed over it
    opened,     \* the file each process has open for reading
    file,       \* the files
    entry,      \* what the name leads to
    kept        \* what it may lead to after a power loss

disk     == <<file, entry, kept>>
fileVars == <<pc, want, temp, old, opened, disk>>

Modes == {"0", "0600", "0644"}

WriteLabels == {"mode", "create", "fill", "sync", "rename", "syncDirectory"}

Goto(p, l) == pc' = [pc EXCEPT ![p] = l]

\* A caller enters WriteFileAtomic; mode "0" asks to keep the mode. The
\* parent directory may not resolve.
Write(p, text, mode) ==
    /\ want' = [want EXCEPT ![p] = [text |-> text, mode |-> mode]]
    /\ pc' \in {[pc EXCEPT ![p] = l] : l \in {"mode", "failed"}}
    /\ UNCHANGED <<temp, old, opened, disk>>

\* The mode of the regular file that is replaced is kept.
DestinationMode(requested) ==
    IF requested # "0" THEN requested
    ELSE IF entry \in Inodes /\ file[entry].mode # "0" THEN file[entry].mode
    ELSE "0600"

Inspect(p) ==
    /\ pc[p] = "mode" /\ entry # Foreign
    /\ want' = [want EXCEPT ![p].mode = DestinationMode(@)]
    /\ Goto(p, "create")
    /\ UNCHANGED <<temp, old, opened, disk>>

Unused(n) ==
    n \notin kept \cup {entry} \cup {temp[p] : p \in Procs}
                  \cup {old[p] : p \in Procs} \cup {opened[p] : p \in Procs}

Create(p) ==
    /\ pc[p] = "create"
    /\ \E n \in Inodes :
        /\ Unused(n)
        /\ temp' = [temp EXCEPT ![p] = n]
        /\ file' = [file EXCEPT ![n] =
                        [text |-> None, mode |-> "0600", synced |-> FALSE]]
    /\ Goto(p, "fill")
    /\ UNCHANGED <<want, old, opened, entry, kept>>

\* Mutant: the bytes are not flushed before the rename.
FillUnsynced(p) ==
    /\ pc[p] = "fill"
    /\ file' = [file EXCEPT ![temp[p]] =
                    [text |-> want[p].text, mode |-> want[p].mode, synced |-> FALSE]]
    /\ Goto(p, "rename")
    /\ UNCHANGED <<want, temp, old, opened, entry, kept>>

Fill(p) ==
    /\ pc[p] = "fill"
    /\ file' = [file EXCEPT ![temp[p]] =
                    [text |-> want[p].text, mode |-> want[p].mode, synced |-> FALSE]]
    /\ Goto(p, "sync")
    /\ UNCHANGED <<want, temp, old, opened, entry, kept>>

Sync(p) ==
    /\ pc[p] = "sync"
    /\ file' = [file EXCEPT ![temp[p]].synced = TRUE]
    /\ Goto(p, "rename")
    /\ UNCHANGED <<want, temp, old, opened, entry, kept>>

Rename(p) ==
    /\ pc[p] = "rename"
    /\ old' = [old EXCEPT ![p] = entry]
    /\ entry' = temp[p]
    /\ kept' = kept \cup {temp[p]}
    /\ temp' = [temp EXCEPT ![p] = None]
    /\ Goto(p, "syncDirectory")
    /\ UNCHANGED <<want, opened, file>>

\* Mutant: the rename is left to the operating system.
SyncDirectoryForgotten(p) ==
    /\ pc[p] = "syncDirectory"
    /\ Goto(p, "done")
    /\ UNCHANGED <<want, temp, old, opened, disk>>

\* The deferred removal finds no temporary name after the rename.
SyncDirectory(p) ==
    /\ pc[p] = "syncDirectory"
    /\ kept' = {entry}
    /\ Goto(p, "done")
    /\ UNCHANGED <<want, temp, old, opened, file, entry>>

\* Any call fails; the deferred removal takes the temporary file away. After
\* the rename the new file stays, flushed or not.
WriteFailed(p) ==
    /\ pc[p] \in WriteLabels
    /\ kept' \in {kept} \cup (IF pc[p] = "syncDirectory" THEN {{entry}} ELSE {})
    /\ temp' = [temp EXCEPT ![p] = None]
    /\ Goto(p, "failed")
    /\ UNCHANGED <<want, old, opened, file, entry>>

WriteStep(p) ==
    \/ Inspect(p) \/ Create(p) \/ Fill(p) \/ Sync(p)
    \/ Rename(p) \/ SyncDirectory(p) \/ WriteFailed(p)

\* OpenRegular for reading: l is where the caller goes on.
OpenRegular(p, l) ==
    /\ entry \in Inodes
    /\ opened' = [opened EXCEPT ![p] = entry]
    /\ Goto(p, l)
    /\ UNCHANGED <<want, temp, old, disk>>

Close(p, l) ==
    /\ opened' = [opened EXCEPT ![p] = None]
    /\ Goto(p, l)
    /\ UNCHANGED <<want, temp, old, disk>>

\* A process ends or dies, and the next command begins.
Renew(p) ==
    /\ Goto(p, "start")
    /\ temp' = [temp EXCEPT ![p] = None]
    /\ old' = [old EXCEPT ![p] = None]
    /\ opened' = [opened EXCEPT ![p] = None]
    /\ want' = [want EXCEPT ![p] = [text |-> None, mode |-> "0600"]]
    /\ UNCHANGED disk

Idle ==
    /\ pc' = [p \in Procs |-> "start"]
    /\ temp' = [p \in Procs |-> None]
    /\ old' = [p \in Procs |-> None]
    /\ opened' = [p \in Procs |-> None]
    /\ want' = [p \in Procs |-> [text |-> None, mode |-> "0600"]]

AfterLoss(f) == IF f.synced THEN {f} ELSE {f, [f EXCEPT !.text = Torn]}

PowerLoss ==
    /\ Idle
    /\ entry' \in kept
    /\ kept' = {entry'}
    /\ file' \in IF entry' \in Inodes
                THEN {[file EXCEPT ![entry'] = f] : f \in AfterLoss(file[entry'])}
                ELSE {file}

=============================================================================
