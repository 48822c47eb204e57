--------------------------- MODULE BundleCacheProofs ---------------------------
(***************************************************************************)
(* Proofs about BundleCache, and with it about AtomicFile, for every set   *)
(* of processes, files and texts: a cache entry that was handed out is     *)
(* whole, a write that succeeded is durable, and the file behaves like the *)
(* register of Register.tla.                                               *)
(*                                                                         *)
(* All of it rests on temporary files being their writer's own until they  *)
(* are renamed, and flushed by then.                                       *)
(***************************************************************************)
EXTENDS BundleCache, TLAPS

Labels ==
    WriteLabels \cup
    {"start", "lookup", "read", "missing", "checked", "done", "have", "failed"}

\* What the name leads to, or led to.
Targets == Inodes \cup {None, Foreign}

Files == [text : Texts \cup {None, Torn}, mode : Modes, synced : BOOLEAN]

ProcsTyped ==
    /\ pc \in [Procs -> Labels]
    /\ want \in [Procs -> [text : Texts \cup {None}, mode : Modes]]
    /\ temp \in [Procs -> Inodes \cup {None}]
    /\ old \in [Procs -> Targets]
    /\ opened \in [Procs -> Inodes \cup {None}]

DiskTyped ==
    /\ file \in [Inodes -> Files]
    /\ entry \in kept
    /\ kept \subseteq Targets

Typed ==
    /\ ProcsTyped
    /\ DiskTyped
    /\ purpose \in {"cache", "text"}
    /\ directory \in {"absent", "new", "there", "foreign"}

\* A temporary file is its writer's own: no name leads to it or did, nobody
\* reads it, and no two writers have the same.
TempsPrivate ==
    \A p \in Procs : temp[p] \in Inodes =>
        /\ temp[p] \notin kept
        /\ \A q \in Procs :
            /\ temp[p] \notin {old[q], opened[q]}
            /\ q # p => temp[q] # temp[p]

\* What has been done to the temporary file at each call.
TempsFilled ==
    \A p \in Procs :
        /\ pc[p] \in WriteLabels => want[p].text \in Texts
        /\ pc[p] \in WriteLabels \ {"mode"} => want[p].mode \in {"0600", "0644"}
        /\ pc[p] \in {"fill", "sync", "rename"} => temp[p] \in Inodes
        /\ pc[p] \in {"sync", "rename"} => Holds(temp[p], want[p])
        /\ pc[p] = "rename" => file[temp[p]].synced

\* A file reaches its name after it was flushed.
KeptSynced == \A e \in kept \cap Inodes : file[e].synced

\* The name does not come back to what it led to before a rename, and the
\* directory does not after it was flushed.
OldGone ==
    \A p \in Procs :
        /\ pc[p] \in {"syncDirectory", "done"} => old[p] # entry
        /\ pc[p] = "done" => old[p] \notin kept

\* Cached processes write the archive, and what one of them has checked can
\* only have been replaced by another copy of it.
EntryWhole == entry \in Inodes /\ Holds(entry, Agent)

CacheWhole ==
    \A p \in Procs :
        /\ purpose = "cache" /\ pc[p] \in WriteLabels => want[p] = Agent
        /\ purpose = "cache" /\ pc[p] \in {"syncDirectory", "done"} => EntryWhole
        /\ pc[p] \in {"checked", "have"} => EntryWhole
        /\ pc[p] = "read" =>
            entry \in Inodes /\ opened[p] \in Inodes /\ (entry = opened[p] \/ EntryWhole)

\* Only the cache has more than write calls.
Purposed ==
    /\ purpose = "text" => directory = "there"
    /\ \A p \in Procs :
        pc[p] \in {"lookup", "read", "missing", "checked", "have"} => purpose = "cache"

\* Without the digest directory there is nothing in it, and nobody at work.
NothingAbsent ==
    directory = "absent" =>
        kept = {None} /\ \A p \in Procs : pc[p] \in {"start", "failed"}

Own == TempsPrivate /\ TempsFilled

IInv ==
    /\ Typed
    /\ Own
    /\ KeptSynced
    /\ OldGone
    /\ CacheWhole
    /\ Purposed
    /\ NothingAbsent

-----------------------------------------------------------------------------

LEMMA InitIInv == Init => IInv
<1> SUFFICES ASSUME Init
             PROVE  IInv
  OBVIOUS
<1> USE FileAssumption DEF Init
<1>1. Typed
  BY DEF Typed, ProcsTyped, DiskTyped, Labels, Targets, Files, Modes
<1>2. Own
  BY DEF Own, TempsPrivate, TempsFilled, WriteLabels
<1>3. KeptSynced /\ OldGone /\ CacheWhole /\ Purposed /\ NothingAbsent
  BY DEF KeptSynced, OldGone, CacheWhole, Purposed, NothingAbsent, WriteLabels
<1> QED BY <1>1, <1>2, <1>3 DEF IInv

-----------------------------------------------------------------------------
(* Steps that touch no file                                                *)

\* A process goes on to a call for which nothing new is needed.
LEMMA GotoKeeps ==
    ASSUME NEW p \in Procs, NEW l \in {"lookup", "missing", "have", "failed"}, IInv,
           Goto(p, l), UNCHANGED <<want, temp, old, opened, disk, purpose>>,
           l # "failed" => purpose = "cache",
           l = "have" => EntryWhole,
           directory' \in {directory, "new"},
           directory = "absent" => directory' = "new" \/ l = "failed",
           purpose = "text" => directory' = directory
    PROVE  IInv'
<1> USE DEF IInv, Goto, disk
<1>1. Typed'
  BY DEF Typed, ProcsTyped, DiskTyped, Labels
<1>2. Own'
  BY DEF Typed, ProcsTyped, Own, TempsPrivate, TempsFilled, WriteLabels, Holds
<1>3. KeptSynced' /\ OldGone'
  BY DEF Typed, ProcsTyped, KeptSynced, OldGone
<1>4. CacheWhole'
  BY DEF Typed, ProcsTyped, CacheWhole, EntryWhole, Holds, WriteLabels
<1>5. Purposed' /\ NothingAbsent'
  BY DEF Typed, ProcsTyped, Purposed, NothingAbsent
<1> QED BY <1>1, <1>2, <1>3, <1>4, <1>5

LEMMA CallsKeep ==
    ASSUME NEW p \in Procs, IInv,
           GiveUp(p) \/ PrepareDirectory(p) \/ HandOver(p)
    PROVE  IInv'
<1>1. CASE GiveUp(p)
  BY <1>1, GotoKeeps DEF GiveUp
<1>2. CASE PrepareDirectory(p)
  <2>1. purpose = "cache" /\ directory \in {"absent", "new", "there", "foreign"}
    BY <1>2 DEF PrepareDirectory, Calling, IInv, Typed
  <2> QED BY <1>2, <2>1, GotoKeeps DEF PrepareDirectory
<1>3. CASE HandOver(p)
  <2>1. EntryWhole /\ directory # "absent"
    BY <1>3 DEF HandOver, IInv, CacheWhole, NothingAbsent
  <2> QED BY <1>3, <2>1, GotoKeeps DEF HandOver
<1> QED BY <1>1, <1>2, <1>3

\* A caller enters WriteFileAtomic.
LEMMA WriteKeeps ==
    ASSUME NEW p \in Procs, NEW t \in Texts, NEW m \in {"0", "0600"}, IInv,
           Write(p, t, m), UNCHANGED <<purpose, directory>>,
           purpose = "cache" => t = Archive /\ m = "0600",
           directory # "absent"
    PROVE  IInv'
<1> USE DEF IInv, Write, disk
<1>1. Typed'
  BY DEF Typed, ProcsTyped, DiskTyped, Labels, WriteLabels, Modes
<1>2. Own'
  BY DEF Typed, ProcsTyped, Own, TempsPrivate, TempsFilled, WriteLabels, Holds
<1>3. KeptSynced' /\ OldGone'
  BY DEF Typed, ProcsTyped, KeptSynced, OldGone
<1>4. CacheWhole'
  BY DEF Typed, ProcsTyped, CacheWhole, EntryWhole, Holds, WriteLabels, Agent
<1>5. Purposed' /\ NothingAbsent'
  BY DEF Typed, ProcsTyped, Purposed, NothingAbsent
<1> QED BY <1>1, <1>2, <1>3, <1>4, <1>5

LEMMA EnterKeeps ==
    ASSUME NEW p \in Procs, IInv, Materialise(p) \/ FirstConfig(p)
    PROVE  IInv'
<1>1. CASE Materialise(p)
  <2>1. directory # "absent"
    BY <1>1 DEF Materialise, Calling, IInv, NothingAbsent
  <2> QED BY <1>1, <2>1, ArchiveAssumption, WriteKeeps DEF Materialise, Calling
<1>2. CASE FirstConfig(p)
  <2>1. purpose = "text" /\ directory # "absent"
    BY <1>2 DEF FirstConfig, Calling, IInv, Purposed
  <2> QED BY <1>2, <2>1, WriteKeeps DEF FirstConfig
<1> QED BY <1>1, <1>2

\* What a process reads it has found under the name.
LEMMA LookupKeeps ==
    ASSUME NEW p \in Procs, IInv, Lookup(p)
    PROVE  IInv'
<1>1. CASE OpenRegular(p, "read")
  <2> USE <1>1, FileAssumption DEF IInv, OpenRegular, Goto, Lookup, Calling, disk
  <2>1. Typed'
    BY DEF Typed, ProcsTyped, DiskTyped, Labels
  <2>2. Own'
    <3>1. \A q \in Procs : temp[q] \in Inodes => temp[q] # entry
      BY DEF Own, TempsPrivate, Typed, DiskTyped
    <3> QED BY <3>1 DEF Typed, ProcsTyped, Own, TempsPrivate, TempsFilled,
               WriteLabels, Holds
  <2>3. KeptSynced' /\ OldGone'
    BY DEF Typed, ProcsTyped, KeptSynced, OldGone
  <2>4. CacheWhole'
    BY DEF Typed, ProcsTyped, CacheWhole, EntryWhole, Holds, WriteLabels
  <2>5. Purposed' /\ NothingAbsent'
    BY DEF Typed, ProcsTyped, Purposed, NothingAbsent
  <2> QED BY <2>1, <2>2, <2>3, <2>4, <2>5
<1>2. CASE /\ Goto(p, IF entry = None THEN "missing" ELSE "failed")
           /\ UNCHANGED <<want, temp, old, opened, disk>>
  <2>1. directory # "absent" /\ directory' = directory /\ purpose' = purpose
        /\ purpose = "cache"
    BY DEF Lookup, Calling, IInv, NothingAbsent
  <2> QED BY <1>2, <2>1, GotoKeeps
<1> QED BY <1>1, <1>2 DEF Lookup

\* The file that was compared is the one the name leads to, or a whole one
\* has taken its place.
LEMMA CompareArchiveKeeps ==
    ASSUME NEW p \in Procs, IInv, CompareArchive(p)
    PROVE  IInv'
<1> USE DEF IInv, CompareArchive, Calling, Close, Goto, disk
<1>1. PICK l \in {"checked", "failed"} :
          pc' = [pc EXCEPT ![p] = l] /\ (l = "checked" => EntryWhole)
  BY DEF CacheWhole, EntryWhole
<1>2. Typed'
  BY <1>1 DEF Typed, ProcsTyped, DiskTyped, Labels
<1>3. Own'
  BY <1>1, FileAssumption
  DEF Typed, ProcsTyped, Own, TempsPrivate, TempsFilled, WriteLabels, Holds
<1>4. KeptSynced' /\ OldGone'
  BY <1>1 DEF Typed, ProcsTyped, KeptSynced, OldGone
<1>5. CacheWhole'
  BY <1>1 DEF Typed, ProcsTyped, CacheWhole, EntryWhole, Holds, WriteLabels
<1>6. Purposed' /\ NothingAbsent'
  BY <1>1 DEF Typed, ProcsTyped, Purposed, NothingAbsent
<1> QED BY <1>2, <1>3, <1>4, <1>5, <1>6

-----------------------------------------------------------------------------
(* WriteFileAtomic                                                         *)

LEMMA InspectKeeps ==
    ASSUME NEW p \in Procs, IInv, Inspect(p), UNCHANGED <<purpose, directory>>
    PROVE  IInv'
<1> USE DEF IInv, Inspect, Goto, disk
<1>1. PICK m \in {"0600", "0644"} :
          want' = [want EXCEPT ![p].mode = m] /\ (want[p].mode = "0600" => m = "0600")
  <2>1. want[p].mode \in Modes
    BY DEF Typed, ProcsTyped
  <2>2. entry \in Inodes => file[entry].mode \in Modes
    BY DEF Typed, DiskTyped, Files
  <2>3. DestinationMode(want[p].mode) \in {"0600", "0644"}
    BY <2>1, <2>2 DEF DestinationMode, Modes
  <2>4. want[p].mode = "0600" => DestinationMode(want[p].mode) = "0600"
    BY DEF DestinationMode
  <2> QED BY <2>3, <2>4
<1>2. Typed'
  BY <1>1 DEF Typed, ProcsTyped, DiskTyped, Labels, WriteLabels, Modes
<1>3. Own'
  BY <1>1 DEF Typed, ProcsTyped, Own, TempsPrivate, TempsFilled, WriteLabels, Holds
<1>4. KeptSynced' /\ OldGone'
  BY DEF Typed, ProcsTyped, KeptSynced, OldGone
<1>5. CacheWhole'
  BY <1>1 DEF Typed, ProcsTyped, CacheWhole, EntryWhole, Holds, WriteLabels, Agent
<1>6. Purposed' /\ NothingAbsent'
  BY DEF Typed, ProcsTyped, Purposed, NothingAbsent, WriteLabels
<1> QED BY <1>2, <1>3, <1>4, <1>5, <1>6

\* A file that no name leads to, nobody reads and no other process writes
\* may change in any way.
LEMMA PrivateChange ==
    ASSUME NEW p \in Procs, NEW n \in Inodes, NEW f \in Files, IInv,
           file' = [file EXCEPT ![n] = f], n \notin kept,
           \A q \in Procs : n # opened[q] /\ (q # p => n # temp[q]),
           UNCHANGED <<entry, kept>>
    PROVE  /\ file' \in [Inodes -> Files]
           /\ \A e \in kept \cap Inodes : file'[e] = file[e]
           /\ \A q \in Procs : opened[q] \in Inodes => file'[opened[q]] = file[opened[q]]
           /\ \A q \in Procs \ {p} : temp[q] \in Inodes => file'[temp[q]] = file[temp[q]]
BY DEF IInv, Typed, DiskTyped

LEMMA CreateKeeps ==
    ASSUME NEW p \in Procs, IInv, Create(p), UNCHANGED <<purpose, directory>>
    PROVE  IInv'
<1> USE FileAssumption DEF IInv, Create, Goto
<1>1. PICK n \in Inodes :
        /\ Unused(n)
        /\ temp' = [temp EXCEPT ![p] = n]
        /\ file' = [file EXCEPT ![n] =
                        [text |-> None, mode |-> "0600", synced |-> FALSE]]
  OBVIOUS
<1>2. /\ n \notin kept
      /\ \A q \in Procs : n \notin {temp[q], old[q], opened[q]}
  BY <1>1 DEF Unused
<1>3. [text |-> None, mode |-> "0600", synced |-> FALSE] \in Files
  BY DEF Files, Modes
<1>4. /\ file' \in [Inodes -> Files]
      /\ \A e \in kept \cap Inodes : file'[e] = file[e]
      /\ \A q \in Procs : opened[q] \in Inodes => file'[opened[q]] = file[opened[q]]
      /\ \A q \in Procs \ {p} : temp[q] \in Inodes => file'[temp[q]] = file[temp[q]]
  BY <1>1, <1>2, <1>3, PrivateChange
<1>5. Typed'
  BY <1>1, <1>4 DEF Typed, ProcsTyped, DiskTyped, Labels, WriteLabels
<1>6. TempsPrivate'
  BY <1>1, <1>2 DEF Typed, ProcsTyped, Own, TempsPrivate
<1>7. TempsFilled'
  BY <1>1, <1>4 DEF Typed, ProcsTyped, Own, TempsFilled, WriteLabels, Holds
<1>8. KeptSynced' /\ OldGone'
  BY <1>4 DEF Typed, ProcsTyped, DiskTyped, KeptSynced, OldGone
<1>9. CacheWhole'
  BY <1>4 DEF Typed, ProcsTyped, DiskTyped, CacheWhole, EntryWhole, Holds, WriteLabels
<1>10. Purposed' /\ NothingAbsent'
  BY DEF Typed, ProcsTyped, Purposed, NothingAbsent, WriteLabels
<1> QED BY <1>5, <1>6, <1>7, <1>8, <1>9, <1>10 DEF Own

LEMMA FillKeeps ==
    ASSUME NEW p \in Procs, IInv, Fill(p) \/ Sync(p), UNCHANGED <<purpose, directory>>
    PROVE  IInv'
<1> USE FileAssumption DEF IInv, Fill, Sync, Goto
<1>1. temp[p] \in Inodes /\ want[p].text \in Texts /\ want[p].mode \in {"0600", "0644"}
  BY DEF Own, TempsFilled, WriteLabels
<1>2. PICK f \in Files, l \in {"sync", "rename"} :
        /\ file' = [file EXCEPT ![temp[p]] = f]
        /\ pc' = [pc EXCEPT ![p] = l]
        /\ f.text = want[p].text /\ f.mode = want[p].mode
        /\ l = "rename" => f.synced
  <2>1. CASE Fill(p)
    BY <1>1, <2>1 DEF Files, Modes
  <2>2. CASE Sync(p)
    <3>1. file[temp[p]] \in Files /\ Holds(temp[p], want[p])
      BY <1>1, <2>2 DEF Typed, DiskTyped, Own, TempsFilled
    <3>2. [file[temp[p]] EXCEPT !.synced = TRUE] \in Files
      BY <3>1 DEF Files
    <3> QED BY <2>2, <3>1, <3>2 DEF Holds, Files
  <2> QED BY <2>1, <2>2
<1>3. /\ temp[p] \notin kept
      /\ \A q \in Procs : temp[p] # opened[q] /\ (q # p => temp[p] # temp[q])
  BY <1>1 DEF Own, TempsPrivate
<1>4. UNCHANGED <<want, temp, old, opened, entry, kept, purpose, directory>>
  OBVIOUS
<1>5. /\ file' \in [Inodes -> Files]
      /\ \A e \in kept \cap Inodes : file'[e] = file[e]
      /\ \A q \in Procs : opened[q] \in Inodes => file'[opened[q]] = file[opened[q]]
      /\ \A q \in Procs \ {p} : temp[q] \in Inodes => file'[temp[q]] = file[temp[q]]
  BY <1>1, <1>2, <1>3, <1>4, PrivateChange
<1> HIDE DEF Fill, Sync
<1>6. pc[p] \in {"fill", "sync"}
  BY DEF Fill, Sync
<1>7. Typed'
  BY <1>2, <1>4, <1>5 DEF Typed, ProcsTyped, DiskTyped, Labels, WriteLabels
<1>8. TempsPrivate'
  BY <1>4 DEF Own, TempsPrivate
<1>9. TempsFilled'
  <2> SUFFICES ASSUME NEW q \in Procs
               PROVE  /\ pc'[q] \in WriteLabels => want[q].text \in Texts
                      /\ pc'[q] \in WriteLabels \ {"mode"} => want[q].mode \in {"0600", "0644"}
                      /\ pc'[q] \in {"fill", "sync", "rename"} => temp[q] \in Inodes
                      /\ pc'[q] \in {"sync", "rename"} => Holds(temp[q], want[q])'
                      /\ pc'[q] = "rename" => file'[temp[q]].synced
    BY <1>4 DEF TempsFilled
  <2>1. CASE q = p
    BY <1>1, <1>2, <1>4, <2>1 DEF Typed, ProcsTyped, DiskTyped, Holds
  <2>2. CASE q # p
    BY <1>2, <1>4, <1>5, <2>2 DEF Typed, ProcsTyped, Own, TempsFilled, Holds
  <2> QED BY <2>1, <2>2
<1>10. KeptSynced' /\ OldGone'
  BY <1>2, <1>4, <1>5 DEF Typed, ProcsTyped, DiskTyped, KeptSynced, OldGone
<1>11. CacheWhole'
  BY <1>2, <1>4, <1>5, <1>6
  DEF Typed, ProcsTyped, DiskTyped, CacheWhole, EntryWhole, Holds, WriteLabels
<1>12. Purposed' /\ NothingAbsent'
  BY <1>2, <1>4, <1>6 DEF Typed, ProcsTyped, Purposed, NothingAbsent
<1> QED BY <1>7, <1>8, <1>9, <1>10, <1>11, <1>12 DEF Own

\* The name moves to a file that is whole, flushed, and none it led to since
\* any process renamed.
LEMMA RenameKeeps ==
    ASSUME NEW p \in Procs, IInv, Rename(p), UNCHANGED <<purpose, directory>>
    PROVE  IInv'
<1> USE FileAssumption DEF IInv, Rename, Goto
<1>1. /\ temp[p] \in Inodes /\ Holds(temp[p], want[p]) /\ file[temp[p]].synced
      /\ temp[p] \notin kept
      /\ \A q \in Procs : temp[p] \notin {old[q], opened[q]} /\ (q # p => temp[p] # temp[q])
  BY DEF Own, TempsPrivate, TempsFilled
<1>2. Typed'
  BY <1>1 DEF Typed, ProcsTyped, DiskTyped, Labels, WriteLabels, Targets
<1>3. TempsPrivate'
  BY <1>1 DEF Typed, ProcsTyped, DiskTyped, Own, TempsPrivate
<1>4. TempsFilled'
  BY <1>1 DEF Typed, ProcsTyped, Own, TempsFilled, WriteLabels, Holds
<1>5. KeptSynced' /\ OldGone'
  BY <1>1 DEF Typed, ProcsTyped, DiskTyped, KeptSynced, OldGone
<1>6. CacheWhole'
  <2>1. purpose = "cache" => EntryWhole'
    BY <1>1 DEF CacheWhole, EntryWhole, Holds, WriteLabels
  <2>2. entry' \in Inodes
    BY <1>1
  <2> QED BY <2>1, <2>2 DEF Typed, ProcsTyped, CacheWhole, Purposed, WriteLabels
<1>7. Purposed' /\ NothingAbsent'
  BY DEF Typed, ProcsTyped, Purposed, NothingAbsent
<1> QED BY <1>2, <1>3, <1>4, <1>5, <1>6, <1>7 DEF Own

LEMMA SyncDirectoryKeeps ==
    ASSUME NEW p \in Procs, IInv, SyncDirectory(p) \/ WriteFailed(p),
           UNCHANGED <<purpose, directory>>
    PROVE  IInv'
<1> USE FileAssumption DEF IInv, SyncDirectory, WriteFailed, Goto
<1>1. PICK l \in {"done", "failed"}, t \in {None, temp[p]} :
        /\ pc' = [pc EXCEPT ![p] = l]
        /\ temp' = [temp EXCEPT ![p] = t]
        /\ kept' \in {kept, {entry}}
        /\ l = "done" => pc[p] = "syncDirectory" /\ kept' = {entry}
  BY DEF Typed, ProcsTyped
<1>2. pc[p] \in WriteLabels /\ UNCHANGED <<want, old, opened, file, entry>>
  BY DEF WriteLabels
<1> HIDE DEF SyncDirectory, WriteFailed
<1>3. Typed'
  BY <1>1, <1>2 DEF Typed, ProcsTyped, DiskTyped, Labels
<1>4. TempsPrivate'
  BY <1>1, <1>2 DEF Typed, ProcsTyped, DiskTyped, Own, TempsPrivate
<1>5. TempsFilled'
  BY <1>1, <1>2 DEF Typed, ProcsTyped, Own, TempsFilled, WriteLabels, Holds
<1>6. KeptSynced' /\ OldGone'
  BY <1>1, <1>2 DEF Typed, ProcsTyped, DiskTyped, KeptSynced, OldGone
<1>7. CacheWhole'
  BY <1>1, <1>2 DEF Typed, ProcsTyped, CacheWhole, EntryWhole, Holds, WriteLabels
<1>8. Purposed' /\ NothingAbsent'
  BY <1>1, <1>2 DEF Typed, ProcsTyped, Purposed, NothingAbsent, WriteLabels
<1> QED BY <1>3, <1>4, <1>5, <1>6, <1>7, <1>8 DEF Own

-----------------------------------------------------------------------------
(* Deaths and power losses                                                 *)

LEMMA RenewKeeps ==
    ASSUME NEW p \in Procs, IInv, Restart(p)
    PROVE  IInv'
<1> USE FileAssumption DEF IInv, Restart, Renew, Goto, disk
<1>1. Typed'
  BY DEF Typed, ProcsTyped, DiskTyped, Labels, Modes, Targets
<1>2. TempsPrivate'
  BY DEF Typed, ProcsTyped, Own, TempsPrivate
<1>3. TempsFilled'
  BY DEF Typed, ProcsTyped, Own, TempsFilled, WriteLabels, Holds
<1>4. KeptSynced' /\ OldGone'
  BY DEF Typed, ProcsTyped, KeptSynced, OldGone
<1>5. CacheWhole'
  BY DEF Typed, ProcsTyped, CacheWhole, EntryWhole, Holds, WriteLabels
<1>6. Purposed' /\ NothingAbsent'
  BY DEF Typed, ProcsTyped, Purposed, NothingAbsent
<1> QED BY <1>1, <1>2, <1>3, <1>4, <1>5, <1>6 DEF Own

\* The files that a power loss could have cut short were not under the name.
LEMMA LossKeepsFiles ==
    ASSUME IInv, PowerLoss
    PROVE  file' = file
<1>1. CASE entry' \in Inodes
  <2>1. file[entry'].synced /\ file \in [Inodes -> Files]
    BY <1>1 DEF PowerLoss, IInv, KeptSynced, Typed, DiskTyped
  <2>2. file' = [file EXCEPT ![entry'] = file[entry']]
    BY <1>1, <2>1 DEF PowerLoss, AfterLoss
  <2> QED BY <1>1, <2>1, <2>2
<1>2. CASE entry' \notin Inodes
  BY <1>2 DEF PowerLoss
<1> QED BY <1>1, <1>2

LEMMA BlackoutKeeps ==
    ASSUME IInv, Blackout
    PROVE  IInv'
<1> USE FileAssumption DEF IInv
<1>1. /\ Idle /\ purpose' = purpose /\ file' = file
      /\ kept' = {entry'} /\ entry' \in kept \cup {None}
      /\ KeptSynced' /\ NothingAbsent'
      /\ purpose = "text" => directory' = directory
      /\ directory' \in {directory, "there", "absent"}
  <2>1. CASE /\ PowerLoss
             /\ directory' = IF directory = "new" THEN "there" ELSE directory
    <3>1. file' = file
      BY <2>1, LossKeepsFiles
    <3>2. Idle /\ purpose' = purpose /\ kept' = {entry'} /\ entry' \in kept
      BY <2>1 DEF Blackout, PowerLoss
    <3>3. KeptSynced' /\ NothingAbsent'
      BY <2>1, <3>1, <3>2 DEF KeptSynced, NothingAbsent, Idle
    <3> QED BY <2>1, <3>1, <3>2, <3>3 DEF Purposed
  <2>2. CASE /\ directory = "new" /\ directory' = "absent"
             /\ Idle
             /\ entry' = None /\ kept' = {None} /\ UNCHANGED file
    BY <2>2 DEF Blackout, KeptSynced, NothingAbsent, Idle, Purposed
  <2> QED BY <2>1, <2>2 DEF Blackout
<1>2. Typed'
  BY <1>1 DEF Typed, ProcsTyped, DiskTyped, Idle, Labels, Targets, Modes
<1>3. Own' /\ OldGone' /\ CacheWhole'
  BY <1>1 DEF Own, TempsPrivate, TempsFilled, OldGone, CacheWhole, Idle, WriteLabels
<1>4. Purposed'
  BY <1>1 DEF Purposed, Idle
<1> QED BY <1>1, <1>2, <1>3, <1>4

-----------------------------------------------------------------------------

LEMMA ReplacingKeeps ==
    ASSUME NEW p \in Procs, IInv, Replacing(p)
    PROVE  IInv'
BY InspectKeeps, CreateKeeps, FillKeeps, RenameKeeps, SyncDirectoryKeeps
DEF Replacing, WriteStep

LEMMA NextIInv ==
    ASSUME IInv, [Next]_vars
    PROVE  IInv'
<1>1. CASE UNCHANGED vars
  BY <1>1 DEF vars, fileVars, disk, IInv, Typed, ProcsTyped, DiskTyped, Own,
     TempsPrivate, TempsFilled, KeptSynced, OldGone, CacheWhole, EntryWhole,
     Holds, Purposed, NothingAbsent
<1> QED BY <1>1, CallsKeep, EnterKeeps, LookupKeeps, CompareArchiveKeeps,
           ReplacingKeeps, RenewKeeps, BlackoutKeeps DEF Next

LEMMA Invariance == Spec => []IInv
BY InitIInv, NextIInv, PTL DEF Spec

-----------------------------------------------------------------------------
(* The properties                                                          *)

\* Whoever was handed the cache entry finds it whole and private as long as
\* its command runs (bundle.go Path, cache.go ensureCachedArchive).
THEOREM HandedOutWhole == Spec => []HandedWhole
<1>1. IInv => HandedWhole
  BY DEF IInv, CacheWhole, EntryWhole, HandedWhole
<1> QED BY <1>1, Invariance, PTL

\* A power loss does not undo a write that has reported success (atomic.go
\* WriteFileAtomic).
THEOREM SuccessDurable == Spec => []SuccessIsDurable
<1>1. IInv => SuccessIsDurable
  BY DEF IInv, OldGone, SuccessIsDurable
<1> QED BY <1>1, Invariance, PTL

-----------------------------------------------------------------------------
(* The register                                                            *)

New == IF directory = "new" THEN {None} ELSE {}

\* As long as the files under the name, the name and the directory stay as
\* they are, the register does.
LEMMA RegisterStutters ==
    ASSUME IInv, UNCHANGED <<entry, kept>>, New' = New,
           \A e \in kept \cap Inodes : file'[e] = file[e]
    PROVE  UNCHANGED <<Seen(entry), {Seen(e) : e \in kept} \cup New>>
<1>1. entry \in kept
  BY DEF IInv, Typed, DiskTyped
<1>2. \A e \in kept : Seen(e)' = Seen(e)
  BY DEF Seen
<1> QED BY <1>1, <1>2

LEMMA InitRegister == Init => Promise!Init
<1> SUFFICES ASSUME Init
             PROVE  Promise!Init
  OBVIOUS
<1>1. kept = {entry} /\ directory # "new"
  BY DEF Init
<1>2. Seen(entry) \in Found
  BY DEF Init, Found, Seen
<1> QED BY <1>1, <1>2 DEF Promise!Init

\* A rename replaces the register's value, by one that a writer wanted.
LEMMA RenameReplaces ==
    ASSUME NEW p \in Procs, IInv, Rename(p), UNCHANGED <<purpose, directory>>
    PROVE  Promise!Next
<1>1. /\ entry' = temp[p] /\ kept' = kept \cup {temp[p]} /\ file' = file
      /\ directory' = directory
  BY DEF Rename
<1>2. /\ temp[p] \in Inodes /\ file[temp[p]].text \in Texts
      /\ file[temp[p]].mode \in {"0600", "0644"}
  BY DEF Rename, IInv, Own, TempsFilled, Holds, WriteLabels
<1>3. \A e : Seen(e)' = Seen(e)
  BY <1>1 DEF Seen
<1>4. Seen(temp[p]) \in [text : Texts, mode : {"0600", "0644"}]
  BY <1>2 DEF Seen
<1>5. Promise!Replace(Seen(temp[p]))
  BY <1>1, <1>3 DEF Promise!Replace, Seen
<1> QED BY <1>4, <1>5 DEF Promise!Next

\* Flushing the directory loses versions, and never the value.
LEMMA SyncFlushes ==
    ASSUME IInv, kept' = {entry}, UNCHANGED <<entry, file, directory>>
    PROVE  Promise!Next
<1>1. entry \in kept /\ \A e : Seen(e)' = Seen(e)
  BY DEF IInv, Typed, DiskTyped, Seen
<1>2. Promise!Flush
  BY <1>1 DEF Promise!Flush, Seen
<1> QED BY <1>2 DEF Promise!Next

LEMMA BlackoutLoses ==
    ASSUME IInv, Blackout
    PROVE  Promise!Next
<1>1. CASE /\ PowerLoss
           /\ directory' = IF directory = "new" THEN "there" ELSE directory
  <2>1. /\ file' = file /\ entry' \in kept /\ kept' = {entry'}
        /\ directory' # "new"
    BY <1>1, LossKeepsFiles DEF PowerLoss
  <2>2. Promise!PowerLoss
    BY <2>1 DEF Promise!PowerLoss, Seen
  <2> QED BY <2>2 DEF Promise!Next
<1>2. CASE /\ directory = "new" /\ directory' = "absent"
           /\ Idle
           /\ entry' = None /\ kept' = {None} /\ UNCHANGED file
  <2>1. Seen(entry)' = None
    BY <1>2, FileAssumption DEF Seen
  <2>2. Promise!PowerLoss
    BY <1>2, <2>1 DEF Promise!PowerLoss
  <2> QED BY <2>2 DEF Promise!Next
<1> QED BY <1>1, <1>2 DEF Blackout

\* A new digest directory may be lost again with all it will hold; it held
\* nothing before.
LEMMA NewDirectoryStutters ==
    ASSUME IInv, NEW p \in Procs, PrepareDirectory(p)
    PROVE  UNCHANGED <<Seen(entry), {Seen(e) : e \in kept} \cup New>>
<1>1. UNCHANGED <<file, entry, kept>>
  BY DEF PrepareDirectory, Goto, disk
<1>2. \A e : Seen(e)' = Seen(e)
  BY <1>1 DEF Seen
<1>3. CASE directory = "absent"
  <2>1. kept = {None} /\ Seen(None) = None
    BY <1>3, FileAssumption DEF IInv, NothingAbsent, Seen
  <2>2. {Seen(e) : e \in kept} \cup New = {None} /\ New' \subseteq {None}
    BY <2>1 DEF New
  <2>3. {Seen(e)' : e \in kept'} = {None}
    BY <1>1, <1>2, <2>1
  <2> QED BY <1>1, <1>2, <2>2, <2>3
<1>4. CASE directory # "absent"
  <2>1. New' = New
    BY <1>4 DEF PrepareDirectory, New
  <2> QED BY <1>1, <2>1, RegisterStutters
<1> QED BY <1>3, <1>4

\* Any other call touches nothing but its own temporary file.
LEMMA CallsStutter ==
    ASSUME IInv, NEW p \in Procs,
           \/ GiveUp(p) \/ Lookup(p) \/ Materialise(p) \/ CompareArchive(p)
           \/ HandOver(p) \/ FirstConfig(p) \/ Restart(p)
           \/ (Inspect(p) \/ Create(p) \/ Fill(p) \/ Sync(p))
                /\ UNCHANGED <<purpose, directory>>
    PROVE  UNCHANGED <<Seen(entry), {Seen(e) : e \in kept} \cup New>>
<1>1. UNCHANGED <<entry, kept, directory>>
  BY DEF GiveUp, Lookup, OpenRegular, Materialise, Write, CompareArchive, Close,
     HandOver, FirstConfig, Restart, Renew, Inspect, Create, Fill, Sync, disk
<1>2. \A e \in kept \cap Inodes : file'[e] = file[e]
  <2>1. CASE Create(p)
    BY <2>1 DEF Create, Unused, IInv, Typed, DiskTyped
  <2>2. CASE Fill(p) \/ Sync(p)
    <3>1. temp[p] \in Inodes /\ temp[p] \notin kept
      BY <2>2 DEF Fill, Sync, IInv, Own, TempsFilled, TempsPrivate
    <3> QED BY <2>2, <3>1 DEF Fill, Sync, IInv, Typed, DiskTyped
  <2>3. CASE ~(Create(p) \/ Fill(p) \/ Sync(p))
    BY <2>3 DEF GiveUp, Lookup, OpenRegular, Materialise, Write, CompareArchive,
       Close, HandOver, FirstConfig, Restart, Renew, Inspect, disk
  <2> QED BY <2>1, <2>2, <2>3
<1>3. New' = New
  BY <1>1 DEF New
<1> QED BY <1>1, <1>2, <1>3, RegisterStutters

LEMMA NextRegister ==
    ASSUME IInv, [Next]_vars
    PROVE  [Promise!Next]_<<Seen(entry), {Seen(e) : e \in kept} \cup New>>
<1>1. ASSUME NEW p \in Procs, Replacing(p)
      PROVE  [Promise!Next]_<<Seen(entry), {Seen(e) : e \in kept} \cup New>>
  <2>1. CASE SyncDirectory(p) \/ WriteFailed(p)
    <3>1. kept' \in {kept, {entry}} /\ UNCHANGED <<entry, file, directory>>
      BY <1>1, <2>1 DEF Replacing, SyncDirectory, WriteFailed
    <3>2. CASE kept' = kept
      BY <3>1, <3>2, RegisterStutters DEF New
    <3> QED BY <3>1, <3>2, SyncFlushes
  <2>2. CASE Rename(p)
    BY <1>1, <2>2, RenameReplaces DEF Replacing
  <2> QED BY <1>1, <2>1, <2>2, CallsStutter DEF Replacing, WriteStep
<1>2. CASE UNCHANGED vars
  BY <1>2, RegisterStutters DEF vars, fileVars, disk, New
<1> QED BY <1>1, <1>2, BlackoutLoses, NewDirectoryStutters, CallsStutter DEF Next

\* Every step of the cache, and of "limanix first-config", is a step of the
\* register, or none: contents and mode change together and at once.
THEOREM RegisterImplemented == Spec => ImplementsRegister
<1>1. IInv /\ [Next]_vars =>
        [Promise!Next]_<<Seen(entry), {Seen(e) : e \in kept} \cup New>>
  BY NextRegister
<1> QED BY <1>1, InitRegister, Invariance, PTL
        DEF Spec, ImplementsRegister, Promise!Spec, New

=============================================================================
