--------------------------- MODULE HostAgentProofs ---------------------------
(***************************************************************************)
(* Proofs about HostAgent for every set of agents: a lease names its       *)
(* holder, and a running agent keeps the name of its file. Both rest on    *)
(* what an agent may rely on at each of its calls, although the name, the  *)
(* file and the lock are looked at one after the other.                    *)
(***************************************************************************)
EXTENDS HostAgent, TLAPS

\* The agent has got through the flock of acquirePID.
Locked(a) == Leased(a) \/ pc[a] \in {"checkPrevious", "writePID", "truncate"}

\* An agent has a file open from Open on, and locked from Lock on.
FilesHeld ==
    \A a \in Agents :
        /\ pc[a] = "lock" \/ Locked(a) => fd[a] \in Agents
        /\ Locked(a) => holder[fd[a]] = a

\* The lease is written from Truncate on.
LeasesWritten == \A a \in Agents : Leased(a) => content[fd[a]] = a

\* Who is about to unlink ha.pid is still the one it leads to: nobody else
\* can have that file locked, and nobody creates a file under a name that
\* exists.
UnlinksOwn == \A a \in Agents : pc[a] = "unlink" => path = fd[a]

IInv == TypeOK /\ FilesHeld /\ LeasesWritten /\ UnlinksOwn

-----------------------------------------------------------------------------

LEMMA InitIInv == Init => IInv
BY NoneAssumption, SignalsAssumption
DEF Init, IInv, TypeOK, FilesHeld, LeasesWritten, UnlinksOwn, Locked, Leased,
    Labels

\* An agent that ends takes nothing from the others: what it had locked was
\* its own.
LEMMA EndKeeps ==
    ASSUME NEW a \in Agents, IInv, Goto(a, "gone"), CloseFd(a),
           socket' = socket, UNCHANGED stop,
           serve' \in [Agents -> {"off", "on", "ended"}]
    PROVE  IInv'
<1> USE DEF IInv, Goto, CloseFd
<1>1. TypeOK'
  BY DEF TypeOK, Labels, stop
<1>2. FilesHeld' /\ LeasesWritten' /\ UnlinksOwn'
  BY DEF TypeOK, FilesHeld, LeasesWritten, UnlinksOwn, Locked, Leased
<1> QED BY <1>1, <1>2

LEMMA FailKeeps ==
    ASSUME NEW a \in Agents, IInv, Fail(a)
    PROVE  IInv'
BY EndKeeps DEF Fail, IInv, TypeOK, api

\* The lease as it is, and a call that needs no more of it than the last.
LEMMA LeaseKept ==
    ASSUME NEW a \in Agents, NEW l \in Labels, IInv, Goto(a, l),
           UNCHANGED lease, TypeOK',
           Locked(a), Locked(a)', Leased(a)' => Leased(a),
           l = "unlink" => path = fd[a]
    PROVE  IInv'
<1>1. FilesHeld' /\ LeasesWritten' /\ UnlinksOwn'
  BY DEF IInv, TypeOK, FilesHeld, LeasesWritten, UnlinksOwn, Locked, Leased,
     Goto, lease
<1> QED BY <1>1 DEF IInv

-----------------------------------------------------------------------------
(* acquirePID                                                              *)

LEMMA OpenKeeps ==
    ASSUME NEW a \in Agents, IInv, Open(a)
    PROVE  IInv'
<1> USE NoneAssumption DEF IInv, Open, Goto, At
<1>1. TypeOK'
  BY DEF TypeOK, Labels, api, stop
<1>2. path' \in Agents /\ (path # None => path' = path)
  BY DEF TypeOK
<1>3. FilesHeld' /\ LeasesWritten'
  BY <1>2 DEF TypeOK, FilesHeld, LeasesWritten, Locked, Leased
<1>4. UnlinksOwn'
  <2> SUFFICES ASSUME NEW b \in Agents, pc'[b] = "unlink"
               PROVE  path' = fd'[b]
    BY DEF UnlinksOwn
  <2>1. b # a /\ pc[b] = "unlink" /\ fd'[b] = fd[b]
    BY DEF TypeOK
  <2>2. path = fd[b] /\ fd[b] # None
    BY <2>1 DEF UnlinksOwn, FilesHeld, Locked, Leased
  <2> QED BY <1>2, <2>1, <2>2
<1> QED BY <1>1, <1>3, <1>4

LEMMA LockKeeps ==
    ASSUME NEW a \in Agents, IInv, Lock(a)
    PROVE  IInv'
<1>1. CASE Fail(a)
  BY <1>1, FailKeeps
<1>2. CASE /\ holder[fd[a]] = None
           /\ holder' = [holder EXCEPT ![fd[a]] = a]
           /\ Goto(a, "checkPrevious")
           /\ UNCHANGED <<fd, content, path, api, stop>>
  <2> USE <1>2, NoneAssumption DEF IInv, Goto
  <2>1. pc[a] = "lock"
    BY DEF Lock, At
  <2>2. TypeOK'
    BY DEF TypeOK, Labels, api, stop
  <2>3. FilesHeld' /\ LeasesWritten' /\ UnlinksOwn'
    BY <2>1 DEF TypeOK, FilesHeld, LeasesWritten, UnlinksOwn, Locked, Leased
  <2> QED BY <2>2, <2>3
<1> QED BY <1>1, <1>2 DEF Lock

LEMMA CheckPreviousKeeps ==
    ASSUME NEW a \in Agents, IInv, CheckPrevious(a)
    PROVE  IInv'
<1>1. CASE Fail(a)
  BY <1>1, FailKeeps
<1>2. CASE Goto(a, "writePID") /\ UNCHANGED <<lease, api, stop>>
  <2>1. TypeOK' /\ Locked(a) /\ Locked(a)' /\ ~Leased(a)'
    BY <1>2 DEF CheckPrevious, IInv, TypeOK, Labels, Goto, At, Locked, Leased,
       lease, api, stop
  <2> QED BY <1>2, <2>1, LeaseKept DEF Labels
<1> QED BY <1>1, <1>2 DEF CheckPrevious

\* Only the holder of a file writes it, so no other lease is overwritten.
LEMMA ContentKeeps ==
    ASSUME NEW a \in Agents, NEW l \in {"truncate", "newAgent"},
           NEW c \in {a, Torn}, IInv, Locked(a), Goto(a, l),
           l = "newAgent" => c = a,
           content' = [content EXCEPT ![fd[a]] = c],
           UNCHANGED <<fd, holder, path, api, stop>>
    PROVE  IInv'
<1> USE DEF IInv, Goto
<1>1. TypeOK'
  BY DEF TypeOK, Labels, api, stop
<1>2. FilesHeld' /\ UnlinksOwn'
  BY DEF TypeOK, FilesHeld, UnlinksOwn, Locked, Leased
<1>3. LeasesWritten'
  <2> SUFFICES ASSUME NEW b \in Agents, Leased(b)'
               PROVE  content'[fd[b]] = b
    BY DEF LeasesWritten
  <2>1. CASE b = a
    BY <2>1 DEF TypeOK, FilesHeld, Leased
  <2>2. CASE b # a
    <3>1. Leased(b)
      BY <2>2 DEF TypeOK, Leased
    <3>2. fd[b] # fd[a]
      BY <2>2, <3>1 DEF FilesHeld, Locked
    <3> QED BY <3>1, <3>2 DEF TypeOK, FilesHeld, LeasesWritten, Locked
  <2> QED BY <2>1, <2>2
<1> QED BY <1>1, <1>2, <1>3

LEMMA AcquireKeeps ==
    ASSUME NEW a \in Agents, IInv, Acquire(a)
    PROVE  IInv'
<1>1. CASE WritePID(a)
  BY <1>1, ContentKeeps DEF WritePID, At, Locked
<1>2. CASE WriteFailed(a)
  BY <1>2, FailKeeps DEF WriteFailed
<1>3. CASE Truncate(a)
  BY <1>3, ContentKeeps DEF Truncate, At, Locked
<1> QED BY <1>1, <1>2, <1>3, LockKeeps, CheckPreviousKeeps DEF Acquire

-----------------------------------------------------------------------------
(* run, cleanup, and what happens to an agent                              *)

LEMMA ServeKeeps ==
    ASSUME NEW a \in Agents, IInv,
           \/ NewAgent(a) \/ RemoveSocket(a) \/ Listen(a) \/ Shutdown(a)
           \/ CloseServer(a) \/ CloseSocket(a) \/ CheckPath(a) \/ RunEnds(a)
    PROVE  IInv'
<1>1. PICK l \in {"removeSocket", "listen", "run", "closeServer",
                  "closeSocket", "checkPath", "unlink", "close"} :
          Goto(a, l) /\ (l = "unlink" => path = fd[a])
  BY DEF NewAgent, RemoveSocket, Listen, Shutdown, CloseServer, CloseSocket,
     CheckPath, RunEnds
<1>2. Leased(a) /\ Leased(a)' /\ UNCHANGED lease
  BY <1>1 DEF NewAgent, RemoveSocket, Listen, Shutdown, CloseServer,
     CloseSocket, CheckPath, RunEnds, At, Leased, Goto, IInv, TypeOK
<1>3. TypeOK'
  <2>1. pc' \in [Agents -> Labels]
    BY <1>1 DEF IInv, TypeOK, Goto, Labels
  <2>2. socket' \in Agents \union {None}
    BY DEF NewAgent, RemoveSocket, Listen, Shutdown, CloseServer, CloseSocket,
       CheckPath, RunEnds, IInv, TypeOK, api
  <2>3. requested' \in [Agents -> 0..Signals] /\ cancelled' \subseteq Agents
    BY SignalsAssumption
    DEF NewAgent, RemoveSocket, Listen, Shutdown, CloseServer, CloseSocket,
        CheckPath, RunEnds, IInv, TypeOK, stop
  <2>4. serve' \in [Agents -> {"off", "on", "ended"}]
    BY DEF NewAgent, RemoveSocket, Listen, Shutdown, CloseServer, CloseSocket,
       CheckPath, RunEnds, IInv, TypeOK, api
  <2> QED BY <1>2, <2>1, <2>2, <2>3, <2>4 DEF IInv, TypeOK, lease
<1> QED BY <1>1, <1>2, <1>3, LeaseKept DEF Labels, Locked

LEMMA UnlinkKeeps ==
    ASSUME NEW a \in Agents, IInv, Unlink(a)
    PROVE  IInv'
<1> USE DEF IInv, Unlink, Goto, At
<1>1. TypeOK'
  BY DEF TypeOK, Labels, api, stop
<1>2. FilesHeld' /\ LeasesWritten'
  BY DEF TypeOK, FilesHeld, LeasesWritten, Locked, Leased
<1>3. UnlinksOwn'
  <2> SUFFICES ASSUME NEW b \in Agents, pc'[b] = "unlink"
               PROVE  FALSE
    BY DEF UnlinksOwn
  <2>1. b # a /\ pc[b] = "unlink"
    BY DEF TypeOK
  <2> QED BY <2>1 DEF UnlinksOwn, FilesHeld, Locked, Leased
<1> QED BY <1>1, <1>2, <1>3

\* Requests to shut down touch neither files nor labels.
LEMMA RequestKeeps ==
    ASSUME NEW a \in Agents, IInv, Cancel(a) \/ Signal(a) \/ ServeEnds(a)
    PROVE  IInv'
<1> USE DEF Cancel, Signal, ServeEnds, lease, api, stop
<1>1. requested' \in [Agents -> 0..Signals]
  BY SignalsAssumption DEF Notify, IInv, TypeOK
<1>2. cancelled' \subseteq Agents /\ serve' \in [Agents -> {"off", "on", "ended"}]
  BY AskedAssumption DEF IInv, TypeOK
<1>3. UNCHANGED <<pc, lease, socket>>
  OBVIOUS
<1> QED BY <1>1, <1>2, <1>3
        DEF IInv, TypeOK, FilesHeld, LeasesWritten, UnlinksOwn, Locked, Leased

LEMMA NextIInv ==
    ASSUME IInv, [Next]_vars
    PROVE  IInv'
<1>1. CASE UNCHANGED vars
  BY <1>1 DEF vars, lease, api, stop, IInv, TypeOK, FilesHeld, LeasesWritten,
     UnlinksOwn, Locked, Leased
<1>2. ASSUME NEW a \in Agents, Run(a) \/ RunEnds(a)
      PROVE  IInv'
  BY <1>2, ServeKeeps, UnlinkKeeps, FailKeeps DEF Run, Close
<1>3. ASSUME NEW a \in Agents, Die(a)
      PROVE  IInv'
  BY <1>3, EndKeeps DEF Die, IInv, TypeOK
<1> QED BY <1>1, <1>2, <1>3, OpenKeeps, AcquireKeeps, RequestKeeps DEF Next

LEMMA Invariance == Spec => []IInv
BY InitIInv, NextIInv, PTL DEF Spec

-----------------------------------------------------------------------------
(* The properties                                                          *)

\* The variables keep their types; no more requests wait than the channel
\* of run.go has room for.
THEOREM TypeCorrect == Spec => []TypeOK
<1>1. IInv => TypeOK
  BY DEF IInv
<1> QED BY <1>1, Invariance, PTL

\* A lease is on a file that its agent has locked and written, so no two
\* agents lease one file (pid.go acquirePID).
THEOREM LeasesHeld == Spec => []LeaseNamesHolder
<1>1. IInv => LeaseNamesHolder
  BY NoneAssumption
  DEF IInv, LeaseNamesHolder, FilesHeld, LeasesWritten, Locked
<1> QED BY <1>1, Invariance, PTL

\* Nobody takes ha.pid away from the agent that runs on the file it leads
\* to (pid.go remove).
THEOREM PathKept == Spec => RunningKeepsPath
<1>1. ASSUME IInv, [Next]_vars, NEW a \in Agents, At(a, "run"), path = fd[a]
      PROVE  path' = path
  <2>1. path \in Agents /\ path # None /\ holder[path] = a
    BY <1>1, NoneAssumption DEF IInv, FilesHeld, Locked, Leased, At
  <2>2. ASSUME NEW b \in Agents, Unlink(b)
        PROVE  path' = path
    <3>1. b # a /\ path = fd[b] /\ holder[fd[b]] = b
      BY <1>1, <2>2 DEF IInv, UnlinksOwn, FilesHeld, Locked, Leased, Unlink, At
    <3> QED BY <2>1, <3>1
  <2>3. ASSUME NEW b \in Agents, Open(b)
        PROVE  path' = path
    BY <2>1, <2>3 DEF Open
  <2>4. ASSUME NEW b \in Agents, Fail(b) \/ Die(b)
        PROVE  path' = path
    BY <2>4 DEF Fail, Die, CloseFd
  <2>5. ASSUME NEW b \in Agents, Acquire(b)
        PROVE  path' = path
    BY <2>4, <2>5
    DEF Acquire, Lock, CheckPrevious, WritePID, WriteFailed, Truncate, lease
  <2>6. ASSUME NEW b \in Agents, Run(b) \/ RunEnds(b)
        PROVE  path' = path
    BY <2>2, <2>4, <2>6
    DEF Run, RunEnds, NewAgent, RemoveSocket, Listen, Shutdown, CloseServer,
        CloseSocket, CheckPath, Close, lease
  <2>7. ASSUME NEW b \in Agents, Cancel(b) \/ Signal(b) \/ ServeEnds(b)
        PROVE  path' = path
    BY <2>7 DEF Cancel, Signal, ServeEnds, lease
  <2>8. CASE UNCHANGED vars
    BY <2>8 DEF vars, lease
  <2> QED BY <1>1, <2>3, <2>4, <2>5, <2>6, <2>7, <2>8 DEF Next
<1>2. IInv /\ [Next]_vars =>
          [\A a \in Agents : At(a, "run") /\ path = fd[a] => path' = path]_vars
  BY <1>1
<1> QED BY <1>2, Invariance, PTL DEF Spec, RunningKeepsPath

=============================================================================
