------------------------------ MODULE HostAgent ------------------------------
(***************************************************************************)
(* Host agent processes of one Lima instance (internal/hostagent: pid.go,  *)
(* run.go, server.go), contending for ha.pid and ha.sock.                  *)
(*                                                                         *)
(* The PID lease is an flock on an open file, not on a name: opening,      *)
(* locking and unlinking the file are separate steps, and a name can be    *)
(* given to a new file while the old one is still open. A file is named by *)
(* the agent that created it. An agent is one process; a restart is        *)
(* another one. Death closes its descriptors at any step and leaves its    *)
(* files.                                                                  *)
(*                                                                         *)
(* Lima's agent library (New, Run) is external: it may fail, end by        *)
(* itself, and it ends after it receives a signal.                         *)
(***************************************************************************)
EXTENDS Naturals

CONSTANTS
    Agents,     \* host agent processes, by PID
    Asked,      \* those whose context is cancelled or that get a signal
    None,       \* no file, agent or content
    Torn,       \* PID file content left by a write that was cut short
    Signals     \* capacity of the signals channel

ASSUME NoneAssumption == {None, Torn} \cap Agents = {} /\ None # Torn
ASSUME AskedAssumption == Asked \subseteq Agents
ASSUME SignalsAssumption == Signals \in Nat \ {0}

VARIABLES
    pc,         \* the next call of each agent
    fd,         \* the PID file each agent has open
    holder,     \* the agent whose flock is on each PID file
    content,    \* the PID in each PID file
    path,       \* the file that ha.pid names
    socket,     \* the agent whose listener ha.sock reaches
    cancelled,  \* agents whose context is done
    requested,  \* signals waiting in each agent's channel
    serve       \* each API server: off, on, or ended before its Close

lease == <<fd, holder, content, path>>
api   == <<socket, serve>>
stop  == <<cancelled, requested>>
vars  == <<pc, lease, api, stop>>

Labels == {"new", "lock", "checkPrevious", "writePID", "truncate",
           "newAgent", "removeSocket", "listen", "run", "closeServer",
           "closeSocket", "checkPath", "unlink", "close", "gone"}

Init ==
    /\ pc = [a \in Agents |-> "new"]
    /\ fd = [a \in Agents |-> None]
    /\ holder = [f \in Agents |-> None]
    /\ content = [f \in Agents |-> None]
    /\ path = None
    /\ socket = None
    /\ cancelled = {}
    /\ requested = [a \in Agents |-> 0]
    /\ serve = [a \in Agents |-> "off"]

At(a, l) == pc[a] = l

Goto(a, l) == pc' = [pc EXCEPT ![a] = l]

(* A pidLease exists from acquirePID's return until its descriptor closes. *)
Leased(a) ==
    pc[a] \in {"newAgent", "removeSocket", "listen", "run", "closeServer",
               "closeSocket", "checkPath", "unlink", "close"}

Alive(a) == pc[a] \notin {"new", "gone"}

(* Closing the descriptor of an agent releases what it had locked.         *)
CloseFd(a) ==
    /\ fd' = [fd EXCEPT ![a] = None]
    /\ holder' = [f \in Agents |-> IF holder[f] = a THEN None ELSE holder[f]]
    /\ UNCHANGED <<content, path>>

Fail(a) == Goto(a, "gone") /\ CloseFd(a) /\ UNCHANGED <<api, stop>>

-----------------------------------------------------------------------------
(* acquirePID                                                              *)

Open(a) ==
    /\ At(a, "new")
    /\ path' = IF path = None THEN a ELSE path
    /\ fd' = [fd EXCEPT ![a] = path']
    /\ Goto(a, "lock")
    /\ UNCHANGED <<holder, content, api, stop>>

(* Mutant: the lock is not exclusive.                                      *)
LockShared(a) ==
    /\ At(a, "lock")
    /\ holder' = [holder EXCEPT ![fd[a]] = a]
    /\ Goto(a, "checkPrevious")
    /\ UNCHANGED <<fd, content, path, api, stop>>

Lock(a) ==
    /\ At(a, "lock")
    /\ IF holder[fd[a]] = None
       THEN /\ holder' = [holder EXCEPT ![fd[a]] = a]
            /\ Goto(a, "checkPrevious")
            /\ UNCHANGED <<fd, content, path, api, stop>>
       ELSE Fail(a)

(* A live previous owner is refused; so is a PID that is alive because it  *)
(* was reused, and a text that is no PID. What is left of a torn write may *)
(* also read as the PID of a dead process.                                 *)
CheckPrevious(a) ==
    /\ At(a, "checkPrevious")
    /\ LET previous == content[fd[a]] IN
       \/ /\ previous \in Agents => ~Alive(previous)
          /\ Goto(a, "writePID")
          /\ UNCHANGED <<lease, api, stop>>
       \/ previous # None /\ Fail(a)

(* WriteAt replaces the first bytes only.                                  *)
WritePID(a) ==
    /\ At(a, "writePID")
    /\ \E c \in {a, Torn} : content' = [content EXCEPT ![fd[a]] = c]
    /\ Goto(a, "truncate")
    /\ UNCHANGED <<fd, holder, path, api, stop>>

WriteFailed(a) ==
    /\ pc[a] \in {"writePID", "truncate"}
    /\ Fail(a)

Truncate(a) ==
    /\ At(a, "truncate")
    /\ content' = [content EXCEPT ![fd[a]] = a]
    /\ Goto(a, "newAgent")
    /\ UNCHANGED <<fd, holder, path, api, stop>>

-----------------------------------------------------------------------------
(* run                                                                     *)

NewAgent(a) ==
    /\ At(a, "newAgent")
    /\ Goto(a, "removeSocket") \/ Goto(a, "checkPath")
    /\ UNCHANGED <<lease, api, stop>>

RemoveSocket(a) ==
    /\ At(a, "removeSocket")
    /\ \/ socket' = None /\ Goto(a, "listen")
       \/ UNCHANGED socket /\ Goto(a, "checkPath")
    /\ UNCHANGED <<lease, serve, stop>>

(* bind refuses a name that exists; a socket whose permissions cannot be   *)
(* set is removed again, if that succeeds.                                 *)
Listen(a) ==
    /\ At(a, "listen")
    /\ \/ /\ socket = None
          /\ socket' = a
          /\ serve' = [serve EXCEPT ![a] = "on"]
          /\ Goto(a, "run")
       \/ /\ socket' \in IF socket = None THEN {None, a} ELSE {socket}
          /\ UNCHANGED serve
          /\ Goto(a, "checkPath")
    /\ UNCHANGED <<lease, stop>>

(* Mutant: a pending request is counted without limit.                     *)
NotifyUnbounded(a) ==
    requested' = [requested EXCEPT ![a] = @ + 1]

(* requestShutdown does not wait for room in the channel.                  *)
Notify(a) ==
    requested' = [requested EXCEPT ![a] = IF @ < Signals THEN @ + 1 ELSE @]

(* Mutant: the request is lost unless the agent is already receiving.      *)
CancelUnbuffered(a) ==
    /\ Alive(a)
    /\ a \in Asked \ cancelled
    /\ cancelled' = cancelled \union {a}
    /\ IF At(a, "run") THEN Notify(a) ELSE UNCHANGED requested
    /\ UNCHANGED <<pc, lease, api>>

(* The context's AfterFunc.                                                *)
Cancel(a) ==
    /\ Alive(a)
    /\ a \in Asked \ cancelled
    /\ cancelled' = cancelled \union {a}
    /\ Notify(a)
    /\ UNCHANGED <<pc, lease, api>>

(* SIGINT or SIGTERM, once signal.Notify directs them to the channel.      *)
Signal(a) ==
    /\ a \in Asked
    /\ pc[a] \in {"newAgent", "removeSocket", "listen", "run"}
    /\ Notify(a)
    /\ UNCHANGED <<pc, lease, api, cancelled>>

ServeEnds(a) ==
    /\ serve[a] = "on"
    /\ At(a, "run")
    /\ serve' = [serve EXCEPT ![a] = "ended"]
    /\ Notify(a)
    /\ UNCHANGED <<pc, lease, socket, cancelled>>

(* agent.Run returns on a signal.                                          *)
Shutdown(a) ==
    /\ At(a, "run")
    /\ requested[a] > 0
    /\ requested' = [requested EXCEPT ![a] = @ - 1]
    /\ Goto(a, "closeServer")
    /\ UNCHANGED <<lease, api, cancelled>>

(* ... or by itself.                                                       *)
RunEnds(a) ==
    /\ At(a, "run")
    /\ Goto(a, "closeServer")
    /\ UNCHANGED <<lease, api, stop>>

-----------------------------------------------------------------------------
(* Cleanup: apiServer.Close, then pidLease.Close.                          *)

CloseServer(a) ==
    /\ At(a, "closeServer")
    /\ serve' = [serve EXCEPT ![a] = "off"]
    /\ Goto(a, "closeSocket")
    /\ UNCHANGED <<lease, socket, stop>>

(* Whatever socket has the name is removed, or the removal fails.          *)
CloseSocket(a) ==
    /\ At(a, "closeSocket")
    /\ socket' \in {None, socket}
    /\ Goto(a, "checkPath")
    /\ UNCHANGED <<lease, serve, stop>>

(* Mutant: the PID path is removed whatever file it names now.             *)
CheckPathTrusting(a) ==
    /\ At(a, "checkPath")
    /\ Goto(a, IF path = None THEN "close" ELSE "unlink")
    /\ UNCHANGED <<lease, api, stop>>

CheckPath(a) ==
    /\ At(a, "checkPath")
    /\ \/ path = fd[a] /\ Goto(a, "unlink")
       \/ Goto(a, "close")       \* absent, another file, or not to be read
    /\ UNCHANGED <<lease, api, stop>>

Unlink(a) ==
    /\ At(a, "unlink")
    /\ path' \in {None, path}
    /\ Goto(a, "close")
    /\ UNCHANGED <<fd, holder, content, api, stop>>

Close(a) == At(a, "close") /\ Fail(a)

Die(a) ==
    /\ Alive(a)
    /\ Goto(a, "gone")
    /\ CloseFd(a)
    /\ serve' = [serve EXCEPT ![a] = "off"]
    /\ UNCHANGED <<socket, stop>>

Acquire(a) ==
    \/ Lock(a) \/ CheckPrevious(a) \/ WritePID(a) \/ WriteFailed(a) \/ Truncate(a)

Run(a) ==
    \/ NewAgent(a) \/ RemoveSocket(a) \/ Listen(a) \/ Shutdown(a)
    \/ CloseServer(a) \/ CloseSocket(a) \/ CheckPath(a) \/ Unlink(a) \/ Close(a)

Next ==
    \E a \in Agents :
        \/ Open(a) \/ Acquire(a) \/ Run(a)
        \/ Cancel(a) \/ Signal(a) \/ ServeEnds(a) \/ RunEnds(a) \/ Die(a)

(* A started process keeps making its calls. Nothing is assumed of signals *)
(* or of Lima ending by itself, so a served agent may run for ever.        *)
Fairness == \A a \in Agents : WF_vars(Acquire(a)) /\ WF_vars(Run(a))

Spec == Init /\ [][Next]_vars /\ Fairness

-----------------------------------------------------------------------------
(* Properties                                                              *)

(* The variables keep their types.                                         *)
TypeOK ==
    /\ pc \in [Agents -> Labels]
    /\ fd \in [Agents -> Agents \union {None}]
    /\ holder \in [Agents -> Agents \union {None}]
    /\ content \in [Agents -> Agents \union {None, Torn}]
    /\ path \in Agents \union {None}
    /\ socket \in Agents \union {None}
    /\ cancelled \subseteq Agents
    /\ requested \in [Agents -> 0..Signals]
    /\ serve \in [Agents -> {"off", "on", "ended"}]

(* The PID file an agent leased stays locked by it and names it until the  *)
(* lease closes, so two agents never lease the same file, whatever was     *)
(* opened, unlinked or left behind in between (pid.go acquirePID).         *)
LeaseNamesHolder ==
    \A a \in Agents : Leased(a) =>
        /\ fd[a] # None
        /\ holder[fd[a]] = a
        /\ content[fd[a]] = a

(* As long as an agent runs on the file that ha.pid names, no other agent  *)
(* removes or replaces that name: not one that was refused, nor one whose  *)
(* own file lost its name earlier (pid.go remove).                         *)
RunningKeepsPath ==
    [][\A a \in Agents :
          At(a, "run") /\ path = fd[a] => path' = path]_vars

(* A request to shut down is not lost, whenever it comes: before the agent *)
(* receives signals, or when others are already waiting (run.go).          *)
ShutdownHonoured ==
    \A a \in Agents : a \in cancelled ~> ~Alive(a)

(* "The PID file is locked for the process lifetime" (doc.go) so that an   *)
(* agent excludes any other: at most one agent of an instance is running.  *)
LeaseExcludes ==
    \A a, b \in Agents : At(a, "run") /\ At(b, "run") => a = b

=============================================================================
