-------------------------------- MODULE Sockd --------------------------------
(***************************************************************************)
(* The whole system: clients (Client) that call, auto-start and shut down  *)
(* daemons (DaemonRun), over the socket path and the PID file they share.  *)
(* The event loop is reduced to what a client sees of it: a connection is  *)
(* executed and answered, one at a time, or cut off when the listener      *)
(* closes.  EventLoop has the rest.                                        *)
(*                                                                         *)
(* The system calls of clients and daemons interleave freely: between the  *)
(* read_pid of a client and its kill(pid, 0) the process it asks for may   *)
(* end, and another one take over the PID file, or the number.             *)
(***************************************************************************)
EXTENDS Naturals

CONSTANTS
    Daemons, MaxAttempts, Leftovers, Faults, OldSockets, Configs,  \* DaemonRun
    Clients, ReadyTimeout, InitialBackoff, MaxBackoff, ShutdownTimeout, PollStep,   \* Client
    AutoStarters,   \* clients with auto-start configured
    PidReaders,     \* clients that know the PID file
    Calls,          \* the calls that clients make
    Started         \* sets of daemons that somebody starts by hand

VARIABLES
    claim, attempt, seen, file, written, recycled, overlap,
    sock, path, probed, withPid, phase, state, ending,          \* DaemonRun
    op, at, peer, exchange, waited, backoff, told, result,      \* Client
    spawned,        \* processes that exist and may begin run
    runs            \* runs[c]: how often on_request ran for the payload of c

D == INSTANCE DaemonRun
C == INSTANCE Client WITH Pids <- D!P!Pids, NoPid <- D!P!NoPid

ASSUME SystemConstantsOK ==
    /\ D!P!ConstantsOK /\ D!S!SocketConstants
    /\ Configs \subseteq SUBSET Daemons
    /\ AutoStarters \subseteq Clients /\ PidReaders \subseteq Clients
    /\ Started \subseteq SUBSET Daemons
    /\ Calls \subseteq C!Ops
    \* no sleep is empty, or wait_for_ready would spin until its deadline
    /\ ReadyTimeout \in Nat /\ ShutdownTimeout \in Nat
    /\ {InitialBackoff, MaxBackoff, PollStep} \subseteq Nat \ {0}

pidVars    == <<claim, attempt, seen, file, written, recycled, overlap>>
daemonVars == <<pidVars, sock, path, probed, withPid, phase, state, ending>>
clientVars == <<op, at, peer, exchange, waited, backoff, told, result>>
vars       == <<daemonVars, clientVars, spawned, runs>>

TypeOK ==
    /\ D!TypeOK
    /\ C!ClientTypeOK
    /\ spawned \in SUBSET Daemons
    /\ runs \in [Clients -> Nat]

Init ==
    /\ D!Init
    /\ C!ClientInit
    /\ spawned \in Started
    /\ runs = [c \in Clients |-> 0]

-----------------------------------------------------------------------------
(* What a client sees. *)

\* connect finds a listener behind the path, or fails: NotFound if there is
\* nothing, ConnectionRefused if nobody listens
ClientConnects(c) ==
    /\ \/ /\ path \in D!S!Listening
          /\ C!Connected(c, path)
       \/ /\ path \notin D!S!Listening
          /\ C!ConnectFails(c, c \in AutoStarters) \/ C!ReadyFails(c) \/ C!AgainFails(c)
    /\ UNCHANGED <<daemonVars, spawned, runs>>

ClientReads(c) ==
    /\ C!Answered(c) \/ C!AnsweredError(c) \/ C!Cut(c)
    /\ UNCHANGED <<daemonVars, spawned, runs>>

\* read_pid, by a client that knows the PID file.  It fails if that is no text.
CannotRead(c) == c \in PidReaders /\ file = D!P!NotUtf8

ClientReadsPid(c) ==
    /\ ~CannotRead(c)
    /\ C!ReadPid(c, IF c \in PidReaders THEN D!P!ReadablePid ELSE D!P!NoPid)
    /\ UNCHANGED <<daemonVars, spawned, runs>>

\* kill(pid, 0), for the pid that was in the file when c read it
PidIsAlive(c) == told[c] # D!P!NoPid /\ D!P!IsProcessAlive(told[c])

\* recover_if_needed beside a live process: only wait
ClientWaits(c) ==
    /\ PidIsAlive(c)
    /\ C!Recover(c)
    /\ UNCHANGED <<daemonVars, spawned, runs>>

\* recover_if_needed otherwise: spawn_detached, a new process with setsid
ClientSpawns(c) ==
    /\ ~PidIsAlive(c)
    /\ C!Recover(c)
    /\ \E d \in Daemons \ spawned : spawned' = spawned \union {d}
    /\ UNCHANGED <<daemonVars, runs>>

\* ... which fails, for want of memory, of the program, or of a process that
\* the model still has
ClientSpawnFails(c) ==
    /\ ~PidIsAlive(c)
    /\ "io" \in Faults \/ spawned = Daemons
    /\ C!SpawnFails(c)
    /\ UNCHANGED <<daemonVars, spawned, runs>>

ClientAsksPid(c) ==
    /\ C!NotRunning(c, PidIsAlive(c)) \/ C!PidGone(c, PidIsAlive(c))
    /\ UNCHANGED <<daemonVars, spawned, runs>>

\* fs::metadata(socket_path)
ClientAsksSocket(c) ==
    /\ C!SocketGone(c, path = D!S!NoSocket)
    /\ UNCHANGED <<daemonVars, spawned, runs>>

\* An error that is none of the above ends the call.
ClientFails(c) ==
    /\ "io" \in Faults \/ (at[c] \in C!Asking /\ CannotRead(c))
    /\ C!CallFails(c)
    /\ UNCHANGED <<daemonVars, spawned, runs>>

ClientStep(c) ==
    \/ ClientConnects(c) \/ ClientReads(c) \/ ClientReadsPid(c) \/ ClientWaits(c)
    \/ ClientSpawns(c) \/ ClientSpawnFails(c) \/ ClientAsksPid(c) \/ ClientAsksSocket(c)
    \/ ClientFails(c)

ClientCalls(c) ==
    /\ \E o \in Calls : C!Call(c, o)
    /\ UNCHANGED <<daemonVars, spawned, runs>>

-----------------------------------------------------------------------------
(* What a daemon does to its clients. *)

OpenAt(d, c) == peer[c] = d /\ exchange[c] \in {"open", "executed"}

\* The frame c sends in its current attempt.
IsRequest(c) == op[c] = "request" /\ at[c] \in {"connect wait", "again wait"}

Busy(d) == \E c \in Clients : peer[c] = d /\ exchange[c] = "executed"

Set(c, e) == exchange' = [exchange EXCEPT ![c] = e]

\* process_connection: on_request runs
Execute(d, c) ==
    /\ phase[d] = "loop" /\ ~Busy(d)
    /\ peer[c] = d /\ exchange[c] = "open" /\ IsRequest(c)
    /\ runs' = [runs EXCEPT ![c] = @ + 1]
    /\ Set(c, "executed")
    /\ UNCHANGED <<daemonVars, op, at, peer, waited, backoff, told, result, spawned>>

\* process_connection: Response, or Error if on_request failed; Pong
Reply(d, c) ==
    /\ phase[d] = "loop"
    /\ peer[c] = d
    /\ \/ exchange[c] = "executed" /\ (Set(c, "answered") \/ Set(c, "error"))
       \/ exchange[c] = "open" /\ ~Busy(d) /\ ~IsRequest(c) /\ op[c] # "shutdown"
          /\ Set(c, "answered")
    /\ UNCHANGED <<daemonVars, op, at, peer, waited, backoff, told, result, spawned, runs>>

\* Mutant: the loop goes on after a Shutdown frame.
AcknowledgeAndGoOn(d, c) ==
    /\ phase[d] = "loop" /\ ~Busy(d)
    /\ peer[c] = d /\ exchange[c] = "open" /\ op[c] = "shutdown"
    /\ Set(c, "answered")
    /\ UNCHANGED <<daemonVars, op, at, peer, waited, backoff, told, result, spawned, runs>>

\* process_connection: ShutdownAck, and the loop ends
Acknowledge(d, c) ==
    /\ D!LeaveLoop(d, "asked") /\ ~Busy(d)
    /\ peer[c] = d /\ exchange[c] = "open" /\ op[c] = "shutdown"
    /\ Set(c, "answered")
    /\ UNCHANGED <<op, at, peer, waited, backoff, told, result, spawned, runs>>

\* Connections that are open when the listener closes are cut off.
CutOff ==
    exchange' = [c \in Clients |->
        IF \E d \in Daemons : OpenAt(d, c) /\ sock[d] = "serving" /\ sock'[d] # "serving"
        THEN "cut" ELSE exchange[c]]

\* A process that was started begins run, and goes through it.
DaemonStep(d) ==
    /\ \/ /\ d \in spawned
          /\ D!RunWithPidFile(d) \/ D!RunWithoutPidFile(d) \/ D!RunFailsAtOnce(d)
       \/ D!RunStep(d)
    /\ CutOff
    /\ UNCHANGED <<op, at, peer, waited, backoff, told, result, spawned, runs>>

\* Idle timeout, signal, a probe without a frame, a panic of
\* on_request, the death of the process.
DaemonEnds(d) ==
    /\ \/ ~Busy(d) /\ (D!EndAsked(d) \/ D!EndByProbe(d))
       \/ Busy(d) /\ D!EndByPanic(d)
       \/ D!EndByError(d)
       \/ D!Exit(d) \/ D!Crash(d)
    /\ CutOff
    /\ UNCHANGED <<op, at, peer, waited, backoff, told, result, spawned, runs>>

Serve(d) == \E c \in Clients : Execute(d, c) \/ Reply(d, c) \/ Acknowledge(d, c)

\* The number of a dead daemon answers kill(pid, 0) again, or no longer: a daemon
\* that a client spawned is a zombie until the client waits for it, which
\* spawn_detached never does.
PidReuse(p) ==
    /\ D!PidReuse(p)
    /\ UNCHANGED <<clientVars, spawned, runs>>

Next ==
    \/ \E c \in Clients : ClientCalls(c) \/ ClientStep(c)
    \/ \E d \in Daemons : DaemonStep(d) \/ DaemonEnds(d) \/ Serve(d)
    \/ \E p \in D!P!Pids : PidReuse(p)

Spec == Init /\ [][Next]_vars

\* Clients and processes that were started are scheduled, and callbacks return.
FairSpec ==
    /\ Spec
    /\ \A c \in Clients : WF_vars(ClientStep(c))
    /\ \A d \in Daemons : WF_vars(DaemonStep(d)) /\ WF_vars(Serve(d))

-----------------------------------------------------------------------------
(* What a call promises. *)

\* on_request runs at most once for a request: the second attempt of request
\* (client.rs:108-113) follows only errors that prove that the first one never
\* reached a daemon (client.rs:271-286), whatever the daemon does meanwhile.
AtMostOnce ==
    \A c \in Clients : runs[c] <= 1

\* The result of request tells whether on_request ran: it did if there is an
\* answer of either kind, and it did not if no daemon became ready
\* (client.rs:105-115, 189-194).  Only an I/O error leaves it open.
\* (ImplementsService implies it, so that runs check that.)
ResultTellsExecution ==
    \A c \in Clients : op[c] = "request" =>
        /\ result[c] \in {"ok", "daemon error"} => runs[c] = 1
        /\ result[c] = "ready timeout" => runs[c] = 0

\* shutdown returns Ok(true) only when the daemon that acknowledged is past
\* on_stop (client.rs:229-260, daemon.rs:213-221), if the client knows the PID
\* file and no startups raced; another daemon may run by then.
ShutdownMeansStopped ==
    D!Guarded => \A c \in PidReaders :
        op[c] = "shutdown" /\ result[c] = "ok" => state[peer[c]] # "alive"

\* Every call returns, whatever becomes of the daemon (client.rs:92-198): the
\* daemon answers or cuts it off, and the waits are bounded.
EveryCallReturns ==
    \A c \in Clients : at[c] # "idle" ~> at[c] = "returned"

\* What c has slept, and whether it gave up, against the limit of its wait.
InTime(c) ==
    LET limit == IF op[c] = "shutdown" THEN ShutdownTimeout ELSE ReadyTimeout
        sleep == IF op[c] = "shutdown" THEN PollStep
                 ELSE IF waited[c] <= InitialBackoff THEN InitialBackoff ELSE MaxBackoff
    IN /\ waited[c] > 0 => waited[c] < limit + sleep
       /\ result[c] \in {"ready timeout", "shutdown timeout"} => waited[c] >= limit

\* A wait for readiness ends within one sleep after ready_timeout, though the
\* sleeps grow, and never before it (client.rs:178-197); no sleep is longer than
\* max_backoff, except the first, which takes initial_backoff as it is.
\* A wait for the end of a daemon likewise, with its 20 ms (client.rs:229-246).
GivesUpInTime ==
    \A c \in Clients : InTime(c)

\* A shutdown that has read the PID file, and is about to ask kill, has seen a
\* moment without a daemon unless the pid it read is that of a daemon whose state is
\* still alive.
SawNobody ==
    {c \in PidReaders : /\ at[c] \in {"not running probe", "pid gone probe"}
                        /\ told[c] \in Daemons => state[told[c]] # "alive"}

\* The system as a service: the state of the daemons is its lease.
Promise == INSTANCE Service WITH
    owners    <- D!Warm,
    contended <- overlap \/ withPid # Daemons,
    free      <- IF overlap \/ withPid # Daemons THEN {} ELSE SawNobody

\* A request takes effect once, between call and return, in a daemon whose state is
\* alive, or never; a shutdown returns true or false only if there was a moment
\* during the call when no state was alive, as long as the caller knows the PID file
\* and no startups raced (client.rs:92-268, daemon.rs:190-221).  No step of any
\* daemon takes back what a call has returned; that the next daemon starts between
\* the client's read_pid and its kill(pid, 0) is allowed.
ImplementsService == Promise!Spec

\* What has become of c's connection, if it is one to d.
StageAt(d, c) ==
    CASE peer[c] # d \/ exchange[c] = "none" -> "away"
      [] peer[c] = d /\ exchange[c] = "open" ->
            IF IsRequest(c) THEN "Request" ELSE IF op[c] = "shutdown" THEN "Shutdown" ELSE "Ping"
      [] peer[c] = d /\ exchange[c] \in {"answered", "error"} -> "answered"
      [] OTHER -> exchange[c]

\* Whether d serves: it does between listen(2) and the end of its loop.
LoopAt(d) ==
    CASE sock[d] = "serving" /\ phase[d] = "loop" -> "serving"
      [] sock[d] = "serving" /\ phase[d] # "loop" -> "ended"
      [] sock[d] # "serving" /\ phase[d] \in {"off", "claim", "on_start", "bind"} -> "none"
      [] OTHER -> "closed"

Stages(d) == [c \in Clients |-> StageAt(d, c)]

View(d) == INSTANCE LoopView WITH
    Conns <- Clients, loop <- LoopAt(d), stage <- Stages(d)

\* Each daemon of the system keeps to what EventLoop shows to its clients
\* (daemon.rs:223-299), also when daemons crash and are killed.  (This is
\* View(d)!Spec for every daemon d, in one formula.  The run that checks it has one
\* daemon; SockdProofs!DaemonsServeAsEventLoop has any number, one after another.)
ServesAsEventLoop ==
    /\ \A d \in Daemons : View(d)!Init
    /\ [][\A d \in Daemons : [View(d)!Next]_<<LoopAt(d), Stages(d)>>]_vars

-----------------------------------------------------------------------------
(* What the documentation says and the code does not do. *)

\* src/client.rs:101-102: a request that cannot connect "starts the daemon and
\* retries once".  It starts none beside a live process, which need not be a daemon
\* that is starting: it may be one that has closed its listener for good and is
\* still stopping (client.rs:172-175).
RecoveryStartsDaemon ==
    [][\A c \in AutoStarters :
        op[c] = "request" /\ at[c] = "recover probe" /\ at'[c] = "ready" =>
            \/ spawned' # spawned
            \/ \E d \in spawned : phase[d] \notin {"cleanup", "on_stop"}]_vars
=============================================================================
