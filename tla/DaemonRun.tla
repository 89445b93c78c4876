------------------------------ MODULE DaemonRun ------------------------------
(***************************************************************************)
(* src/daemon.rs, Daemon::run: the life of a daemon process around its     *)
(* event loop.  It composes the PID file (PidFile) with the socket path    *)
(* (SocketPath): claim, on_start, bind, event loop, close, cleanup,        *)
(* on_stop, and the drop of the PID guard, by daemons that share both      *)
(* paths.  The event loop itself is one phase here: EventLoop models it.   *)
(*                                                                         *)
(* A panic of a callback unwinds out of run: the listener, the state and   *)
(* the guard are dropped, cleanup and on_stop are skipped.                 *)
(***************************************************************************)
EXTENDS Naturals

CONSTANTS
    Daemons, MaxAttempts, Leftovers, Faults,    \* as in PidFile
    OldSockets,                                 \* as in SocketPath
    Configs         \* sets of daemons that may be configured with the PID file

VARIABLES
    claim, attempt, seen, file, written, recycled, overlap,     \* PidFile
    sock, path, probed,                                         \* SocketPath
    withPid,        \* the daemons that are configured with the PID file
    phase,          \* phase[d]: the statement of run that d executes
    state,          \* state[d]: the application state S that on_start returned
    ending          \* ending[d]: why d left the event loop

P == INSTANCE PidFile
S == INSTANCE SocketPath WITH IoFaults <- "io" \in Faults

ASSUME RunConstantsOK ==
    /\ Configs \subseteq SUBSET Daemons
    /\ P!ConstantsOK
    /\ S!SocketConstants

pidVars  == <<claim, attempt, seen, file, written, recycled, overlap>>
sockVars == <<sock, path, probed>>
vars     == <<pidVars, sockVars, withPid, phase, state, ending>>

Phases  == {"off", "claim", "on_start", "bind", "loop", "close", "cleanup",
            "on_stop", "drop", "done"}
Reasons == {"none", "asked", "probe", "io", "panic"}

TypeOK ==
    /\ P!TypeOK
    /\ S!SocketTypeOK
    /\ withPid \in SUBSET Daemons
    /\ phase \in [Daemons -> Phases]
    /\ state \in [Daemons -> {"none", "alive", "stopped", "lost"}]
    /\ ending \in [Daemons -> Reasons]
    \* the program counters of run, claim and bind agree
    /\ \A d \in Daemons :
        /\ phase[d] \in {"on_start", "bind", "loop", "close", "cleanup", "on_stop"}
             /\ d \in withPid => claim[d] = "held"
        /\ phase[d] = "claim" => P!Claiming(d)
        /\ phase[d] = "bind" => sock[d] \in S!Binding
        /\ phase[d] \in {"loop", "close"} => sock[d] = "serving"
        /\ phase[d] = "cleanup" => sock[d] = "closed"

Init ==
    /\ P!Init
    /\ S!SocketInit
    /\ withPid \in Configs
    /\ phase = [d \in Daemons |-> "off"]
    /\ state = [d \in Daemons |-> "none"]
    /\ ending = [d \in Daemons |-> "none"]

Step(d, from, to) ==
    /\ phase[d] = from
    /\ phase' = [phase EXCEPT ![d] = to]

SetState(d, s) == state' = [state EXCEPT ![d] = s]

-----------------------------------------------------------------------------
(* Daemon::run, statement by statement. *)

\* Mutant: on_start runs before the PID file is claimed.
StartBeforeClaim(d) ==
    /\ d \in withPid
    /\ Step(d, "off", "claim")
    /\ SetState(d, "alive")
    /\ P!Start(d)
    /\ UNCHANGED <<sockVars, withPid, ending>>

\* install_shutdown_flag()?, then the claim begins, if there is a PID file
RunWithPidFile(d) ==
    /\ d \in withPid
    /\ Step(d, "off", "claim")
    /\ P!Start(d)
    /\ UNCHANGED <<sockVars, withPid, state, ending>>

RunWithoutPidFile(d) ==
    /\ d \notin withPid
    /\ Step(d, "off", "on_start")
    /\ UNCHANGED <<pidVars, sockVars, withPid, state, ending>>

\* install_shutdown_flag()? fails: run returns before it has anything
RunFailsAtOnce(d) ==
    /\ "io" \in Faults
    /\ Step(d, "off", "done")
    /\ UNCHANGED <<pidVars, sockVars, withPid, state, ending>>

\* Mutant: run goes on although the claim failed.
ClaimErrorIgnored(d) ==
    /\ P!ClaimStep(d)
    /\ Step(d, "claim",
            IF claim'[d] \in {"held", "refused", "failed"} THEN "on_start" ELSE "claim")
    /\ UNCHANGED <<sockVars, withPid, state, ending>>

\* PidGuard::claim(path)?
Claim(d) ==
    /\ P!ClaimStep(d)
    /\ Step(d, "claim",
            CASE claim'[d] = "held"                  -> "on_start"
              [] claim'[d] \in {"refused", "failed"} -> "drop"
              [] OTHER                               -> "claim")
    /\ UNCHANGED <<sockVars, withPid, state, ending>>

\* on_start succeeds
OnStart(d) ==
    /\ Step(d, "on_start", "bind")
    /\ SetState(d, "alive")
    /\ S!BeginBind(d)
    /\ UNCHANGED <<pidVars, withPid, ending>>

\* on_start returns an error, or panics: only the guard is dropped
OnStartFails(d) ==
    /\ Step(d, "on_start", "drop")
    /\ UNCHANGED <<pidVars, sockVars, withPid, state, ending>>

\* Mutant: the error of bind is returned at once.
BindErrorReturned(d) ==
    /\ S!BindStep(d)
    /\ Step(d, "bind",
            CASE sock'[d] = "serving" -> "loop"
              [] sock'[d] = "failed"  -> "drop"
              [] OTHER                -> "bind")
    /\ UNCHANGED <<pidVars, withPid, state, ending>>

\* socket::bind: into the event loop, or on_stop without any cleanup
Bind(d) ==
    /\ S!BindStep(d)
    /\ Step(d, "bind",
            CASE sock'[d] = "serving" -> "loop"
              [] sock'[d] = "failed"  -> "on_stop"
              [] OTHER                -> "bind")
    /\ UNCHANGED <<pidVars, withPid, state, ending>>

\* run_event_loop returns, or panics
LeaveLoop(d, why) ==
    /\ Step(d, "loop", "close")
    /\ ending' = [ending EXCEPT ![d] = why]
    /\ UNCHANGED <<pidVars, sockVars, withPid, state>>

\* idle timeout, SIGINT or SIGTERM, or a Shutdown frame
EndAsked(d) == LeaveLoop(d, "asked")

\* The probe of another daemon's bind closes without a frame: read_frame fails
\* and the error leaves the loop.
EndByProbe(d) == d \in probed /\ LeaveLoop(d, "probe")

\* poll, accept or any connection fails
EndByError(d) == "io" \in Faults /\ LeaveLoop(d, "io")

\* on_request panics
EndByPanic(d) == LeaveLoop(d, "panic")

\* Mutant: the PID file is released together with the listener.
CloseAndRelease(d) ==
    /\ Step(d, "close", IF ending[d] = "panic" THEN "drop" ELSE "cleanup")
    /\ S!CloseListener(d)
    /\ IF claim[d] = "held" THEN P!Drop(d) ELSE UNCHANGED pidVars
    /\ IF ending[d] = "panic" THEN SetState(d, "lost") ELSE UNCHANGED state
    /\ UNCHANGED <<withPid, ending>>

\* drop(listener), or the unwinding drops it, and then the state with it
Close(d) ==
    /\ Step(d, "close", IF ending[d] = "panic" THEN "drop" ELSE "cleanup")
    /\ S!CloseListener(d)
    /\ IF ending[d] = "panic" THEN SetState(d, "lost") ELSE UNCHANGED state
    /\ UNCHANGED <<pidVars, withPid, ending>>

\* socket::cleanup: its error waits until on_stop has run
CleanUp(d) ==
    /\ Step(d, "cleanup", "on_stop")
    /\ S!Cleanup(d) \/ S!CleanupFails(d)
    /\ UNCHANGED <<pidVars, withPid, state, ending>>

\* on_stop(state) consumes the state, whether it succeeds, fails or panics
OnStop(d) ==
    /\ Step(d, "on_stop", "drop")
    /\ SetState(d, "stopped")
    /\ UNCHANGED <<pidVars, sockVars, withPid, ending>>

\* run returns and drops _pid_guard, if there is one
ReturnDropsGuard(d) ==
    /\ Step(d, "drop", "done")
    /\ IF claim[d] = "held" THEN P!Drop(d) ELSE UNCHANGED pidVars
    /\ UNCHANGED <<sockVars, withPid, state, ending>>

RunStep(d) ==
    \/ Claim(d) \/ OnStart(d) \/ OnStartFails(d) \/ Bind(d)
    \/ Close(d) \/ CleanUp(d) \/ OnStop(d) \/ ReturnDropsGuard(d)

EndOfLoop(d) == EndAsked(d) \/ EndByProbe(d) \/ EndByError(d) \/ EndByPanic(d)

-----------------------------------------------------------------------------
(* The processes. *)

\* The process ends after run has returned.
Exit(d) ==
    /\ phase[d] = "done" /\ sock[d] # "gone"
    /\ S!SocketGone(d)
    /\ IF claim[d] = "off" THEN UNCHANGED pidVars ELSE P!Exit(d)
    /\ UNCHANGED <<withPid, phase, state, ending>>

\* The process dies somewhere in run.
Crash(d) ==
    /\ "crash" \in Faults
    /\ phase[d] \notin {"off", "done"}
    /\ S!SocketGone(d)
    /\ IF claim[d] = "off" THEN UNCHANGED pidVars ELSE P!Crash(d) \/ P!Exit(d)
    /\ phase' = [phase EXCEPT ![d] = "done"]
    /\ state' = [state EXCEPT ![d] = IF @ = "alive" THEN "lost" ELSE @]
    /\ UNCHANGED <<withPid, ending>>

\* A dead daemon's number answers, or no longer answers, kill(pid, 0).
PidReuse(p) ==
    /\ P!Recycle(p) \/ P!Vanish(p)
    /\ UNCHANGED <<sockVars, withPid, phase, state, ending>>

Next ==
    \/ \E d \in Daemons :
        \/ RunWithPidFile(d) \/ RunWithoutPidFile(d) \/ RunFailsAtOnce(d)
        \/ RunStep(d) \/ EndOfLoop(d) \/ Exit(d) \/ Crash(d)
    \/ \E p \in P!Pids : PidReuse(p)

Spec == Init /\ [][Next]_vars

\* A process that is running goes on, and the callbacks return: on_start and
\* on_stop run inside run and have no time limit.  Nobody has to start a
\* daemon, and nothing has to end its event loop.
FairSpec == Spec /\ \A d \in Daemons : WF_vars(RunStep(d))

-----------------------------------------------------------------------------
(* What a daemon promises.  Guarded: every daemon is configured with the   *)
(* PID file and no two startups have raced, so the PID file is exclusive.  *)

Guarded == withPid = Daemons /\ ~overlap

Warm == {d \in Daemons : state[d] = "alive"}

\* Once bound, and until it has cleaned up, a daemon owns the socket path: its
\* clients reach it (socket.rs:47), and its cleanup, which removes whatever is
\* at the path (socket.rs:53), removes no other daemon's socket.
OwnsPath ==
    Guarded => \A d \in Daemons :
        phase[d] \in {"loop", "close", "cleanup"} => path = d

\* bind removes a socket file (socket.rs:41) only if no process will ever
\* answer there: the process that created it is past its run, dead or alive.
RemovesOnlyStale ==
    Guarded => \A d, e \in Daemons :
        sock[d] = "remove" /\ path = e => phase[e] = "done"

\* The PID file names a daemon as long as its state is alive: a client that
\* finds no live process behind the PID file (client.rs:259) knows on_stop has
\* finished.  The guard is dropped last in run (daemon.rs:194-215).
PidOutlivesState ==
    Guarded => \A d \in Warm : file = d /\ d \in written

\* A daemon that returns from run has handed every state that on_start made to
\* on_stop (daemon.rs:203, 215), on every path but a panic: also when the loop
\* failed, when bind failed, and when cleanup failed.
StateHandedBack ==
    \A d \in Daemons :
        phase[d] = "drop" /\ ending[d] # "panic" => state[d] # "alive"

\* A startup beside a live daemon ends that daemon's loop never, and a probe
\* is never left in its backlog (socket.rs:26).
StartupLeavesOthersAlone ==
    Guarded => /\ probed = {}
               /\ \A d \in Daemons : ending[d] # "probe"

\* The application state is a lease as well: the next daemon's on_start runs
\* only after the last one's on_stop, whatever happens in between.
State == INSTANCE Ownership WITH
    owners    <- Warm,
    contended <- overlap \/ withPid # Daemons

\* on_start of one daemon never runs while the state of another is alive
\* (daemon.rs:194-199, 215): a cache or a file on disk has one writer.
WarmOwnership == State!Spec

\* PidFile!RefusedByAnother, in whole runs: a startup gives up only beside another
\* that is past its checks, has failed or is over, or beside a number that another
\* process has (pidfile.rs:21, 42).
RefusedByAnother == P!RefusedByAnother

\* A startup ends in the event loop or returns, and a daemon that leaves its
\* loop gets to the end of run (daemon.rs:192-221), with its callbacks.
RunSettles ==
    \A d \in Daemons :
        phase[d] \notin {"off", "loop"} ~> phase[d] \in {"loop", "done"}

-----------------------------------------------------------------------------
(* What the documentation says and the code does not do. *)

\* daemon.rs:185-188: the daemon exits on its idle timeout, on a signal, or
\* when a client sends a Shutdown frame.  Without a PID file a second startup
\* ends it as well: the probe in bind is a connection without a frame.
ExitsOnlyWhenAsked ==
    \A d \in Daemons : ending[d] # "probe"
=============================================================================
