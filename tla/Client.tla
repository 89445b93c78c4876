------------------------------- MODULE Client -------------------------------
(***************************************************************************)
(* src/client.rs and src/process.rs: the calls request, ping and shutdown  *)
(* of Client, with recovery (auto-start) and the wait for the end of a     *)
(* shutdown.  A call opens one connection per attempt, writes one frame    *)
(* and reads one.  What the outside answers is a parameter of a step: the  *)
(* result of connect, the content of the PID file, the result of kill.     *)
(* Sockd supplies it.  Each of these system calls is a step of its own.    *)
(*                                                                         *)
(* Time passes in the sleeps of the two waits, in units; an attempt takes   *)
(* none.                                                                   *)
(***************************************************************************)
EXTENDS Naturals

CONSTANTS
    Clients,        \* client processes, each makes one call
    Daemons,        \* the daemons they may reach
    Pids, NoPid,    \* what read_pid may return: a number, or None
    ReadyTimeout, InitialBackoff, MaxBackoff,   \* AutoStart
    ShutdownTimeout,                            \* with_shutdown_timeout
    PollStep                                    \* 20 ms

Nobody == "no daemon"

VARIABLES
    op,         \* op[c]: the call that c makes
    at,         \* at[c]: where c is in the call
    peer,       \* peer[c]: the daemon of the connection that c opened last
    exchange,   \* exchange[c]: what became of that connection
    waited,     \* waited[c]: how long c has slept since its wait began
    backoff,    \* backoff[c]: the next sleep of wait_for_ready
    told,       \* told[c]: what read_pid returned to c, until it has asked kill
    result      \* result[c]: what the call returned

clientVars == <<op, at, peer, exchange, waited, backoff, told, result>>

Ops == {"request", "ping", "shutdown"}

\* connect: first attempt; ready: the ping of wait_for_ready; again: the second
\* attempt of request.  Each connects, then waits for its answer.
Connecting == {"connect", "ready", "again"}
Waiting    == {"connect wait", "ready wait", "again wait"}
\* pid_file_points_to_live_process is two calls: read_pid, then kill(pid, 0).
Asking     == {"recover", "not running", "pid gone"}
Probing    == {"recover probe", "not running probe", "pid gone probe"}
Points     == Connecting \union Waiting \union Asking \union Probing \union
              {"idle", "socket gone", "returned"}

Results == {"none", "ok", "false", "daemon error", "io", "ready timeout",
            "shutdown timeout"}

ClientTypeOK ==
    /\ op \in [Clients -> Ops \union {"none"}]
    /\ at \in [Clients -> Points]
    /\ peer \in [Clients -> Daemons \union {Nobody}]
    /\ exchange \in [Clients -> {"none", "open", "executed", "answered", "error", "cut"}]
    /\ waited \in [Clients -> Nat]
    /\ backoff \in [Clients -> {InitialBackoff} \union 0..MaxBackoff]
    /\ told \in [Clients -> Pids \union {NoPid}]
    /\ result \in [Clients -> Results]

ClientInit ==
    /\ op = [c \in Clients |-> "none"]
    /\ at = [c \in Clients |-> "idle"]
    /\ peer = [c \in Clients |-> Nobody]
    /\ exchange = [c \in Clients |-> "none"]
    /\ waited = [c \in Clients |-> 0]
    /\ backoff = [c \in Clients |-> InitialBackoff]
    /\ told = [c \in Clients |-> NoPid]
    /\ result = [c \in Clients |-> "none"]

GoTo(c, to) == at' = [at EXCEPT ![c] = to]

Return(c, r) ==
    /\ GoTo(c, "returned")
    /\ result' = [result EXCEPT ![c] = r]

\* The call begins with an attempt to connect.
Call(c, o) ==
    /\ at[c] = "idle"
    /\ op' = [op EXCEPT ![c] = o]
    /\ GoTo(c, "connect")
    /\ UNCHANGED <<peer, exchange, waited, backoff, told, result>>

-----------------------------------------------------------------------------
(* One attempt: connect, write_frame, read_frame. *)

\* connect succeeds: a connection to daemon d, and the frame is written
Connected(c, d) ==
    /\ at[c] \in Connecting
    /\ GoTo(c, CASE at[c] = "connect" -> "connect wait"
                 [] at[c] = "ready"   -> "ready wait"
                 [] at[c] = "again"   -> "again wait")
    /\ peer' = [peer EXCEPT ![c] = d]
    /\ exchange' = [exchange EXCEPT ![c] = "open"]
    /\ UNCHANGED <<op, waited, backoff, told, result>>

\* The first connect fails with NotFound or ConnectionRefused: request and ping
\* try to recover if auto-start is configured, shutdown asks the PID file
ConnectFails(c, autoStart) ==
    /\ at[c] = "connect"
    /\ CASE op[c] = "shutdown"           -> GoTo(c, "not running") /\ UNCHANGED result
         [] op[c] # "shutdown" /\ autoStart  -> GoTo(c, "recover") /\ UNCHANGED result
         [] op[c] # "shutdown" /\ ~autoStart -> Return(c, "io")
    /\ UNCHANGED <<op, peer, exchange, waited, backoff, told>>

Smaller(a, b) == IF a < b THEN a ELSE b

\* Mutant: the backoff is doubled without a limit.
SleepUncapped(c) ==
    /\ waited' = [waited EXCEPT ![c] = @ + backoff[c]]
    /\ backoff' = [backoff EXCEPT ![c] = 2 * @]

\* Sleep for the backoff, which doubles up to max_backoff
Sleep(c) ==
    /\ waited' = [waited EXCEPT ![c] = @ + backoff[c]]
    /\ backoff' = [backoff EXCEPT ![c] = Smaller(2 * @, MaxBackoff)]

\* Mutant: a client at its deadline sleeps once more.
ReadyFailsLate(c) ==
    /\ at[c] = "ready"
    /\ IF waited[c] <= ReadyTimeout
         THEN Sleep(c) /\ UNCHANGED <<at, result>>
         ELSE Return(c, "ready timeout") /\ UNCHANGED <<waited, backoff>>
    /\ UNCHANGED <<op, peer, exchange, told>>

\* The connect of wait_for_ready fails: sleep and try again until the deadline
ReadyFails(c) ==
    /\ at[c] = "ready"
    /\ IF waited[c] < ReadyTimeout
         THEN Sleep(c) /\ UNCHANGED <<at, result>>
         ELSE Return(c, "ready timeout") /\ UNCHANGED <<waited, backoff>>
    /\ UNCHANGED <<op, peer, exchange, told>>

\* The connect of the second attempt fails: its error is the result
AgainFails(c) ==
    /\ at[c] = "again"
    /\ Return(c, "io")
    /\ UNCHANGED <<op, peer, exchange, waited, backoff, told>>

\* The answer is the frame that was asked for
Answered(c) ==
    /\ at[c] \in Waiting
    /\ exchange[c] = "answered"
    /\ CASE at[c] = "ready wait" /\ op[c] = "request" -> GoTo(c, "again") /\ UNCHANGED result
         [] op[c] = "shutdown"                        -> GoTo(c, "socket gone") /\ UNCHANGED result
         [] OTHER                                     -> Return(c, "ok")
    /\ UNCHANGED <<op, peer, exchange, waited, backoff, told>>

\* An Error frame: DaemonReturnedError
AnsweredError(c) ==
    /\ at[c] \in Waiting
    /\ exchange[c] = "error"
    /\ Return(c, "daemon error")
    /\ UNCHANGED <<op, peer, exchange, waited, backoff, told>>

\* Mutant: a connection that was cut off counts as a daemon that is not running.
CutRecovers(c) ==
    /\ at[c] \in Waiting
    /\ exchange[c] = "cut"
    /\ IF at[c] = "connect wait" /\ op[c] = "request"
         THEN GoTo(c, "recover") /\ UNCHANGED result
         ELSE Return(c, "io")
    /\ UNCHANGED <<op, peer, exchange, waited, backoff, told>>

\* The connection was cut off: EPIPE, ECONNRESET or UnexpectedEof, none of
\* which is recoverable
Cut(c) ==
    /\ at[c] \in Waiting
    /\ exchange[c] = "cut"
    /\ Return(c, "io")
    /\ UNCHANGED <<op, peer, exchange, waited, backoff, told>>

\* Any other error: of connect, of reading the PID file, of fs::metadata, or the
\* answer to a request beyond the client's own max_payload_len.  It is the result.
CallFails(c) ==
    /\ \/ at[c] \in Connecting \union Asking \union {"socket gone"}
       \/ /\ op[c] = "request" /\ at[c] \in {"connect wait", "again wait"}
          /\ exchange[c] \in {"answered", "error"}
    /\ Return(c, "io")
    /\ UNCHANGED <<op, peer, exchange, waited, backoff, told>>

-----------------------------------------------------------------------------
(* recover_if_needed, shutdown_complete, should_treat_connect_error_as_... *)

\* pid_file_points_to_live_process: read_pid(pid_file)?
ReadPid(c, pid) ==
    /\ at[c] \in Asking
    /\ GoTo(c, CASE at[c] = "recover"     -> "recover probe"
                 [] at[c] = "not running" -> "not running probe"
                 [] at[c] = "pid gone"    -> "pid gone probe")
    /\ told' = [told EXCEPT ![c] = pid]
    /\ UNCHANGED <<op, peer, exchange, waited, backoff, result>>

\* ... and is_process_alive(pid), which the next three know as alive
Forget(c) == told' = [told EXCEPT ![c] = NoPid]

\* The client goes on to wait_for_ready.  The spawn that comes first, unless the
\* process is alive, belongs to Sockd.
Recover(c) ==
    /\ at[c] = "recover probe"
    /\ GoTo(c, "ready") /\ Forget(c)
    /\ UNCHANGED <<op, peer, exchange, waited, backoff, result>>

\* spawn_detached fails: its error is the result
SpawnFails(c) ==
    /\ at[c] = "recover probe"
    /\ Return(c, "io") /\ Forget(c)
    /\ UNCHANGED <<op, peer, exchange, waited, backoff>>

\* Mutant: the failed connect alone decides.
NotRunningUnasked(c, alive) ==
    /\ at[c] = "not running probe"
    /\ Return(c, "false") /\ Forget(c)
    /\ UNCHANGED <<op, peer, exchange, waited, backoff>>

\* shutdown could not connect: Ok(false), unless the PID file names a live
\* process
NotRunning(c, alive) ==
    /\ at[c] = "not running probe"
    /\ Return(c, IF alive THEN "io" ELSE "false") /\ Forget(c)
    /\ UNCHANGED <<op, peer, exchange, waited, backoff>>

\* Mutant: the deadline of wait_for_shutdown is never compared.
PollForever(c) ==
    /\ at[c] = "socket gone" => UNCHANGED at
    /\ at[c] = "pid gone probe" => GoTo(c, "socket gone")
    /\ UNCHANGED <<op, peer, exchange, waited, backoff, result>>

\* wait_for_shutdown: sleep and ask again, until the deadline
PollAgain(c) ==
    /\ IF waited[c] >= ShutdownTimeout
         THEN Return(c, "shutdown timeout") /\ UNCHANGED waited
         ELSE /\ waited' = [waited EXCEPT ![c] = @ + PollStep]
              /\ GoTo(c, "socket gone")
              /\ UNCHANGED result
    /\ UNCHANGED <<op, peer, exchange, backoff>>

\* shutdown_complete: fs::metadata(socket_path)
SocketGone(c, gone) ==
    /\ at[c] = "socket gone"
    /\ IF gone
         THEN GoTo(c, "pid gone") /\ UNCHANGED <<op, peer, exchange, waited, backoff, result>>
         ELSE PollAgain(c)
    /\ UNCHANGED told

\* Mutant: the end of the socket file is taken for the end of the daemon.
PidNotAsked(c, alive) ==
    /\ at[c] = "pid gone probe"
    /\ Return(c, "ok") /\ Forget(c)
    /\ UNCHANGED <<op, peer, exchange, waited, backoff>>

\* shutdown_complete: not complete as long as the process is alive
PidGone(c, alive) ==
    /\ at[c] = "pid gone probe"
    /\ Forget(c)
    /\ IF alive
         THEN PollAgain(c)
         ELSE Return(c, "ok") /\ UNCHANGED <<op, peer, exchange, waited, backoff>>
=============================================================================
