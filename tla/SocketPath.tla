----------------------------- MODULE SocketPath -----------------------------
(***************************************************************************)
(* src/socket.rs: bind, with its probe for a live daemon and its removal   *)
(* of a stale socket file, the end of the listener, and cleanup, by any    *)
(* number of daemon processes that share one socket path.                  *)
(*                                                                         *)
(* Every system call is a step.  UnixListener::bind is two of them: after  *)
(* bind(2) the path names a socket, but until listen(2) a connection to it *)
(* is refused, exactly as for the socket file of a dead daemon.            *)
(***************************************************************************)
EXTENDS Naturals

CONSTANTS
    Daemons,        \* daemon processes; the socket that d creates is named d
    OldSockets,     \* what may be at the path before the first startup
    IoFaults        \* TRUE if any call may fail

NoSocket == "nothing"
Regular  == "a file that is no socket"
Stale    == "socket file of a process that is gone"

Sockets == Daemons \union {NoSocket, Regular, Stale}

\* What the constants must be; DaemonRun assumes it.
SocketConstants ==
    /\ Daemons \intersect {NoSocket, Regular, Stale} = {}
    /\ OldSockets \subseteq {NoSocket, Regular, Stale}
    /\ IoFaults \in BOOLEAN

VARIABLES
    sock,       \* sock[d]: where d is in bind, and the life of its listener
    path,       \* what the socket path names
    probed      \* listeners with the probe connection of another bind queued

socketVars == <<sock, path, probed>>

Binding == {"exists", "stat", "connect", "remove", "bind", "listen"}

SocketTypeOK ==
    /\ sock \in [Daemons -> Binding \union
                    {"off", "failed", "serving", "closed", "cleaned", "gone"}]
    /\ path \in Sockets
    /\ probed \in SUBSET Daemons

SocketInit ==
    /\ sock = [d \in Daemons |-> "off"]
    /\ path \in OldSockets
    /\ probed = {}

\* Sockets that accept connections into their backlog.
Listening == {d \in Daemons : sock[d] = "serving"}

Move(d, from, to) ==
    /\ sock[d] = from
    /\ sock' = [sock EXCEPT ![d] = to]

-----------------------------------------------------------------------------
(* bind *)

\* bind is called; the parent directory exists or is created
BeginBind(d) ==
    /\ Move(d, "off", "exists")
    /\ UNCHANGED <<path, probed>>

\* path.exists()
PathExists(d) ==
    /\ Move(d, "exists", IF path = NoSocket THEN "bind" ELSE "stat")
    /\ UNCHANGED <<path, probed>>

\* symlink_metadata(path)?: gone by now, or no socket, is an error
Stat(d) ==
    /\ Move(d, "stat", IF path \in {NoSocket, Regular} THEN "failed" ELSE "connect")
    /\ UNCHANGED <<path, probed>>

\* Mutant: bind waits for the daemon it found instead of giving up.
ProbeWaits(d) ==
    /\ Move(d, "connect", IF path \in Listening THEN "exists" ELSE "remove")
    /\ UNCHANGED <<path, probed>>

\* UnixStream::connect(path): success means a live daemon, and queues a
\* connection there that is closed at once; refused and NotFound mean stale
ProbeConnect(d) ==
    /\ Move(d, "connect", IF path \in Listening THEN "failed" ELSE "remove")
    /\ probed' = probed \union ({path} \intersect Listening)
    /\ UNCHANGED path

\* fs::remove_file(path)?: whatever the path names by now; NotFound is an error
RemoveStale(d) ==
    /\ Move(d, "remove", IF path = NoSocket THEN "failed" ELSE "bind")
    /\ path' = NoSocket
    /\ UNCHANGED probed

\* bind(2) in UnixListener::bind: AddrInUse if the path is taken
BindPath(d) ==
    /\ IF path = NoSocket
         THEN Move(d, "bind", "listen") /\ path' = d
         ELSE Move(d, "bind", "failed") /\ UNCHANGED path
    /\ UNCHANGED probed

\* listen(2) in UnixListener::bind, set_nonblocking
Listen(d) ==
    /\ Move(d, "listen", "serving")
    /\ UNCHANGED <<path, probed>>

\* Any call fails: what there is at the path stays there.
BindFails(d) ==
    /\ IoFaults
    /\ sock[d] \in Binding
    /\ sock' = [sock EXCEPT ![d] = "failed"]
    /\ UNCHANGED <<path, probed>>

BindStep(d) ==
    \/ PathExists(d) \/ Stat(d) \/ ProbeConnect(d) \/ RemoveStale(d)
    \/ BindPath(d) \/ Listen(d) \/ BindFails(d)

-----------------------------------------------------------------------------
(* The end of the listener. *)

\* drop(listener): the backlog is gone, the path stays
CloseListener(d) ==
    /\ Move(d, "serving", "closed")
    /\ probed' = probed \ {d}
    /\ UNCHANGED path

\* cleanup: remove_file, whatever the path names by now; NotFound is fine
Cleanup(d) ==
    /\ Move(d, "closed", "cleaned")
    /\ path' = NoSocket
    /\ UNCHANGED probed

\* remove_file fails for another reason
CleanupFails(d) ==
    /\ IoFaults
    /\ Move(d, "closed", "cleaned")
    /\ UNCHANGED <<path, probed>>

\* The process ends: the kernel closes its listener, the path stays.
SocketGone(d) ==
    /\ sock[d] # "gone"
    /\ sock' = [sock EXCEPT ![d] = "gone"]
    /\ probed' = probed \ {d}
    /\ UNCHANGED path
=============================================================================
