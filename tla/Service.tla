------------------------------ MODULE Service ------------------------------
(***************************************************************************)
(* What sockd promises to those who call it, without sockets, files or     *)
(* processes: the state of the daemon is a lease (Ownership); each call    *)
(* takes effect at one moment between its begin and its return, in a       *)
(* daemon that holds the lease, and what it returns tells the caller       *)
(* whether that happened.  A shutdown reports a moment as well: that at    *)
(* some time during the call nobody held the lease.  Of the time of its    *)
(* return it says nothing, another daemon may hold the lease by then.      *)
(*                                                                         *)
(* Sockd implements this specification (Sockd!ImplementsService, proved as *)
(* SockdProofs!SystemIsService).                                           *)
(***************************************************************************)
EXTENDS Naturals

CONSTANTS
    Daemons,        \* the processes that may run the daemon
    Clients,        \* the callers, each makes one call
    PidReaders      \* callers that know the PID file

VARIABLES
    owners,         \* the daemons whose state is alive
    contended,      \* TRUE if nothing is promised of the lease
    op,             \* op[c]: the call that c makes
    runs,           \* runs[c]: how often the request of c has been executed
    result,         \* result[c]: what the call returned
    free            \* callers who remember a moment without an owner in their call

calls == <<op, runs, result>>

Lease == INSTANCE Ownership

Init ==
    /\ Lease!Init
    /\ op = [c \in Clients |-> "none"]
    /\ runs = [c \in Clients |-> 0]
    /\ result = [c \in Clients |-> "none"]
    /\ free = {}

Pending(c) == op[c] # "none" /\ result[c] = "none"

Call(c, o) ==
    /\ op[c] = "none"
    /\ op' = [op EXCEPT ![c] = o]
    /\ UNCHANGED <<owners, contended, runs, result>>

\* The request of c takes effect, if it has not yet, in a daemon that is alive.
Execute(c) ==
    /\ Pending(c) /\ op[c] = "request" /\ runs[c] = 0
    /\ owners # {}
    /\ runs' = [runs EXCEPT ![c] = 1]
    /\ UNCHANGED <<owners, contended, op, result>>

\* What a call may return: an answer, of either kind, if the request was executed;
\* that no daemon became ready, if it was not; that the daemon is stopped or was not
\* running, if at some moment of the call nobody held the lease.  An error of another
\* kind leaves everything open.
Allowed(c, r) ==
    \/ r = "io"
    \/ op[c] = "request" /\ r \in {"ok", "daemon error"} /\ runs[c] = 1
    \/ op[c] = "request" /\ r = "ready timeout" /\ runs[c] = 0
    \/ op[c] = "ping" /\ r \in {"ok", "ready timeout"}
    \/ op[c] = "shutdown" /\ r = "shutdown timeout"
    \/ /\ op[c] = "shutdown" /\ r \in {"ok", "false"}
       /\ c \in PidReaders /\ ~contended => c \in free

Return(c, r) ==
    /\ Pending(c) /\ Allowed(c, r)
    /\ result' = [result EXCEPT ![c] = r]
    /\ UNCHANGED <<owners, contended, op, runs>>

Results == {"ok", "false", "daemon error", "io", "ready timeout", "shutdown timeout"}

\* The moments that callers remember are moments of their own calls.
Moments ==
    \A c \in free' \ free : Pending(c) /\ owners' = {}

Next ==
    /\ \/ Lease!Next /\ UNCHANGED calls
       \/ UNCHANGED <<owners, contended, calls>>
       \/ \E c \in Clients :
             \/ \E o \in {"request", "ping", "shutdown"} : Call(c, o)
             \/ Execute(c)
             \/ \E r \in Results : Return(c, r)
    /\ Moments

Spec == Init /\ [][Next]_<<owners, contended, calls, free>>
=============================================================================
