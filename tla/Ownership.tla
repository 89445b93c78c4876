------------------------------ MODULE Ownership ------------------------------
(***************************************************************************)
(* What the PID file of sockd promises, without files: a lease on "being   *)
(* the daemon" that at most one process holds, until two startups have     *)
(* once run at the same time.  From then on (contended) nothing is         *)
(* promised any more: PidFile shows why nothing can be.                    *)
(*                                                                         *)
(* PidFile implements this specification, with the PID file as the lease   *)
(* (PidFile!OwnershipSpec, proved as PidFileProofs!ImplementsOwnership),   *)
(* and so does DaemonRun, with the application state of the daemon as the  *)
(* lease (DaemonRun!WarmOwnership, DaemonRunProofs!StateIsALease).         *)
(***************************************************************************)
CONSTANT Daemons        \* the processes that may run the daemon

VARIABLES
    owners,             \* the processes that hold the lease
    contended           \* TRUE once two startups have overlapped

\* A configuration may give up the promise from the start.
Init ==
    /\ owners = {}
    /\ contended \in BOOLEAN

\* A startup begins while another one is under way.
Contend ==
    /\ contended' = TRUE
    /\ UNCHANGED owners

\* A startup succeeds.  Unless startups overlapped, nobody holds the lease.
Acquire(d) ==
    /\ d \notin owners
    /\ contended \/ owners = {}
    /\ owners' = owners \union {d}
    /\ UNCHANGED contended

\* The holder leaves: it drops its guard, or it dies.
Release(d) ==
    /\ d \in owners
    /\ owners' = owners \ {d}
    /\ UNCHANGED contended

Next ==
    \/ Contend
    \/ \E d \in Daemons : Acquire(d) \/ Release(d)

Spec == Init /\ [][Next]_<<owners, contended>>
=============================================================================
