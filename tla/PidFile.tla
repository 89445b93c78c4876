------------------------------- MODULE PidFile -------------------------------
(***************************************************************************)
(* src/pidfile.rs: the claim of the PID file at startup and its removal    *)
(* when the guard is dropped, by any number of daemon processes that share *)
(* one path.                                                               *)
(*                                                                         *)
(* Every system call of PidGuard::claim is a step of its own, because the  *)
(* check (exists, read, kill 0) and the act (unlink, open O_EXCL, write)   *)
(* of two processes interleave freely.  What the path names is either a    *)
(* file left behind by an earlier run or the file that daemon d created;   *)
(* a daemon creates at most one file, so d also names that file.           *)
(***************************************************************************)
EXTENDS Naturals

CONSTANTS
    Daemons,        \* daemon processes; the pid of d is written d
    MaxAttempts,    \* 3 in the code: the bound of the claim loop
    Leftovers,      \* what may be at the path before the first startup
    Faults          \* which of "io", "crash", "recycle" the environment does

\* A file left behind: a number that is the pid of no daemon of this run, text
\* that is no number, bytes that are not UTF-8.
NoFile   == "no file"
OldPid   == "pid of an old process"
Garbage  == "text that is no number"
NotUtf8  == "bytes that are not UTF-8"
NoPid    == "no pid"
Specials == {NoFile, OldPid, Garbage, NotUtf8, NoPid}

Pids  == Daemons \union {OldPid}
Files == Daemons \union {NoFile, OldPid, Garbage, NotUtf8}

ASSUME ConstantsOK ==
    /\ Daemons \intersect Specials = {}
    /\ MaxAttempts \in Nat \ {0}
    /\ Leftovers \subseteq Files
    /\ Faults \subseteq {"io", "crash", "recycle"}

VARIABLES
    claim,      \* claim[d]: where d is in PidGuard::claim and after it
    attempt,    \* attempt[d]: the iteration of the claim loop
    seen,       \* seen[d]: the pid d read last
    file,       \* what the path names
    written,    \* daemons whose pid is in the file named after them
    recycled,   \* pids without a daemon for which kill(pid, 0) still succeeds
    overlap     \* history: two claims have been under way at the same time

vars == <<claim, attempt, seen, file, written, recycled, overlap>>

Steps == {"exists", "read", "probe", "remove", "create", "write", "exhausted"}
Ended == {"refused", "failed", "released"}

Claiming(d) == claim[d] \in Steps
Holding(d)  == claim[d] = "held"
Running(d)  == claim[d] \notin {"off", "gone"}

TypeOK ==
    /\ claim \in [Daemons -> Steps \union Ended \union {"off", "held", "gone"}]
    /\ attempt \in [Daemons -> 1..MaxAttempts]
    /\ seen \in [Daemons -> Pids \union {NoPid}]
    /\ file \in Files
    /\ written \in SUBSET Daemons
    /\ recycled \in SUBSET Pids
    /\ overlap \in BOOLEAN

Init ==
    /\ claim = [d \in Daemons |-> "off"]
    /\ attempt = [d \in Daemons |-> 1]
    /\ seen = [d \in Daemons |-> NoPid]
    /\ file \in Leftovers
    \* a leftover may hold the very pid that the kernel gives d this time
    /\ written = {file} \intersect Daemons
    /\ recycled = {}
    /\ overlap = FALSE

-----------------------------------------------------------------------------
(* The helpers of pidfile.rs. *)

\* Mutant: the number is parsed without trim, so the newline spoils it.
ReadablePidUntrimmed == NoPid

\* read_pid: the pid in the file; nothing when the file is missing, empty
\* (created but not yet written) or no number.  Bytes that are not UTF-8 are
\* an error of read_to_string and never reach the parser.
ReadablePid ==
    IF file \in written \union {OldPid} THEN file ELSE NoPid

\* Mutant: any error of kill counts as EPERM.
IsProcessAliveOnAnyError(pid) == TRUE

\* is_process_alive: kill(pid, 0) succeeds for every process, also for one
\* that is only ending, that is a zombie, or that took over the number.
IsProcessAlive(pid) ==
    \/ pid \in Daemons /\ Running(pid)
    \/ pid \in recycled

Goto(d, from, to) ==
    /\ claim[d] = from
    /\ claim' = [claim EXCEPT ![d] = to]

-----------------------------------------------------------------------------
(* PidGuard::claim, one system call at a time. *)

\* Entry into claim: the parent directory is created, the loop is entered.
Start(d) ==
    /\ Goto(d, "off", "exists")
    /\ overlap' = (overlap \/ \E e \in Daemons : Claiming(e))
    /\ UNCHANGED <<attempt, seen, file, written, recycled>>

\* path.exists()
CheckExists(d) ==
    /\ Goto(d, "exists", IF file = NoFile THEN "create" ELSE "read")
    /\ UNCHANGED <<attempt, seen, file, written, recycled, overlap>>

\* read_pid(path)?
Read(d) ==
    /\ IF file = NotUtf8
         THEN Goto(d, "read", "failed") /\ UNCHANGED seen
         ELSE /\ Goto(d, "read", IF ReadablePid = NoPid THEN "remove" ELSE "probe")
              /\ seen' = [seen EXCEPT ![d] = ReadablePid]
    /\ UNCHANGED <<attempt, file, written, recycled, overlap>>

\* Mutant: the guard is made before the loop, and dropped when claim refuses.
ProbeDropsGuard(d) ==
    /\ IF IsProcessAlive(seen[d])
         THEN Goto(d, "probe", "refused") /\ file' = NoFile
         ELSE Goto(d, "probe", "remove") /\ UNCHANGED file
    /\ UNCHANGED <<attempt, seen, written, recycled, overlap>>

\* is_process_alive(pid): a live process ends the claim, nobody is killed
Probe(d) ==
    /\ Goto(d, "probe", IF IsProcessAlive(seen[d]) THEN "refused" ELSE "remove")
    /\ UNCHANGED <<attempt, seen, file, written, recycled, overlap>>

\* Mutant: the stale file is left where it is.
RemoveForgotten(d) ==
    /\ Goto(d, "remove", "create")
    /\ UNCHANGED <<attempt, seen, file, written, recycled, overlap>>

\* remove_if_exists(path): whatever the path names by now; NotFound is fine
Remove(d) ==
    /\ Goto(d, "remove", "create")
    /\ file' = NoFile
    /\ UNCHANGED <<attempt, seen, written, recycled, overlap>>

\* open with create_new: an empty file, if the path is free
Create(d) ==
    /\ file = NoFile
    /\ Goto(d, "create", "write")
    /\ file' = d
    /\ written' = written \ {d}
    /\ UNCHANGED <<attempt, seen, recycled, overlap>>

\* Mutant: the loop has no bound.
CreateLostUnbounded(d) ==
    /\ file # NoFile
    /\ Goto(d, "create", "exists")
    /\ attempt' = [attempt EXCEPT ![d] = @ + 1]
    /\ UNCHANGED <<seen, file, written, recycled, overlap>>

\* create_new fails with AlreadyExists: the next attempt, if one is left
CreateLost(d) ==
    /\ file # NoFile
    /\ IF attempt[d] < MaxAttempts
         THEN Goto(d, "create", "exists") /\ attempt' = [attempt EXCEPT ![d] = @ + 1]
         ELSE Goto(d, "create", "exhausted") /\ UNCHANGED attempt
    /\ UNCHANGED <<seen, file, written, recycled, overlap>>

\* writeln! of the pid and flush, into the file d created, wherever it is now
Write(d) ==
    /\ Goto(d, "write", "held")
    /\ written' = written \union {d}
    /\ UNCHANGED <<attempt, seen, file, recycled, overlap>>

\* after the loop: the error reports the pid now in the file, if it is readable
GiveUp(d) ==
    /\ Goto(d, "exhausted", IF file = NotUtf8 THEN "failed" ELSE "refused")
    /\ seen' = [seen EXCEPT ![d] = IF file = NotUtf8 THEN @ ELSE ReadablePid]
    /\ UNCHANGED <<attempt, file, written, recycled, overlap>>

\* Any call that can fail does: claim returns Err(Io) and leaves what there is.
\* A file whose write failed stays, empty, and no guard exists to remove it.
ClaimFails(d) ==
    /\ "io" \in Faults
    /\ Claiming(d) /\ claim[d] # "probe"
    /\ claim' = [claim EXCEPT ![d] = "failed"]
    /\ UNCHANGED <<attempt, seen, file, written, recycled, overlap>>

ClaimStep(d) ==
    \/ CheckExists(d) \/ Read(d) \/ Probe(d) \/ Remove(d)
    \/ Create(d) \/ CreateLost(d) \/ Write(d) \/ GiveUp(d)
    \/ ClaimFails(d)

\* PidGuard::drop: remove_file(path), whoever the file belongs to by now; if it
\* fails the error is ignored and the file stays
Drop(d) ==
    /\ Goto(d, "held", "released")
    /\ file' = NoFile \/ ("io" \in Faults /\ file' = file)
    /\ UNCHANGED <<attempt, seen, written, recycled, overlap>>

-----------------------------------------------------------------------------
(* The processes. *)

\* The process ends after its guard, or after a failed claim.
Exit(d) ==
    /\ claim[d] \in Ended
    /\ claim' = [claim EXCEPT ![d] = "gone"]
    /\ UNCHANGED <<attempt, seen, file, written, recycled, overlap>>

\* SIGKILL, abort, power loss: no guard is dropped, the file stays.
Crash(d) ==
    /\ "crash" \in Faults
    /\ Claiming(d) \/ Holding(d)
    /\ claim' = [claim EXCEPT ![d] = "gone"]
    /\ UNCHANGED <<attempt, seen, file, written, recycled, overlap>>

\* The number of a dead daemon answers kill(pid, 0): a zombie that its parent
\* (a client that spawned it and never waits) has not reaped, or another
\* process that was given the number.
Recycle(p) ==
    /\ "recycle" \in Faults
    /\ p \in Daemons => claim[p] = "gone"
    /\ p \notin recycled
    /\ recycled' = recycled \union {p}
    /\ UNCHANGED <<claim, attempt, seen, file, written, overlap>>

Vanish(p) ==
    /\ p \in recycled
    /\ recycled' = recycled \ {p}
    /\ UNCHANGED <<claim, attempt, seen, file, written, overlap>>

Next ==
    \/ \E d \in Daemons : Start(d) \/ ClaimStep(d) \/ Drop(d) \/ Exit(d) \/ Crash(d)
    \/ \E p \in Pids : Recycle(p) \/ Vanish(p)

Spec == Init /\ [][Next]_vars

-----------------------------------------------------------------------------
(* What the PID file is for. *)

\* Two daemons never hold the PID file together, as long as no two startups
\* were ever under way at the same time: PidGuard::claim (pidfile.rs:16-40)
\* refuses beside a live owner, and neither a crash in the middle of a claim,
\* nor the empty file it leaves, nor a later PidGuard::drop breaks that.
\* (OwnershipSpec implies it, so that runs check that.)
ExclusiveUnlessOverlap ==
    ~overlap => \A d, e \in Daemons : Holding(d) /\ Holding(e) => d = e

\* While a daemon holds the guard the path names its own file, with its pid in
\* it (pidfile.rs:29-33).  So the unconditional remove_file of PidGuard::drop
\* (pidfile.rs:51) removes no other daemon's file, and a client that reads the
\* file finds the daemon.
FileNamesHolder ==
    ~overlap => \A d \in Daemons : Holding(d) => file = d /\ d \in written

\* The retries of the claim loop (pidfile.rs:16, 37) serve concurrent startups
\* only: a startup that meets just leftovers, dead owners and a live owner
\* settles in its first iteration, and gives up after the last one only if it
\* really raced with another.
RetryNeedsOverlap ==
    ~overlap => \A d \in Daemons : attempt[d] = 1 /\ claim[d] # "exhausted"

\* A startup is refused only beside another one that is past the checks of its
\* claim, has failed, or is over (pidfile.rs:21, 42): racing startups never all
\* refuse each other.  A startup that failed may have done so before it created
\* the file; the property does not tell those apart.  A number that kill(pid, 0)
\* finds alive though no daemon has it is exempt: such a startup is refused beside
\* nobody.  (A leftover may also hold the number of a daemon to come; the run that
\* checks this starts without those.)
RefusedByAnother ==
    [][\A d \in Daemons : claim[d] # "refused" /\ claim'[d] = "refused" =>
          \/ \E e \in Daemons \ {d} :
                claim[e] \in {"write", "held", "released", "failed", "gone"}
          \/ seen[d] \in recycled]_vars

\* The PID file implements a lease.
Lease == INSTANCE Ownership WITH
    owners    <- {d \in Daemons : Holding(d)},
    contended <- overlap

\* Every behaviour of the PID file is one of the lease: a daemon enters only
\* when no other holds, whatever happens between its system calls
\* (PidGuard::claim and PidGuard::drop as a whole).
OwnershipSpec == Lease!Spec

-----------------------------------------------------------------------------
(* What the documentation says and the code does not do. *)

\* docs/LIFECYCLE.md:9-11: the PID is written atomically, a second daemon
\* fails, and concurrent startups are handled by retrying.  The file is created
\* empty first, and removed by a path that another startup has taken since.
Exclusive ==
    \A d, e \in Daemons : Holding(d) /\ Holding(e) => d = e
=============================================================================
