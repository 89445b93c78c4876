---------------------------- MODULE PidFileProofs ----------------------------
(***************************************************************************)
(* What the PID file guarantees for any number of daemons, any bound on    *)
(* the retries, any leftover and all faults.                               *)
(*                                                                         *)
(* The argument: as long as no two startups overlapped, at most one claim  *)
(* is under way.  A claim that has passed its checks (remove, create,      *)
(* write) runs beside no holder, because a holder's file holds its pid,    *)
(* the claim read that pid, and the holder is alive; and between two steps *)
(* of that one claim nobody but a leaving holder touches the path.  Quiet  *)
(* spells this out per program point.                                      *)
(***************************************************************************)
EXTENDS PidFile, TLAPS

OneClaim == \A d, e \in Daemons : Claiming(d) /\ Claiming(e) => d = e

FirstAttempt == \A d \in Daemons : attempt[d] = 1 /\ claim[d] # "exhausted"

HolderOwnsPath == \A d \in Daemons : Holding(d) => file = d /\ d \in written

\* A claim past its checks runs beside no holder.
ClaimBesideNobody ==
    \A d, e \in Daemons : claim[d] \in {"remove", "create", "write"} => ~Holding(e)

\* The claim that is about to kill(pid, 0) has the pid of the holder.
ProbesHolder ==
    \A d, e \in Daemons : claim[d] = "probe" /\ Holding(e) => seen[d] = e

\* Between the check and the creation the path stays free, then it is d's.
PathReserved ==
    \A d \in Daemons :
        /\ claim[d] = "create" => file = NoFile
        /\ claim[d] = "write" => file = d

Quiet == OneClaim /\ FirstAttempt /\ HolderOwnsPath /\ ClaimBesideNobody
         /\ ProbesHolder /\ PathReserved

IInv == TypeOK /\ (~overlap => Quiet)

\* The special contents are strings that are no daemon and differ pairwise.
LEMMA SpecialsDiffer ==
    /\ Daemons \intersect Specials = {}
    /\ NoFile \notin Daemons /\ OldPid \notin Daemons /\ NoPid \notin Daemons
    /\ Garbage \notin Daemons /\ NotUtf8 \notin Daemons
    /\ NoFile # OldPid /\ NoFile # NoPid /\ OldPid # NoPid /\ NotUtf8 # OldPid
BY ConstantsOK DEF ConstantsOK, Specials, NoFile, OldPid, NoPid, Garbage, NotUtf8

\* The states before the first startup have the right type.
LEMMA TypeInit == Init => TypeOK
<1> SUFFICES ASSUME Init PROVE TypeOK
    OBVIOUS
<1>1. attempt \in [Daemons -> 1..MaxAttempts]
    BY ConstantsOK DEF ConstantsOK, Init
<1>2. written \in SUBSET Daemons /\ recycled \in SUBSET Pids
    BY DEF Init
<1>3. file \in Files
    BY ConstantsOK DEF ConstantsOK, Init
<1> QED BY <1>1, <1>2, <1>3 DEF Init, TypeOK, Steps

\* Type correctness is preserved by every step of pidfile.rs and of the
\* processes around it.
LEMMA TypeStep == TypeOK /\ [Next]_vars => TypeOK'
<1> SUFFICES ASSUME TypeOK, [Next]_vars PROVE TypeOK'
    OBVIOUS
<1> USE ConstantsOK DEF ConstantsOK, TypeOK, Steps, Ended, Files, Pids, Goto
<1>1. ASSUME NEW d \in Daemons, Start(d) PROVE TypeOK'
    BY <1>1 DEF Start
<1>2. ASSUME NEW d \in Daemons, ClaimStep(d) PROVE TypeOK'
    <2>1. CASE CheckExists(d) BY <2>1 DEF CheckExists
    <2>2. CASE Read(d)
        <3>1. ReadablePid \in Pids \union {NoPid}
            BY DEF ReadablePid
        <3> QED BY <2>2, <3>1 DEF Read
    <2>3. CASE Probe(d) BY <2>3 DEF Probe
    <2>4. CASE Remove(d) BY <2>4 DEF Remove
    <2>5. CASE Create(d) BY <2>5 DEF Create
    <2>6. CASE CreateLost(d) BY <2>6 DEF CreateLost
    <2>7. CASE Write(d) BY <2>7 DEF Write
    <2>8. CASE GiveUp(d)
        <3>1. ReadablePid \in Pids \union {NoPid}
            BY DEF ReadablePid
        <3> QED BY <2>8, <3>1 DEF GiveUp
    <2>9. CASE ClaimFails(d) BY <2>9 DEF ClaimFails
    <2> QED BY <1>2, <2>1, <2>2, <2>3, <2>4, <2>5, <2>6, <2>7, <2>8, <2>9
            DEF ClaimStep
<1>3. ASSUME NEW d \in Daemons, Drop(d) PROVE TypeOK'
    BY <1>3 DEF Drop
<1>4. ASSUME NEW d \in Daemons, Exit(d) PROVE TypeOK'
    BY <1>4 DEF Exit
<1>5. ASSUME NEW d \in Daemons, Crash(d) PROVE TypeOK'
    BY <1>5 DEF Crash
<1>6. ASSUME NEW p \in Pids, Recycle(p) PROVE TypeOK'
    BY <1>6 DEF Recycle
<1>7. ASSUME NEW p \in Pids, Vanish(p) PROVE TypeOK'
    BY <1>7 DEF Vanish
<1>8. CASE UNCHANGED vars
    BY <1>8 DEF vars
<1> QED BY <1>1, <1>2, <1>3, <1>4, <1>5, <1>6, <1>7, <1>8 DEF Next

\* Every variable of the PID file model keeps its type, for every number of
\* daemons and every set of leftovers and faults (pidfile.rs as a whole).
THEOREM TypeCorrect == Spec => []TypeOK
BY TypeInit, TypeStep, PTL DEF Spec

-----------------------------------------------------------------------------
(* Each step preserves IInv.  Only a run of startups that never overlapped  *)
(* is to be looked at: overlap never falls back to FALSE.                   *)

\* Before the first startup nobody claims and nobody holds.
LEMMA InitIInv == Init => IInv
<1> SUFFICES ASSUME Init PROVE Quiet
    BY TypeInit DEF IInv
<1> QED BY DEF Init, Quiet, OneClaim, FirstAttempt, HolderOwnsPath,
    ClaimBesideNobody, ProbesHolder, PathReserved, Claiming, Holding, Steps

\* Start (pidfile.rs:11-16): a claim begins beside no other, or overlap is set.
LEMMA StartKeepsQuiet ==
    ASSUME TypeOK, NEW d \in Daemons, Start(d), ~overlap', Quiet
    PROVE  Quiet'
<1>1. \A e \in Daemons : ~Claiming(e)
    BY DEF Start, TypeOK
<1> QED BY <1>1 DEF Start, Goto, TypeOK, Quiet, OneClaim, FirstAttempt, HolderOwnsPath,
    ClaimBesideNobody, ProbesHolder, PathReserved, Claiming, Holding, Steps

\* One system call of the claim (pidfile.rs:17-45) keeps Quiet: the claim is
\* alone, and what it read before still holds.
LEMMA ClaimKeepsQuiet ==
    ASSUME TypeOK, NEW d \in Daemons, ClaimStep(d), ~overlap', Quiet
    PROVE  Quiet'
<1> USE SpecialsDiffer DEF Goto, Claiming, Holding, Steps, TypeOK
<1>1. ~overlap /\ Claiming(d)
    BY DEF ClaimStep, CheckExists, Read, Probe, Remove, Create, CreateLost,
           Write, GiveUp, ClaimFails
<1>2. \A e \in Daemons : e # d => ~Claiming(e)
    BY <1>1 DEF Quiet, OneClaim
<1>3. CASE CheckExists(d)
    BY <1>1, <1>2, <1>3 DEF CheckExists, Quiet, OneClaim, FirstAttempt,
       HolderOwnsPath, ClaimBesideNobody, ProbesHolder, PathReserved
<1>4. CASE Read(d)
    BY <1>1, <1>2, <1>4 DEF Read, ReadablePid, Quiet, OneClaim, FirstAttempt,
       HolderOwnsPath, ClaimBesideNobody, ProbesHolder, PathReserved
<1>5. CASE Probe(d)
    BY <1>1, <1>2, <1>5 DEF Probe, IsProcessAlive, Running, Quiet, OneClaim,
       FirstAttempt, HolderOwnsPath, ClaimBesideNobody, ProbesHolder, PathReserved
<1>6. CASE Remove(d)
    BY <1>1, <1>2, <1>6 DEF Remove, Quiet, OneClaim, FirstAttempt,
       HolderOwnsPath, ClaimBesideNobody, ProbesHolder, PathReserved
<1>7. CASE Create(d)
    BY <1>1, <1>2, <1>7 DEF Create, Quiet, OneClaim, FirstAttempt,
       HolderOwnsPath, ClaimBesideNobody, ProbesHolder, PathReserved
<1>8. CASE CreateLost(d)
    BY <1>8 DEF CreateLost, Quiet, PathReserved
<1>9. CASE Write(d)
    BY <1>1, <1>2, <1>9 DEF Write, Quiet, OneClaim, FirstAttempt,
       HolderOwnsPath, ClaimBesideNobody, ProbesHolder, PathReserved
<1>10. CASE GiveUp(d)
    BY <1>10 DEF GiveUp, Quiet, FirstAttempt
<1>11. CASE ClaimFails(d)
    BY <1>1, <1>2, <1>11 DEF ClaimFails, Quiet, OneClaim, FirstAttempt,
       HolderOwnsPath, ClaimBesideNobody, ProbesHolder, PathReserved
<1> QED BY <1>3, <1>4, <1>5, <1>6, <1>7, <1>8, <1>9, <1>10, <1>11 DEF ClaimStep

\* A daemon that leaves, by PidGuard::drop (pidfile.rs:49-53), at the end of
\* its process or by a crash, keeps Quiet.
LEMMA LeaveKeepsQuiet ==
    ASSUME TypeOK, NEW d \in Daemons, Drop(d) \/ Exit(d) \/ Crash(d), Quiet
    PROVE  Quiet'
<1> USE SpecialsDiffer DEF Goto, Claiming, Holding, Steps, Ended, TypeOK
<1>1. CASE Drop(d)
    <2>1. \A e \in Daemons : Holding(e) => e = d
        BY <1>1 DEF Drop, Quiet, HolderOwnsPath
    <2>2. \A e \in Daemons : claim[e] # "write"
        BY <1>1 DEF Drop, Quiet, ClaimBesideNobody
    <2> QED BY <1>1, <2>1, <2>2 DEF Drop, Quiet, OneClaim, FirstAttempt,
        HolderOwnsPath, ClaimBesideNobody, ProbesHolder, PathReserved
<1>2. CASE Exit(d)
    BY <1>2 DEF Exit, Quiet, OneClaim, FirstAttempt, HolderOwnsPath,
       ClaimBesideNobody, ProbesHolder, PathReserved
<1>3. CASE Crash(d)
    BY <1>3 DEF Crash, Quiet, OneClaim, FirstAttempt, HolderOwnsPath,
       ClaimBesideNobody, ProbesHolder, PathReserved
<1> QED BY <1>1, <1>2, <1>3

\* Every step of the PID file and of its environment preserves IInv.
LEMMA StepIInv == IInv /\ [Next]_vars => IInv'
<1> SUFFICES ASSUME IInv, [Next]_vars, ~overlap' PROVE Quiet'
    BY TypeStep DEF IInv
<1> USE DEF IInv
<1>1. ~overlap
    BY DEF Next, vars, Start, ClaimStep, CheckExists, Read, Probe, Remove, Create,
       CreateLost, Write, GiveUp, ClaimFails, Drop, Exit, Crash, Recycle, Vanish
<1>2. ASSUME NEW d \in Daemons, Start(d) PROVE Quiet'
    BY <1>1, <1>2, StartKeepsQuiet
<1>3. ASSUME NEW d \in Daemons, ClaimStep(d) PROVE Quiet'
    BY <1>1, <1>3, ClaimKeepsQuiet
<1>4. ASSUME NEW d \in Daemons, Drop(d) \/ Exit(d) \/ Crash(d) PROVE Quiet'
    BY <1>1, <1>4, LeaveKeepsQuiet
<1>5. CASE UNCHANGED <<claim, attempt, seen, file, written, overlap>>
    BY <1>1, <1>5 DEF Quiet, OneClaim, FirstAttempt, HolderOwnsPath,
       ClaimBesideNobody, ProbesHolder, PathReserved, Claiming, Holding
<1> QED BY <1>2, <1>3, <1>4, <1>5 DEF Next, vars, Recycle, Vanish

\* IInv holds in every state the PID file reaches.
THEOREM InductiveInvariant == Spec => []IInv
BY InitIInv, StepIInv, PTL DEF Spec

-----------------------------------------------------------------------------
(* What follows from IInv. *)

\* Two daemons never hold the PID file together unless two startups overlapped
\* (PidGuard::claim, pidfile.rs:16-40).
THEOREM OwnerIsExclusive == Spec => []ExclusiveUnlessOverlap
<1>1. IInv => ExclusiveUnlessOverlap
    BY DEF IInv, Quiet, HolderOwnsPath, ExclusiveUnlessOverlap
<1> QED BY <1>1, InductiveInvariant, PTL

\* The path names the holder's own file, with its pid, so that PidGuard::drop
\* (pidfile.rs:51) removes its own file and a reader finds the holder.
THEOREM PathNamesHolder == Spec => []FileNamesHolder
<1>1. IInv => FileNamesHolder
    BY DEF IInv, Quiet, HolderOwnsPath, FileNamesHolder
<1> QED BY <1>1, InductiveInvariant, PTL

\* A claim retries, and runs out of attempts (pidfile.rs:37, 42), only in a
\* race with another startup.
THEOREM RetriesNeedRaces == Spec => []RetryNeedsOverlap
<1>1. IInv => RetryNeedsOverlap
    BY DEF IInv, Quiet, FirstAttempt, RetryNeedsOverlap
<1> QED BY <1>1, InductiveInvariant, PTL

\* The PID file, with all its system calls, implements the lease of Ownership.
THEOREM ImplementsOwnership == Spec => OwnershipSpec
<1> DEFINE owners == {d \in Daemons : Holding(d)}
<1>1. Init => Lease!Init
    BY DEF Init, Lease!Init, Holding
<1>2. IInv /\ [Next]_vars => [Lease!Next]_<<owners, overlap>>
    <2> SUFFICES ASSUME IInv, [Next]_vars
                 PROVE  [Lease!Next]_<<owners, overlap>>
        OBVIOUS
    <2> USE DEF IInv, TypeOK, Holding, Goto, Lease!Next
    <2>1. ASSUME NEW d \in Daemons, Start(d)
          PROVE  Lease!Contend \/ UNCHANGED <<owners, overlap>>
        <3>1. UNCHANGED owners
            BY <2>1 DEF Start
        <3> QED BY <2>1, <3>1 DEF Start, Lease!Contend
    <2>2. ASSUME NEW d \in Daemons, Write(d)
          PROVE  Lease!Acquire(d)
        <3>1. overlap \/ owners = {}
            BY <2>2 DEF Write, Quiet, ClaimBesideNobody
        <3>2. owners' = owners \union {d} /\ d \notin owners
            BY <2>2 DEF Write
        <3> QED BY <2>2, <3>1, <3>2 DEF Write, Lease!Acquire
    <2>3. ASSUME NEW d \in Daemons, ClaimStep(d), ~Write(d)
          PROVE  UNCHANGED <<owners, overlap>>
        BY <2>3 DEF ClaimStep, CheckExists, Read, Probe, Remove, Create,
           CreateLost, GiveUp, ClaimFails, Claiming, Steps
    <2>4. ASSUME NEW d \in Daemons, Drop(d) \/ (Crash(d) /\ Holding(d))
          PROVE  Lease!Release(d)
        BY <2>4 DEF Drop, Crash, Lease!Release
    <2>5. ASSUME NEW d \in Daemons, Exit(d) \/ (Crash(d) /\ ~Holding(d))
          PROVE  UNCHANGED <<owners, overlap>>
        BY <2>5 DEF Exit, Crash, Ended
    <2>6. CASE UNCHANGED <<claim, overlap>>
        BY <2>6
    <2> QED BY <2>1, <2>2, <2>3, <2>4, <2>5, <2>6 DEF Next, vars, Recycle, Vanish
<1>3. QED
    BY <1>1, <1>2, InductiveInvariant, PTL DEF Spec, OwnershipSpec, Lease!Spec

-----------------------------------------------------------------------------
(* Why racing startups never all refuse each other.                        *)

\* The daemons that have created the file once: there is no way back.
Created == {d \in Daemons : claim[d] \in {"write", "held", "released", "failed", "gone"}}

\* A claim meets another's number, or a path that another took, only after that
\* other has created the file.
MetByAnother ==
    /\ file \in Daemons => file \in Created
    /\ \A d \in Daemons :
        /\ claim[d] = "probe" => seen[d] \in Created \union {OldPid}
        /\ claim[d] = "create" => file \in Daemons \union {NoFile}
        /\ claim[d] = "exhausted" => Created \ {d} # {}

\* Before the first startup there is no number of a daemon to meet.
LEMMA InitMet ==
    ASSUME Leftovers \intersect Daemons = {}, Init
    PROVE  MetByAnother
BY DEF Init, MetByAnother, Created, Steps

\* Creators stay creators, and every number that a claim reads is one of them.
LEMMA StepMet ==
    ASSUME TypeOK, MetByAnother, [Next]_vars
    PROVE  MetByAnother' /\ Created \subseteq Created'
<1> USE SpecialsDiffer DEF TypeOK, Goto, Created, MetByAnother, Steps, Ended
<1>1. ASSUME NEW d \in Daemons, Start(d) PROVE MetByAnother' /\ Created \subseteq Created'
    BY <1>1 DEF Start
<1>2. ASSUME NEW d \in Daemons, ClaimStep(d) PROVE MetByAnother' /\ Created \subseteq Created'
    <2>1. CASE CheckExists(d) BY <2>1 DEF CheckExists
    <2>2. CASE Read(d) BY <2>2 DEF Read, ReadablePid
    <2>3. CASE Probe(d) BY <2>3 DEF Probe
    <2>4. CASE Remove(d) BY <2>4 DEF Remove
    <2>5. CASE Create(d) BY <2>5 DEF Create
    <2>6. CASE CreateLost(d) BY <2>6 DEF CreateLost
    <2>7. CASE Write(d) BY <2>7 DEF Write
    <2>8. CASE GiveUp(d) BY <2>8 DEF GiveUp
    <2>9. CASE ClaimFails(d) BY <2>9 DEF ClaimFails, Claiming
    <2> QED BY <1>2, <2>1, <2>2, <2>3, <2>4, <2>5, <2>6, <2>7, <2>8, <2>9 DEF ClaimStep
<1>3. ASSUME NEW d \in Daemons, Drop(d) \/ Exit(d) \/ Crash(d)
      PROVE  MetByAnother' /\ Created \subseteq Created'
    BY <1>3 DEF Drop, Exit, Crash, Claiming, Holding
<1>4. CASE UNCHANGED <<claim, seen, file>>
    BY <1>4
<1> QED BY <1>1, <1>2, <1>3, <1>4 DEF Next, vars, Recycle, Vanish

\* A startup is refused beside another that has created the file, or by a number
\* that another process has (pidfile.rs:21, 42), if the path starts without the
\* number of a daemon to come: racing startups never all refuse each other.
THEOREM RefusalsNeedAnother ==
    ASSUME Leftovers \intersect Daemons = {}
    PROVE  Spec => RefusedByAnother
<1> DEFINE Beside(d) == \/ \E e \in Daemons \ {d} : e \in Created
                        \/ seen[d] \in recycled
           Refusal   == \A d \in Daemons :
                            claim[d] # "refused" /\ claim'[d] = "refused" => Beside(d)
<1>1. Init => MetByAnother
    BY InitMet
<1>2. TypeOK /\ MetByAnother /\ [Next]_vars => MetByAnother'
    BY StepMet
<1>3. TypeOK /\ MetByAnother /\ [Next]_vars => [Refusal]_vars
    <2> SUFFICES ASSUME TypeOK, MetByAnother, Next,
                        NEW d \in Daemons, claim[d] # "refused", claim'[d] = "refused"
                 PROVE  Beside(d)
        OBVIOUS
    <2>1. (Probe(d) /\ IsProcessAlive(seen[d])) \/ GiveUp(d)
        BY DEF Next, Start, ClaimStep, CheckExists, Read, Probe, Remove, Create, CreateLost,
               Write, GiveUp, ClaimFails, Drop, Exit, Crash, Recycle, Vanish, Goto, TypeOK
    <2>2. CASE Probe(d) /\ IsProcessAlive(seen[d])
        <3>1. claim[d] = "probe" /\ seen[d] \in Created \union {OldPid}
            BY <2>2 DEF Probe, Goto, MetByAnother
        <3>2. OldPid \notin Daemons
            BY SpecialsDiffer
        <3>3. seen[d] \in recycled \/ (seen[d] \in Created /\ seen[d] # d)
            BY <2>2, <3>1, <3>2 DEF IsProcessAlive, Created
        <3> QED BY <3>3 DEF Created
    <2>3. CASE GiveUp(d)
        <3>1. Created \ {d} # {}
            BY <2>3 DEF GiveUp, Goto, MetByAnother
        <3> QED BY <3>1 DEF Created
    <2> QED BY <2>1, <2>2, <2>3
<1>4. [Refusal]_vars => [\A d \in Daemons :
          claim[d] # "refused" /\ claim'[d] = "refused" =>
              \/ \E e \in Daemons \ {d} :
                    claim[e] \in {"write", "held", "released", "failed", "gone"}
              \/ seen[d] \in recycled]_vars
    BY DEF Created
<1> QED BY <1>1, <1>2, <1>3, <1>4, TypeCorrect, PTL DEF Spec, RefusedByAnother
=============================================================================
