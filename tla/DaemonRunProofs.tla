--------------------------- MODULE DaemonRunProofs ---------------------------
(***************************************************************************)
(* What a daemon guarantees over its whole run, for any number of daemons, *)
(* with or without the PID file, all leftovers and all faults.             *)
(*                                                                         *)
(* The argument: the statement that run executes determines where the      *)
(* claim and the listener are (InStep).  The PID file in it is PidFile, so *)
(* its proved invariant holds here (PidInvariance).  Under Guarded,        *)
(* therefore, at most one daemon is between the claim and the drop of its  *)
(* guard, and nobody else touches the socket path (PathIsOurs).            *)
(***************************************************************************)
EXTENDS DaemonRun, TLAPS

\* The theorems about the PID file.
PP == INSTANCE PidFileProofs

\* The statements in which a daemon that has a PID file holds it.
Inside == {"on_start", "bind", "loop", "close", "cleanup", "on_stop"}

\* Where the claim, the listener and the state are at each statement of run.
Marks(d) ==
    /\ phase[d] = "off"      => claim[d] = "off" /\ sock[d] = "off" /\ state[d] = "none"
    /\ phase[d] = "claim"    => d \in withPid /\ P!Claiming(d) /\ sock[d] = "off" /\ state[d] = "none"
    /\ phase[d] = "on_start" => sock[d] = "off" /\ state[d] = "none"
    /\ phase[d] \in Inside   => claim[d] = IF d \in withPid THEN "held" ELSE "off"
    /\ phase[d] = "bind"     => sock[d] \in S!Binding
    /\ phase[d] \in {"loop", "close"} => sock[d] = "serving"
    /\ phase[d] = "cleanup"  => sock[d] = "closed"
    /\ phase[d] = "on_stop"  => sock[d] \in {"failed", "cleaned"}
    /\ phase[d] = "drop"     => /\ claim[d] \in {"off", "held", "refused", "failed"}
                                /\ P!Holding(d) \/ d \notin withPid \/ sock[d] = "off"
                                /\ sock[d] \notin S!Binding \union {"serving"}
    /\ phase[d] = "done"     => /\ claim[d] \notin P!Steps \union {"held"}
                                /\ sock[d] \notin S!Binding \union {"serving"}
    /\ state[d] = "alive"    <=> phase[d] \in Inside \ {"on_start"}

InStep == \A d \in Daemons : Marks(d)

Typed == /\ withPid \in SUBSET Daemons
         /\ phase \in [Daemons -> Phases]
         /\ state \in [Daemons -> {"none", "alive", "stopped", "lost"}]
         /\ ending \in [Daemons -> Reasons]
         /\ S!SocketTypeOK

\* The socket path of a daemon that is guarded by its PID file.
PathIsOurs ==
    /\ probed = {}
    /\ \A d \in Daemons :
        /\ ending[d] # "probe"
        /\ phase[d] \in {"loop", "close", "cleanup"} \/ sock[d] = "listen" => path = d
        /\ path = d => sock[d] \notin (S!Binding \ {"listen"}) \union {"off"}

\* Inductive beside the invariant of the PID file.
OwnIInv == Typed /\ InStep /\ (Guarded => PathIsOurs)

-----------------------------------------------------------------------------
(* The PID file in a run is PidFile. *)

\* What the theorems about the PID file assume, a run assumes too.
LEMMA PidConstants == PP!ConstantsOK
BY RunConstantsOK
DEF RunConstantsOK, P!ConstantsOK, P!Specials, P!Files, P!NoFile, P!OldPid, P!Garbage,
    P!NotUtf8, P!NoPid, PP!ConstantsOK, PP!Specials, PP!Files, PP!NoFile, PP!OldPid,
    PP!Garbage, PP!NotUtf8, PP!NoPid

\* PP speaks of the same PID file as P: the same initial states ...
LEMMA SameInit == P!Init => PP!Init
BY DEF P!Init, P!NoPid, PP!Init, PP!NoPid

\* ... and the same steps.
LEMMA SameNext == [P!Next]_P!vars => [PP!Next]_PP!vars
BY DEF P!Next, P!vars, P!Start, P!ClaimStep, P!CheckExists, P!Read, P!Probe, P!Remove,
       P!Create, P!CreateLost, P!Write, P!GiveUp, P!ClaimFails, P!Drop, P!Exit, P!Crash,
       P!Recycle, P!Vanish, P!Goto, P!Claiming, P!Holding, P!Running, P!Steps, P!Ended,
       P!Pids, P!ReadablePid, P!IsProcessAlive, P!NoFile, P!OldPid, P!NotUtf8, P!NoPid,
       PP!Next, PP!vars, PP!Start, PP!ClaimStep, PP!CheckExists, PP!Read, PP!Probe,
       PP!Remove, PP!Create, PP!CreateLost, PP!Write, PP!GiveUp, PP!ClaimFails, PP!Drop,
       PP!Exit, PP!Crash, PP!Recycle, PP!Vanish, PP!Goto, PP!Claiming, PP!Holding,
       PP!Running, PP!Steps, PP!Ended, PP!Pids, PP!ReadablePid, PP!IsProcessAlive,
       PP!NoFile, PP!OldPid, PP!NotUtf8, PP!NoPid

\* Whatever run does around it, the PID file takes a step of PidFile or none.
LEMMA PidStep == [Next]_vars => [P!Next]_P!vars
<1> SUFFICES ASSUME [Next]_vars PROVE P!Next \/ UNCHANGED pidVars
    BY DEF pidVars, P!vars
<1>1. ASSUME NEW d \in Daemons,
             RunWithPidFile(d) \/ RunWithoutPidFile(d) \/ RunFailsAtOnce(d) \/ EndOfLoop(d)
      PROVE  P!Next \/ UNCHANGED pidVars
    BY <1>1 DEF RunWithPidFile, RunWithoutPidFile, RunFailsAtOnce, EndOfLoop, LeaveLoop,
                EndAsked, EndByProbe, EndByError, EndByPanic, P!Next
<1>2. ASSUME NEW d \in Daemons, RunStep(d)
      PROVE  P!Next \/ UNCHANGED pidVars
    BY <1>2 DEF RunStep, Claim, OnStart, OnStartFails, Bind, Close, CleanUp, OnStop,
                ReturnDropsGuard, P!Next
<1>3. ASSUME NEW d \in Daemons, Exit(d) \/ Crash(d)
      PROVE  P!Next \/ UNCHANGED pidVars
    BY <1>3 DEF Exit, Crash, P!Next
<1>4. ASSUME NEW p \in P!Pids, PidReuse(p)
      PROVE  P!Next \/ UNCHANGED pidVars
    BY <1>4 DEF PidReuse, P!Next
<1>5. CASE UNCHANGED vars
    BY <1>5 DEF vars
<1> QED BY <1>1, <1>2, <1>3, <1>4, <1>5 DEF Next

\* The PID file of whole runs is the one that PidFile describes (daemon.rs:195,
\* 219): run claims it before everything else and drops it at most once.
THEOREM ImplementsPidFile == Spec => P!Spec
<1>1. Init => P!Init
    BY DEF Init
<1> QED BY <1>1, PidStep, PTL DEF Spec, P!Spec

\* So its invariant holds in every run.
LEMMA PidInvariance == Spec => []PP!IInv
<1>1. PP!Init => PP!IInv
    BY PidConstants, PP!InitIInv
<1>2. PP!IInv /\ [PP!Next]_PP!vars => PP!IInv'
    BY PidConstants, PP!StepIInv
<1> QED BY <1>1, <1>2, SameInit, SameNext, ImplementsPidFile, PTL DEF P!Spec

-----------------------------------------------------------------------------
(* The statement of run determines the rest. *)

\* Before run begins, everything is off.
LEMMA InitInStep == Init => Typed /\ InStep
BY RunConstantsOK
DEF RunConstantsOK, S!SocketConstants, Init, P!Init, S!SocketInit, Typed, InStep, Marks, Phases,
    Reasons, Inside, S!SocketTypeOK, S!Binding, S!Sockets

\* Each statement of run leaves its own marks, and those of no other daemon.
LEMMA RunKeepsInStep ==
    ASSUME PP!TypeOK, Typed, InStep, NEW d \in Daemons,
           \/ RunWithPidFile(d) \/ RunWithoutPidFile(d) \/ RunFailsAtOnce(d)
           \/ EndOfLoop(d) \/ RunStep(d)
    PROVE  Typed' /\ InStep'
<1> USE DEF PP!TypeOK, Typed, InStep, Marks, Inside, Step, SetState, Phases, Reasons,
            P!Claiming, P!Holding, P!Steps, P!Goto, S!SocketTypeOK, S!Binding, S!Move
<1>1. CASE RunWithPidFile(d)
    BY <1>1 DEF RunWithPidFile, P!Start, sockVars
<1>2. CASE RunWithoutPidFile(d) \/ RunFailsAtOnce(d)
    BY <1>2 DEF RunWithoutPidFile, RunFailsAtOnce, pidVars, sockVars
<1>3. CASE EndOfLoop(d)
    BY <1>3 DEF EndOfLoop, EndAsked, EndByProbe, EndByError, EndByPanic, LeaveLoop,
                pidVars, sockVars
<1>4. CASE Claim(d)
    <2>1. /\ claim' = [claim EXCEPT ![d] = claim'[d]]
          /\ claim'[d] \in P!Steps \union {"held", "refused", "failed"}
        BY <1>4 DEF Claim, P!ClaimStep, P!CheckExists, P!Read, P!Probe, P!Remove, P!Create,
                    P!CreateLost, P!Write, P!GiveUp, P!ClaimFails
    <2> QED BY <1>4, <2>1 DEF Claim, sockVars
<1>5. CASE OnStart(d) \/ OnStartFails(d)
    <2>1. /\ \/ sock' = [sock EXCEPT ![d] = "exists"] /\ state' = [state EXCEPT ![d] = "alive"]
                /\ phase' = [phase EXCEPT ![d] = "bind"]
             \/ sock' = sock /\ state' = state /\ phase' = [phase EXCEPT ![d] = "drop"]
          /\ phase[d] = "on_start" /\ UNCHANGED <<pidVars, path, probed, withPid, ending>>
        BY <1>5 DEF OnStart, OnStartFails, S!BeginBind, sockVars
    <2>2. Typed'
        BY <2>1
    <2>3. \A e \in Daemons \ {d} : Marks(e)'
        BY <2>1 DEF pidVars
    <2>4. Marks(d)'
        BY <2>1 DEF pidVars
    <2> QED BY <2>2, <2>3, <2>4
<1>6. CASE Bind(d)
    <2>1. /\ sock' = [sock EXCEPT ![d] = sock'[d]]
          /\ sock'[d] \in S!Binding \union {"serving", "failed"}
          /\ path' \in S!Sockets /\ probed' \in SUBSET Daemons
        BY <1>6 DEF Bind, S!BindStep, S!PathExists, S!Stat, S!ProbeConnect, S!RemoveStale,
                    S!BindPath, S!Listen, S!BindFails, S!Listening, S!Sockets
    <2> QED BY <1>6, <2>1 DEF Bind, pidVars
<1>7. CASE Close(d)
    <2>1. /\ sock' = [sock EXCEPT ![d] = "closed"] /\ path' = path /\ probed' = probed \ {d}
          /\ \/ phase' = [phase EXCEPT ![d] = "drop"] /\ state' = [state EXCEPT ![d] = "lost"]
             \/ phase' = [phase EXCEPT ![d] = "cleanup"] /\ state' = state
          /\ phase[d] = "close" /\ UNCHANGED <<pidVars, withPid, ending>>
        BY <1>7 DEF Close, S!CloseListener
    <2>2. Typed'
        BY <2>1
    <2>3. \A e \in Daemons \ {d} : Marks(e)'
        BY <2>1 DEF pidVars
    <2>4. Marks(d)'
        BY <2>1 DEF pidVars
    <2> QED BY <2>2, <2>3, <2>4
<1>8. CASE CleanUp(d)
    BY <1>8 DEF CleanUp, S!Cleanup, S!CleanupFails, S!Sockets, pidVars
<1>9. CASE OnStop(d)
    <2>1. Typed'
        BY <1>9 DEF OnStop, sockVars
    <2>2. \A e \in Daemons \ {d} : Marks(e)'
        BY <1>9 DEF OnStop, pidVars, sockVars
    <2>3. Marks(d)'
        BY <1>9 DEF OnStop, pidVars, sockVars
    <2> QED BY <2>1, <2>2, <2>3
<1>10. CASE ReturnDropsGuard(d)
    BY <1>10 DEF ReturnDropsGuard, P!Drop, pidVars, sockVars
<1> QED BY <1>1, <1>2, <1>3, <1>4, <1>5, <1>6, <1>7, <1>8, <1>9, <1>10 DEF RunStep

\* A process that ends is past run.
LEMMA EndKeepsInStep ==
    ASSUME PP!TypeOK, Typed, InStep, NEW d \in Daemons, Exit(d) \/ Crash(d)
    PROVE  Typed' /\ InStep'
<1> USE DEF PP!TypeOK, Typed, InStep, Marks, Inside, Phases, Reasons,
            P!Claiming, P!Holding, P!Steps, P!Ended, S!SocketTypeOK, S!Binding, S!SocketGone
<1>1. /\ sock' = [sock EXCEPT ![d] = "gone"] /\ path' = path /\ probed' = probed \ {d}
      /\ UNCHANGED <<withPid, ending>>
      /\ \/ claim[d] = "off" /\ claim' = claim
         \/ claim' = [claim EXCEPT ![d] = "gone"]
    BY DEF Exit, Crash, P!Exit, P!Crash, pidVars
<1>2. CASE Exit(d)
    BY <1>1, <1>2 DEF Exit
<1>3. CASE Crash(d)
    BY <1>1, <1>3 DEF Crash
<1> QED BY <1>2, <1>3

\* Every step keeps the statement of run in step with claim and listener.
LEMMA NextKeepsInStep ==
    ASSUME PP!TypeOK, Typed, InStep, [Next]_vars
    PROVE  Typed' /\ InStep'
<1>1. ASSUME NEW p \in P!Pids, PidReuse(p) PROVE Typed' /\ InStep'
    BY <1>1 DEF PidReuse, P!Recycle, P!Vanish, sockVars, Typed, InStep, Marks, S!SocketTypeOK,
                P!Claiming, P!Holding
<1>2. CASE UNCHANGED vars
    BY <1>2 DEF vars, pidVars, sockVars, Typed, InStep, Marks, S!SocketTypeOK,
                P!Claiming, P!Holding
<1> QED BY <1>1, <1>2, RunKeepsInStep, EndKeepsInStep DEF Next

-----------------------------------------------------------------------------
(* One daemon at the socket path. *)

\* The PID file is exclusive.
LEMMA OneHolder ==
    ASSUME PP!IInv, ~overlap, NEW d \in Daemons, NEW e \in Daemons,
           P!Holding(d), P!Holding(e)
    PROVE  d = e
BY DEF PP!IInv, PP!Quiet, PP!HolderOwnsPath, PP!Holding, P!Holding

\* Two startups that have overlapped have overlapped for good, and the
\* configuration stays.
LEMMA GuardedBefore ==
    ASSUME PP!TypeOK, Typed, [Next]_vars, Guarded'
    PROVE  Guarded
<1>1. overlap => overlap'
    BY PidStep DEF P!Next, P!vars, P!Start, P!ClaimStep, P!CheckExists, P!Read, P!Probe,
       P!Remove, P!Create, P!CreateLost, P!Write, P!GiveUp, P!ClaimFails, P!Drop, P!Exit,
       P!Crash, P!Recycle, P!Vanish
<1>2. withPid' = withPid
    BY DEF Next, vars, RunWithPidFile, RunWithoutPidFile, RunFailsAtOnce, RunStep, Claim,
       OnStart, OnStartFails, Bind, Close, CleanUp, OnStop, ReturnDropsGuard, EndOfLoop,
       EndAsked, EndByProbe, EndByError, EndByPanic, LeaveLoop, Exit, Crash, PidReuse
<1> QED BY <1>1, <1>2 DEF Guarded, PP!TypeOK

\* Whoever is in bind, or serves, or cleans up, is alone with it.
LEMMA AloneInside ==
    ASSUME PP!IInv, Typed, InStep, Guarded, NEW d \in Daemons, phase[d] \in Inside,
           NEW e \in Daemons \ {d}
    PROVE  /\ phase[e] \notin Inside
           /\ sock[e] \notin S!Binding \union {"serving"}
           /\ phase[e] = "drop" => sock[e] = "off"
<1>1. P!Holding(d) /\ ~P!Holding(e)
    BY OneHolder DEF InStep, Marks, Guarded, P!Holding
<1>2. phase[e] \notin Inside
    BY <1>1 DEF InStep, Marks, Guarded, P!Holding
<1> QED BY <1>1, <1>2 DEF InStep, Marks, Guarded, Typed, Phases, Inside, S!Binding

\* bind meets no listener, and what bind and cleanup do to the path they do to
\* their own (socket.rs:24-53).
LEMMA SocketKeepsPathOurs ==
    ASSUME PP!IInv, Typed, InStep, Guarded, PathIsOurs, NEW d \in Daemons,
           Bind(d) \/ Close(d) \/ CleanUp(d)
    PROVE  PathIsOurs'
<1>1. \A e \in Daemons \ {d} : /\ phase[e] \notin Inside
                               /\ sock[e] \notin S!Binding \union {"serving"}
    BY AloneInside DEF Bind, Close, CleanUp, Step, Inside
<1> USE DEF PathIsOurs, Inside, S!Binding, Step, S!Move, Typed, S!SocketTypeOK
<1>2. CASE Bind(d)
    <2>1. phase[d] = "bind" /\ ending' = ending
          /\ \A e \in Daemons \ {d} : sock'[e] = sock[e] /\ phase'[e] = phase[e]
        BY <1>2 DEF Bind, S!BindStep, S!PathExists, S!Stat, S!ProbeConnect, S!RemoveStale,
                    S!BindPath, S!Listen, S!BindFails
    <2>2. S!Listening = {}
        BY <1>1, <2>1 DEF S!Listening, InStep, Marks
    <2>3. probed' = {}
        BY <1>2, <2>2 DEF Bind, S!BindStep, S!PathExists, S!Stat, S!ProbeConnect,
           S!RemoveStale, S!BindPath, S!Listen, S!BindFails
    <2>4. path' = d \/ path' = path \/ path' = S!NoSocket
        BY <1>2 DEF Bind, S!BindStep, S!PathExists, S!Stat, S!ProbeConnect, S!RemoveStale,
           S!BindPath, S!Listen, S!BindFails
    <2>5. (sock'[d] \in {"listen", "serving"} => path' = d)
          /\ (path' = d => sock'[d] \notin (S!Binding \ {"listen"}) \union {"off"})
          /\ (phase'[d] = "loop" => sock'[d] = "serving") /\ phase'[d] \in {"bind", "loop", "on_stop"}
        BY <1>2, RunConstantsOK
        DEF RunConstantsOK, S!SocketConstants, S!NoSocket, Bind, S!BindStep, S!PathExists,
            S!Stat, S!ProbeConnect, S!RemoveStale, S!BindPath, S!Listen, S!BindFails
    <2>6. \A e \in Daemons : e # S!NoSocket
        BY RunConstantsOK DEF RunConstantsOK, S!SocketConstants
    <2> QED BY <1>1, <2>1, <2>3, <2>4, <2>5, <2>6
<1>3. CASE Close(d)
    BY <1>1, <1>3 DEF Close, S!CloseListener
<1>4. CASE CleanUp(d)
    <2>1. \A e \in Daemons : e # S!NoSocket
        BY RunConstantsOK DEF RunConstantsOK, S!SocketConstants
    <2> QED BY <1>1, <1>4, <2>1 DEF CleanUp, S!Cleanup, S!CleanupFails
<1> QED BY <1>2, <1>3, <1>4

\* All other steps leave the path alone, and so does the end of a process.
LEMMA RestKeepsPathOurs ==
    ASSUME PP!IInv, Typed, InStep, PathIsOurs, [Next]_vars,
           ~ \E d \in Daemons : Bind(d) \/ Close(d) \/ CleanUp(d)
    PROVE  PathIsOurs'
<1> USE DEF PathIsOurs, Inside, S!Binding, Step, Typed, S!SocketTypeOK
<1>1. ASSUME NEW d \in Daemons, EndOfLoop(d) PROVE PathIsOurs'
    BY <1>1 DEF EndOfLoop, EndAsked, EndByProbe, EndByError, EndByPanic, LeaveLoop, sockVars
<1>2. ASSUME NEW d \in Daemons, OnStart(d) PROVE PathIsOurs'
    BY <1>2 DEF OnStart, S!BeginBind, S!Move
<1>3. ASSUME NEW d \in Daemons,
             \/ RunWithPidFile(d) \/ RunWithoutPidFile(d) \/ RunFailsAtOnce(d)
             \/ Claim(d) \/ OnStartFails(d) \/ OnStop(d) \/ ReturnDropsGuard(d)
      PROVE  PathIsOurs'
    BY <1>3 DEF RunWithPidFile, RunWithoutPidFile, RunFailsAtOnce, Claim, OnStartFails,
                OnStop, ReturnDropsGuard, sockVars
<1>4. ASSUME NEW d \in Daemons, Exit(d) \/ Crash(d) PROVE PathIsOurs'
    BY <1>4 DEF Exit, Crash, S!SocketGone
<1>5. ASSUME NEW p \in P!Pids, PidReuse(p) PROVE PathIsOurs'
    BY <1>5 DEF PidReuse, sockVars
<1>6. CASE UNCHANGED vars
    BY <1>6 DEF vars, sockVars
<1> QED BY <1>1, <1>2, <1>3, <1>4, <1>5, <1>6 DEF Next, RunStep

\* Before the first startup no socket of a daemon is there.
LEMMA InitPath == Init => PathIsOurs
BY RunConstantsOK
DEF RunConstantsOK, S!SocketConstants, Init, S!SocketInit, PathIsOurs, S!Binding

\* The invariant is inductive beside that of the PID file.
LEMMA NextKeepsIInv == PP!IInv /\ OwnIInv /\ [Next]_vars => OwnIInv'
<1> SUFFICES ASSUME PP!IInv, OwnIInv, [Next]_vars PROVE OwnIInv'
    OBVIOUS
<1>1. PP!TypeOK
    BY DEF PP!IInv
<1>2. Typed' /\ InStep'
    BY <1>1, NextKeepsInStep DEF OwnIInv
<1>3. ASSUME Guarded' PROVE PathIsOurs'
    BY <1>1, <1>3, GuardedBefore, SocketKeepsPathOurs, RestKeepsPathOurs DEF OwnIInv
<1> QED BY <1>2, <1>3 DEF OwnIInv

\* Both invariants hold throughout.
LEMMA Invariance == Spec => [](PP!IInv /\ OwnIInv)
<1>1. Init => OwnIInv
    BY InitInStep, InitPath DEF OwnIInv
<1> QED BY <1>1, NextKeepsIInv, PidInvariance, PTL DEF Spec

-----------------------------------------------------------------------------
(* Theorems. *)

\* The types, and that the program counters of run, claim and bind agree
\* (daemon.rs:189-221).
THEOREM TypeCorrect == Spec => []TypeOK
<1>1. PP!TypeOK => P!TypeOK
    BY DEF PP!TypeOK, PP!Steps, PP!Ended, PP!Pids, PP!Files, PP!NoFile, PP!OldPid,
           PP!Garbage, PP!NotUtf8, PP!NoPid, P!TypeOK, P!Steps, P!Ended, P!Pids, P!Files,
           P!NoFile, P!OldPid, P!Garbage, P!NotUtf8, P!NoPid
<1>2. Typed /\ InStep => /\ withPid \in SUBSET Daemons
                         /\ phase \in [Daemons -> Phases]
                         /\ state \in [Daemons -> {"none", "alive", "stopped", "lost"}]
                         /\ ending \in [Daemons -> Reasons]
                         /\ S!SocketTypeOK
                         /\ \A d \in Daemons : Marks(d)
    BY DEF Typed, InStep
<1>3. PP!IInv /\ OwnIInv => TypeOK
    BY <1>1, <1>2 DEF PP!IInv, OwnIInv, TypeOK, Marks, Inside
<1> QED BY <1>3, Invariance, PTL

\* A state that on_start made has been handed to on_stop when run returns, on
\* every path but a panic (daemon.rs:199-221).
THEOREM StateIsHandedBack == Spec => []StateHandedBack
<1>1. PP!IInv /\ OwnIInv => StateHandedBack
    BY DEF OwnIInv, InStep, Marks, Inside, StateHandedBack
<1> QED BY <1>1, Invariance, PTL

\* The PID file names a daemon as long as its state is alive (daemon.rs:195,
\* 215, 219), unless startups have overlapped.
THEOREM PidFileOutlivesState == Spec => []PidOutlivesState
<1>1. PP!IInv /\ OwnIInv => PidOutlivesState
    BY DEF PP!IInv, PP!Quiet, PP!HolderOwnsPath, PP!Holding, OwnIInv, InStep, Marks, Inside,
           Guarded, Warm, PidOutlivesState
<1> QED BY <1>1, Invariance, PTL

\* A serving daemon owns the socket path until it has cleaned up (socket.rs:47,
\* 53), behind a PID file and without overlapping startups.
THEOREM PathIsOwned == Spec => []OwnsPath
<1>1. PP!IInv /\ OwnIInv => OwnsPath
    BY DEF OwnIInv, PathIsOurs, OwnsPath
<1> QED BY <1>1, Invariance, PTL

\* What bind removes (socket.rs:41) nobody will ever answer.
THEOREM OnlyStaleIsRemoved == Spec => []RemovesOnlyStale
<1>1. ASSUME PP!IInv, OwnIInv PROVE RemovesOnlyStale
    <2> SUFFICES ASSUME Guarded, NEW d \in Daemons, NEW e \in Daemons,
                        sock[d] = "remove", path = e
                 PROVE  phase[e] = "done"
        BY DEF RemovesOnlyStale
    <2>1. phase[d] = "bind"
        BY <1>1 DEF OwnIInv, Typed, InStep, Marks, S!Binding, Phases
    <2>2. sock[e] \notin (S!Binding \ {"listen"}) \union {"off"}
        BY <1>1 DEF OwnIInv, PathIsOurs
    <2>3. e # d
        BY <2>2 DEF S!Binding
    <2>4. phase[e] \notin Inside /\ (phase[e] = "drop" => sock[e] = "off")
        BY <1>1, <2>1, <2>3, AloneInside DEF OwnIInv, Inside
    <2> QED BY <1>1, <2>2, <2>4 DEF OwnIInv, Typed, InStep, Marks, Phases, Inside
<1> QED BY <1>1, Invariance, PTL

\* A startup beside a live daemon never ends its loop (socket.rs:26).
THEOREM OthersAreLeftAlone == Spec => []StartupLeavesOthersAlone
<1>1. PP!IInv /\ OwnIInv => StartupLeavesOthersAlone
    BY DEF OwnIInv, PathIsOurs, StartupLeavesOthersAlone
<1> QED BY <1>1, Invariance, PTL

\* The part of a step that the lease sees: on_start acquires it, on_stop and every
\* end without on_stop release it (daemon.rs:194-215).
LEMMA LeaseStep ==
    PP!IInv /\ OwnIInv /\ [Next]_vars => [State!Next]_<<Warm, overlap \/ withPid # Daemons>>
<1> DEFINE contended == overlap \/ withPid # Daemons
<1> SUFFICES ASSUME PP!IInv, OwnIInv, [Next]_vars
             PROVE  [State!Next]_<<Warm, contended>>
    OBVIOUS
<1>1. withPid' = withPid
    BY DEF Next, vars, RunWithPidFile, RunWithoutPidFile, RunFailsAtOnce, RunStep, Claim,
       OnStart, OnStartFails, Bind, Close, CleanUp, OnStop, ReturnDropsGuard, EndOfLoop,
       EndAsked, EndByProbe, EndByError, EndByPanic, LeaveLoop, Exit, Crash, PidReuse
<1>2. ASSUME NEW d \in Daemons, OnStart(d) PROVE State!Acquire(d)
    <2>1. Warm' = Warm \union {d} /\ d \notin Warm /\ overlap' = overlap
        BY <1>2 DEF OnStart, Step, SetState, Warm, OwnIInv, Typed, InStep, Marks, pidVars
    <2>2. ASSUME Guarded, NEW e \in Warm PROVE FALSE
        <3>1. e # d /\ e \in Daemons /\ phase[e] \in Inside
            BY <2>1, <2>2 DEF Warm, OwnIInv, InStep, Marks
        <3>2. phase[d] \in Inside
            BY <1>2 DEF OnStart, Step, Inside
        <3> QED BY <2>2, <3>1, <3>2, AloneInside DEF OwnIInv
    <2> QED BY <1>1, <2>1, <2>2 DEF State!Acquire, Guarded
<1>3. ASSUME NEW d \in Daemons, state[d] = "alive", overlap' = overlap,
             \E s \in {"lost", "stopped"} : state' = [state EXCEPT ![d] = s]
      PROVE  State!Release(d)
    BY <1>1, <1>3 DEF State!Release, Warm, OwnIInv, Typed
<1>4. ASSUME UNCHANGED <<state, overlap>> PROVE UNCHANGED <<Warm, contended>>
    BY <1>1, <1>4 DEF Warm
<1>5. ASSUME NEW d \in Daemons, Close(d) \/ OnStop(d) \/ Crash(d)
      PROVE  \/ UNCHANGED <<state, overlap>>
             \/ /\ state[d] = "alive" /\ overlap' = overlap
                /\ \E s \in {"lost", "stopped"} : state' = [state EXCEPT ![d] = s]
    <2>1. overlap' = overlap
        BY <1>5 DEF Close, OnStop, Crash, P!Crash, P!Exit, pidVars
    <2>2. CASE Close(d) \/ OnStop(d)
        <3>1. state[d] = "alive"
            BY <2>2 DEF Close, OnStop, Step, OwnIInv, InStep, Marks, Inside
        <3> QED BY <2>1, <2>2, <3>1 DEF Close, OnStop, SetState
    <2>3. CASE Crash(d)
        <3>1. CASE state[d] = "alive"
            BY <2>1, <2>3, <3>1 DEF Crash
        <3>2. CASE state[d] # "alive"
            BY <2>1, <2>3, <3>2 DEF Crash, OwnIInv, Typed
        <3> QED BY <3>1, <3>2
    <2> QED BY <1>5, <2>2, <2>3
<1>6. ASSUME NEW d \in Daemons, RunWithPidFile(d)
      PROVE  State!Contend \/ UNCHANGED <<Warm, contended>>
    BY <1>1, <1>6 DEF RunWithPidFile, P!Start, State!Contend, Warm, PP!IInv, PP!TypeOK
<1>7. ASSUME NEW d \in Daemons,
             \/ RunWithoutPidFile(d) \/ RunFailsAtOnce(d) \/ EndOfLoop(d) \/ Claim(d)
             \/ OnStartFails(d) \/ Bind(d) \/ CleanUp(d) \/ ReturnDropsGuard(d) \/ Exit(d)
      PROVE  UNCHANGED <<state, overlap>>
    BY <1>7 DEF RunWithoutPidFile, RunFailsAtOnce, EndOfLoop, EndAsked, EndByProbe,
       EndByError, EndByPanic, LeaveLoop, Claim, OnStartFails, Bind, CleanUp,
       ReturnDropsGuard, Exit, P!ClaimStep, P!CheckExists, P!Read, P!Probe, P!Remove,
       P!Create, P!CreateLost, P!Write, P!GiveUp, P!ClaimFails, P!Drop, P!Exit, pidVars
<1>8. ASSUME NEW p \in P!Pids, PidReuse(p) PROVE UNCHANGED <<state, overlap>>
    BY <1>8 DEF PidReuse, P!Recycle, P!Vanish
<1>9. CASE UNCHANGED vars
    BY <1>4, <1>9 DEF vars, pidVars
<1> QED BY <1>2, <1>3, <1>4, <1>5, <1>6, <1>7, <1>8, <1>9 DEF Next, RunStep, State!Next

\* The application state is a lease: on_start of one daemon never runs while the
\* state of another is alive (daemon.rs:194-199, 215).
THEOREM StateIsALease == Spec => WarmOwnership
<1>1. Init => State!Init
    BY DEF Init, P!Init, State!Init, Warm
<1> QED BY <1>1, LeaseStep, Invariance, PTL DEF Spec, WarmOwnership, State!Spec

\* In whole runs, too, a startup is refused only beside another one
\* (pidfile.rs:21, 42).
THEOREM RefusalsNeedAnother ==
    ASSUME Leftovers \intersect Daemons = {}
    PROVE  Spec => RefusedByAnother
BY PidConstants, PP!RefusalsNeedAnother, SameInit, SameNext, ImplementsPidFile, PTL
DEF RefusedByAnother, P!RefusedByAnother, PP!RefusedByAnother, P!Spec, PP!Spec, P!vars, PP!vars
=============================================================================
