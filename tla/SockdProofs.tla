----------------------------- MODULE SockdProofs -----------------------------
(***************************************************************************)
(* What a call guarantees, for any number of clients and daemons, all      *)
(* timeouts, leftovers and faults.                                         *)
(*                                                                         *)
(* Where a client is tells what its connection has come to and whether     *)
(* on_request ran for it (Progress); each wait is one sleep ahead of its   *)
(* limit at most (Slept, GivesUpInTime); and a daemon that has             *)
(* acknowledged a shutdown never comes back to its loop (Acked).  The      *)
(* daemons in it are those of DaemonRun, so what is proved of them holds.  *)
(*                                                                         *)
(* A client asks for the process behind the PID file in two system calls.  *)
(* The first reads the pid of the daemon whose state is alive, if there is *)
(* one (ReadsWhoIsWarm); as long as that state is alive, the second finds  *)
(* the process (WarmIsAlive).  So when the second finds none there was a   *)
(* moment without an owner since the first (FreeIsMoment), which is not to *)
(* say that there is none now.  All of it together makes the system the    *)
(* service that its callers are promised (SystemIsService), and a daemon   *)
(* in it shows its clients the same as EventLoop does                      *)
(* (DaemonsServeAsEventLoop).                                              *)
(***************************************************************************)
EXTENDS Sockd, TLAPS

\* The theorems about daemons.
DP == INSTANCE DaemonRunProofs

\* Where a client is in its call, what has become of its connection, whether
\* on_request ran, and what the call returned.
Progress(c) ==
    /\ at[c] = "idle" <=> op[c] = "none"
    /\ at[c] \in {"idle", "connect", "recover", "recover probe", "ready",
                 "not running", "not running probe"} =>
           exchange[c] = "none" /\ runs[c] = 0
    /\ at[c] \in {"recover", "recover probe", "ready", "ready wait"} => op[c] # "shutdown"
    /\ at[c] = "ready wait" => exchange[c] \in {"open", "answered", "cut"} /\ runs[c] = 0
    /\ at[c] = "again" => exchange[c] = "answered" /\ runs[c] = 0
    /\ at[c] \in {"again", "again wait"} => op[c] = "request"
    /\ at[c] \in {"connect wait", "again wait"} =>
           /\ exchange[c] # "none"
           /\ exchange[c] = "open" => runs[c] = 0
           /\ exchange[c] \in {"executed", "error"} => op[c] = "request" /\ runs[c] = 1
           /\ exchange[c] = "answered" /\ op[c] = "request" => runs[c] = 1
    /\ at[c] \in {"not running", "not running probe"} => op[c] = "shutdown"
    /\ at[c] \in {"socket gone", "pid gone", "pid gone probe"} =>
           exchange[c] = "answered" /\ op[c] = "shutdown"
    /\ at[c] = "returned" => exchange[c] \notin {"open", "executed"}
    /\ at[c] # "returned" => result[c] = "none"
    /\ op[c] = "shutdown" /\ result[c] = "ok" => exchange[c] = "answered"
    /\ op[c] = "request" /\ result[c] \in {"ok", "daemon error"} => runs[c] = 1
    /\ op[c] = "request" /\ result[c] = "ready timeout" => runs[c] = 0
    /\ runs[c] \in {0, 1}
    /\ runs[c] = 1 => op[c] = "request"

\* The backoff is the initial one until the first sleep, and within its limit
\* after it.
Slept(c) ==
    /\ at[c] = "idle" => waited[c] = 0
    /\ waited[c] = 0 => backoff[c] = InitialBackoff
    /\ waited[c] > 0 /\ op[c] # "shutdown" =>
           InitialBackoff <= waited[c] /\ backoff[c] \in 1..MaxBackoff

\* The statements of a daemon after its loop.
Past == {"close", "cleanup", "on_stop", "drop", "done"}

\* A daemon that acknowledged a shutdown is past its loop.
Acked ==
    \A c \in Clients : op[c] = "shutdown" /\ exchange[c] = "answered" =>
        peer[c] \in Daemons /\ phase[peer[c]] \in Past

CallIInv == /\ C!ClientTypeOK /\ spawned \in SUBSET Daemons /\ runs \in [Clients -> Nat]
            /\ \A c \in Clients : Progress(c) /\ Slept(c) /\ InTime(c)
            /\ Acked

\* A step of the system is a step of a daemon, or no daemon sees it.
LEMMA DaemonPart == [Next]_vars => [D!Next]_D!vars
<1> SUFFICES ASSUME [Next]_vars PROVE D!Next \/ UNCHANGED daemonVars
    BY DEF daemonVars, pidVars, D!vars, D!pidVars, D!sockVars
<1>1. ASSUME NEW c \in Clients, ClientCalls(c) \/ ClientStep(c)
      PROVE  UNCHANGED daemonVars
    BY <1>1 DEF ClientCalls, ClientStep, ClientConnects, ClientReads, ClientReadsPid,
       ClientWaits, ClientSpawns, ClientSpawnFails, ClientAsksPid, ClientAsksSocket, ClientFails
<1>2. ASSUME NEW d \in Daemons, DaemonStep(d) \/ DaemonEnds(d) PROVE D!Next
    BY <1>2 DEF DaemonStep, DaemonEnds, D!Next, D!EndOfLoop
<1>3. ASSUME NEW d \in Daemons, Serve(d) PROVE D!Next \/ UNCHANGED daemonVars
    BY <1>3 DEF Serve, Execute, Reply, Acknowledge, D!Next, D!EndOfLoop, D!EndAsked
<1>4. ASSUME NEW p \in D!P!Pids, PidReuse(p) PROVE D!Next
    BY <1>4 DEF PidReuse, D!Next
<1>5. CASE UNCHANGED vars
    BY <1>5 DEF vars
<1> QED BY <1>1, <1>2, <1>3, <1>4, <1>5 DEF Next

\* DP speaks of the same daemons as D: the same initial states ...
LEMMA SameInit == D!Init => DP!Init
BY DEF D!Init, D!P!Init, D!P!NoPid, D!S!SocketInit, DP!Init, DP!P!Init, DP!P!NoPid, DP!S!SocketInit

\* ... and the same steps.
LEMMA SameNext == [D!Next]_D!vars => [DP!Next]_DP!vars
BY DEF D!Next, D!vars, D!pidVars, D!sockVars, D!Step, D!SetState, D!RunWithPidFile,
       D!RunWithoutPidFile, D!RunFailsAtOnce, D!Claim, D!OnStart, D!OnStartFails,
       D!Bind, D!LeaveLoop, D!EndAsked, D!EndByProbe, D!EndByError, D!EndByPanic,
       D!Close, D!CleanUp, D!OnStop, D!ReturnDropsGuard, D!RunStep, D!EndOfLoop, D!Exit,
       D!Crash, D!PidReuse, D!P!Start, D!P!ClaimStep, D!P!CheckExists, D!P!Read,
       D!P!Probe, D!P!Remove, D!P!Create, D!P!CreateLost, D!P!Write, D!P!GiveUp,
       D!P!ClaimFails, D!P!Drop, D!P!Exit, D!P!Crash, D!P!Recycle, D!P!Vanish, D!P!Goto,
       D!P!Claiming, D!P!Holding, D!P!Running, D!P!Steps, D!P!Ended, D!P!Pids,
       D!P!ReadablePid, D!P!IsProcessAlive, D!P!NoFile, D!P!OldPid, D!P!NotUtf8,
       D!P!NoPid, D!S!NoSocket, D!S!Regular, D!S!Binding, D!S!Listening, D!S!Move,
       D!S!BeginBind, D!S!PathExists, D!S!Stat, D!S!ProbeConnect, D!S!RemoveStale,
       D!S!BindPath, D!S!Listen, D!S!BindFails, D!S!BindStep, D!S!CloseListener,
       D!S!Cleanup, D!S!CleanupFails, D!S!SocketGone, DP!Next, DP!vars, DP!pidVars,
       DP!sockVars, DP!Step, DP!SetState, DP!RunWithPidFile, DP!RunWithoutPidFile,
       DP!RunFailsAtOnce, DP!Claim, DP!OnStart, DP!OnStartFails, DP!Bind, DP!LeaveLoop,
       DP!EndAsked, DP!EndByProbe, DP!EndByError, DP!EndByPanic, DP!Close, DP!CleanUp,
       DP!OnStop, DP!ReturnDropsGuard, DP!RunStep, DP!EndOfLoop, DP!Exit, DP!Crash,
       DP!PidReuse, DP!P!Start, DP!P!ClaimStep, DP!P!CheckExists, DP!P!Read, DP!P!Probe,
       DP!P!Remove, DP!P!Create, DP!P!CreateLost, DP!P!Write, DP!P!GiveUp,
       DP!P!ClaimFails, DP!P!Drop, DP!P!Exit, DP!P!Crash, DP!P!Recycle, DP!P!Vanish,
       DP!P!Goto, DP!P!Claiming, DP!P!Holding, DP!P!Running, DP!P!Steps, DP!P!Ended,
       DP!P!Pids, DP!P!ReadablePid, DP!P!IsProcessAlive, DP!P!NoFile, DP!P!OldPid,
       DP!P!NotUtf8, DP!P!NoPid, DP!S!NoSocket, DP!S!Regular, DP!S!Binding,
       DP!S!Listening, DP!S!Move, DP!S!BeginBind, DP!S!PathExists, DP!S!Stat,
       DP!S!ProbeConnect, DP!S!RemoveStale, DP!S!BindPath, DP!S!Listen, DP!S!BindFails,
       DP!S!BindStep, DP!S!CloseListener, DP!S!Cleanup, DP!S!CleanupFails,
       DP!S!SocketGone

-----------------------------------------------------------------------------
(* The calls. *)

\* Before anybody calls, no connection is open and nobody has slept.
LEMMA InitCalls == Init => CallIInv
BY SystemConstantsOK
DEF SystemConstantsOK, Init, C!ClientInit, CallIInv, C!ClientTypeOK, C!Ops, C!Points,
    C!Connecting, C!Waiting, C!Asking, C!Probing, C!Results, Progress, Slept, InTime, Acked

PidsRead == D!P!Pids \union {D!P!NoPid}

\* What Client does; b is what it is told about a file or a process.
ClientAction(c, b) ==
    \/ \E o \in Calls : C!Call(c, o)
    \/ \E d \in Daemons : C!Connected(c, d)
    \/ C!ConnectFails(c, b) \/ C!NotRunning(c, b) \/ C!SocketGone(c, b) \/ C!PidGone(c, b)
    \/ C!ReadyFails(c) \/ C!AgainFails(c)
    \/ C!Answered(c) \/ C!AnsweredError(c) \/ C!Cut(c)
    \/ \E p \in PidsRead : C!ReadPid(c, p)
    \/ C!Recover(c) \/ C!SpawnFails(c)
    \/ C!CallFails(c)

\* What read_pid returns is the pid of a process, or none.
LEMMA ReadsPid ==
    ASSUME D!TypeOK
    PROVE  D!P!ReadablePid \in PidsRead /\ D!P!NoPid \in PidsRead
BY DEF D!TypeOK, D!P!TypeOK, D!P!ReadablePid, PidsRead, D!P!Pids

\* A step of a client is one of these, and no daemon has a part in it.
LEMMA ClientStepIs ==
    ASSUME D!TypeOK, NEW c \in Clients, ClientCalls(c) \/ ClientStep(c)
    PROVE  /\ \E b \in BOOLEAN : ClientAction(c, b)
           /\ UNCHANGED <<daemonVars, runs>>
           /\ spawned' = spawned \/ \E d \in Daemons : spawned' = spawned \union {d}
<1>1. PidIsAlive(c) \in BOOLEAN /\ (c \in AutoStarters) \in BOOLEAN
      /\ (path = D!S!NoSocket) \in BOOLEAN
    BY DEF PidIsAlive
<1>2. D!S!Listening \subseteq Daemons
    BY DEF D!S!Listening
<1>3. CASE ClientReadsPid(c)
    <2>1. PICK p \in PidsRead : C!ReadPid(c, p)
        BY <1>3, ReadsPid DEF ClientReadsPid
    <2>2. ClientAction(c, TRUE)
        BY <2>1 DEF ClientAction
    <2> QED BY <1>3, <2>2 DEF ClientReadsPid
<1>4. CASE ~ClientReadsPid(c)
    BY <1>1, <1>2, <1>4 DEF ClientAction, ClientCalls, ClientStep, ClientConnects, ClientReads,
       ClientWaits, ClientSpawns, ClientSpawnFails, ClientAsksPid, ClientAsksSocket, ClientFails
<1> QED BY <1>3, <1>4

\* The numbers and calls that the constants allow.
LEMMA TimesOK ==
    /\ ReadyTimeout \in Nat /\ ShutdownTimeout \in Nat
    /\ InitialBackoff \in Nat \ {0} /\ MaxBackoff \in Nat \ {0} /\ PollStep \in Nat \ {0}
    /\ Calls \subseteq C!Ops
BY SystemConstantsOK DEF SystemConstantsOK

\* The step of a client is seen by no other client.
LEMMA ActionIsLocal ==
    ASSUME C!ClientTypeOK, NEW c \in Clients, NEW b \in BOOLEAN, ClientAction(c, b),
           NEW e \in Clients \ {c}
    PROVE  /\ op'[e] = op[e] /\ at'[e] = at[e] /\ peer'[e] = peer[e]
           /\ exchange'[e] = exchange[e] /\ waited'[e] = waited[e]
           /\ backoff'[e] = backoff[e] /\ told'[e] = told[e] /\ result'[e] = result[e]
<1> USE DEF C!ClientTypeOK, C!GoTo, C!Return, C!Forget
<1>1. CASE \E o \in Calls : C!Call(c, o)
    BY <1>1 DEF C!Call
<1>2. CASE \E d \in Daemons : C!Connected(c, d)
    BY <1>2 DEF C!Connected
<1>3. CASE C!ConnectFails(c, b) \/ C!NotRunning(c, b)
    BY <1>3 DEF C!ConnectFails, C!NotRunning
<1>4. CASE C!SocketGone(c, b) \/ C!PidGone(c, b)
    BY <1>4 DEF C!SocketGone, C!PollAgain, C!PidGone
<1>5. CASE C!ReadyFails(c) \/ C!AgainFails(c)
    BY <1>5 DEF C!ReadyFails, C!Sleep, C!Smaller, C!AgainFails
<1>6. CASE C!Answered(c) \/ C!AnsweredError(c) \/ C!Cut(c)
    BY <1>6 DEF C!Answered, C!AnsweredError, C!Cut
<1>7. CASE C!Recover(c) \/ C!SpawnFails(c)
    BY <1>7 DEF C!Recover, C!SpawnFails
<1>8. CASE (\E p \in PidsRead : C!ReadPid(c, p)) \/ C!CallFails(c)
    BY <1>8 DEF C!ReadPid, C!CallFails
<1> QED BY <1>1, <1>2, <1>3, <1>4, <1>5, <1>6, <1>7, <1>8 DEF ClientAction

\* The types of the calls.
LEMMA ActionKeepsType ==
    ASSUME C!ClientTypeOK, NEW c \in Clients, NEW b \in BOOLEAN, ClientAction(c, b)
    PROVE  C!ClientTypeOK'
<1>0. /\ waited \in [Clients -> Nat] /\ waited[c] \in Nat
      /\ backoff \in [Clients -> {InitialBackoff} \union 0..MaxBackoff] /\ backoff[c] \in Nat
    BY TimesOK DEF C!ClientTypeOK
<1> USE DEF C!Ops, C!Points, C!Connecting, C!Waiting, C!Asking, C!Probing, C!Results,
            C!GoTo, C!Return, C!Forget
<1>1. CASE \E o \in Calls : C!Call(c, o)
    <2>1. PICK o \in C!Ops : C!Call(c, o)
        BY <1>1, TimesOK
    <2> QED BY <2>1 DEF C!ClientTypeOK, C!Call
<1>2. CASE \E d \in Daemons : C!Connected(c, d)
    <2>1. PICK d \in Daemons : C!Connected(c, d)
        BY <1>2
    <2> QED BY <2>1 DEF C!ClientTypeOK, C!Connected
<1>3. CASE C!ConnectFails(c, b)
    BY <1>3 DEF C!ClientTypeOK, C!ConnectFails
<1>4. CASE C!NotRunning(c, b)
    BY <1>4, ZenonT(60) DEF C!ClientTypeOK, C!NotRunning
<1>5. CASE C!SocketGone(c, b)
    <2>1. waited' = waited \/ waited' = [waited EXCEPT ![c] = @ + PollStep]
        BY <1>5 DEF C!SocketGone, C!PollAgain
    <2>2. waited' \in [Clients -> Nat]
        BY <1>0, <2>1, TimesOK
    <2> QED BY <1>5, <2>2, ZenonT(60) DEF C!ClientTypeOK, C!SocketGone, C!PollAgain
<1>6. CASE C!PidGone(c, b)
    <2>1. waited' = waited \/ waited' = [waited EXCEPT ![c] = @ + PollStep]
        BY <1>6 DEF C!PidGone, C!PollAgain
    <2>2. waited' \in [Clients -> Nat]
        BY <1>0, <2>1, TimesOK
    <2> QED BY <1>6, <2>2, ZenonT(60) DEF C!ClientTypeOK, C!PidGone, C!PollAgain
<1>7. CASE C!ReadyFails(c)
    <2>1. \/ waited' = waited /\ backoff' = backoff
          \/ /\ waited' = [waited EXCEPT ![c] = @ + backoff[c]]
             /\ backoff' = [backoff EXCEPT ![c] = C!Smaller(2 * @, MaxBackoff)]
        BY <1>7 DEF C!ReadyFails, C!Sleep
    <2>2. backoff[c] \in Nat /\ C!Smaller(2 * backoff[c], MaxBackoff) \in 0..MaxBackoff
        BY <1>0, TimesOK DEF C!Smaller
    <2>3. waited' \in [Clients -> Nat] /\ backoff' \in [Clients -> {InitialBackoff} \union 0..MaxBackoff]
        BY <1>0, <2>1, <2>2
    <2> QED BY <1>7, <2>3 DEF C!ClientTypeOK, C!ReadyFails
<1>8. CASE C!AgainFails(c)
    BY <1>8 DEF C!ClientTypeOK, C!AgainFails
<1>9. CASE C!Answered(c)
    BY <1>9 DEF C!ClientTypeOK, C!Answered
<1>10. CASE C!AnsweredError(c)
    BY <1>10 DEF C!ClientTypeOK, C!AnsweredError
<1>11. CASE C!Cut(c)
    BY <1>11 DEF C!ClientTypeOK, C!Cut
<1>12. CASE C!Recover(c)
    BY <1>12, ZenonT(60) DEF C!ClientTypeOK, C!Recover
<1>13. CASE C!SpawnFails(c)
    BY <1>13, ZenonT(60) DEF C!ClientTypeOK, C!SpawnFails
<1>14. CASE \E p \in PidsRead : C!ReadPid(c, p)
    BY <1>14, ZenonT(60) DEF C!ClientTypeOK, C!ReadPid, PidsRead
<1>15. CASE C!CallFails(c)
    BY <1>15, ZenonT(60) DEF C!ClientTypeOK, C!CallFails
<1> QED BY <1>1, <1>2, <1>3, <1>4, <1>5, <1>6, <1>7, <1>8, <1>9, <1>10, <1>11, <1>12, <1>13,
           <1>14, <1>15
    DEF ClientAction

\* An attempt, and what comes before and after it (client.rs:92-163).
LEMMA ActionKeepsProgress ==
    ASSUME C!ClientTypeOK, NEW c \in Clients, NEW b \in BOOLEAN, ClientAction(c, b),
           Progress(c), runs' = runs
    PROVE  Progress(c)'
<1> USE DEF C!ClientTypeOK, C!Connecting, C!Waiting, C!Asking, C!GoTo, C!Return, Progress
<1>1. CASE \E o \in Calls : C!Call(c, o)
    <2>1. PICK o \in C!Ops : C!Call(c, o)
        BY <1>1, TimesOK
    <2> QED BY <2>1 DEF C!Call, C!Ops
<1>2. CASE \E d \in Daemons : C!Connected(c, d)
    BY <1>2, ZenonT(60) DEF C!Connected
<1>3. CASE C!ConnectFails(c, b)
    BY <1>3, ZenonT(60) DEF C!ConnectFails
<1>4. CASE C!NotRunning(c, b)
    BY <1>4, ZenonT(60) DEF C!NotRunning
<1>5. CASE C!SocketGone(c, b)
    BY <1>5, ZenonT(60) DEF C!SocketGone, C!PollAgain
<1>6. CASE C!PidGone(c, b)
    BY <1>6, ZenonT(60) DEF C!PidGone, C!PollAgain
<1>7. CASE C!ReadyFails(c)
    <2>1. /\ at[c] = "ready" /\ UNCHANGED <<op, exchange>>
          /\ \/ UNCHANGED <<at, result>>
             \/ C!Return(c, "ready timeout")
        BY <1>7 DEF C!ReadyFails
    <2> QED BY <2>1, ZenonT(60)
<1>8. CASE C!AgainFails(c)
    BY <1>8, ZenonT(60) DEF C!AgainFails
<1>9. CASE C!Answered(c)
    BY <1>9, ZenonT(60) DEF C!Answered
<1>10. CASE C!AnsweredError(c)
    BY <1>10, ZenonT(60) DEF C!AnsweredError
<1>11. CASE C!Cut(c)
    BY <1>11, ZenonT(60) DEF C!Cut
<1>12. CASE C!Recover(c)
    BY <1>12 DEF C!Recover
<1>13. CASE C!SpawnFails(c)
    BY <1>13 DEF C!SpawnFails
<1>14. CASE \E p \in PidsRead : C!ReadPid(c, p)
    <2>1. /\ at[c] \in C!Asking /\ UNCHANGED <<op, exchange, result>>
          /\ at' = [at EXCEPT ![c] = CASE at[c] = "recover"     -> "recover probe"
                                      [] at[c] = "not running" -> "not running probe"
                                      [] at[c] = "pid gone"    -> "pid gone probe"]
        BY <1>14 DEF C!ReadPid
    <2> QED BY <2>1
<1>15. CASE C!CallFails(c)
    BY <1>15, ZenonT(60) DEF C!CallFails
<1> QED BY <1>1, <1>2, <1>3, <1>4, <1>5, <1>6, <1>7, <1>8, <1>9, <1>10, <1>11, <1>12, <1>13,
           <1>14, <1>15
    DEF ClientAction

\* A wait: ask, and sleep or give up (client.rs:119-127, 178-268).
LEMMA ActionKeepsTime ==
    ASSUME C!ClientTypeOK, NEW c \in Clients, NEW b \in BOOLEAN, ClientAction(c, b),
           Progress(c), Slept(c), InTime(c)
    PROVE  Slept(c)' /\ InTime(c)'
<1>0. /\ waited \in [Clients -> Nat] /\ waited[c] \in Nat
      /\ backoff \in [Clients -> {InitialBackoff} \union 0..MaxBackoff] /\ backoff[c] \in Nat
      /\ at \in [Clients -> C!Points] /\ result \in [Clients -> C!Results]
      /\ op \in [Clients -> C!Ops \union {"none"}]
    BY TimesOK DEF C!ClientTypeOK
<1> USE <1>0 DEF C!Connecting, C!Waiting, C!GoTo, C!Return
<1>1. CASE \E o \in Calls : C!Call(c, o)
    <2>1. PICK o \in Calls : C!Call(c, o)
        BY <1>1
    <2>2. /\ at'[c] = "connect" /\ result' = result /\ result[c] = "none"
          /\ waited' = waited /\ backoff' = backoff /\ waited[c] = 0
        BY <2>1 DEF C!Call, Progress, Slept
    <2> QED BY <2>2 DEF Slept, InTime
<1>2. CASE \E d \in Daemons : C!Connected(c, d)
    BY <1>2 DEF C!Connected, Slept, InTime
<1>3. CASE C!ConnectFails(c, b)
    BY <1>3 DEF C!ConnectFails, Progress, Slept, InTime
<1>4. CASE C!NotRunning(c, b)
    BY <1>4 DEF C!NotRunning, Slept, InTime
<1>5. CASE C!PollAgain(c) /\ (C!SocketGone(c, b) \/ C!PidGone(c, b))
    <2>1. op[c] = "shutdown" /\ op' = op /\ backoff' = backoff /\ result[c] = "none"
        BY <1>5 DEF C!SocketGone, C!PidGone, C!PollAgain, Progress
    <2>2. CASE waited[c] >= ShutdownTimeout
        <3>1. waited' = waited /\ at'[c] = "returned"
            BY <1>5, <2>2 DEF C!PollAgain
        <3> QED BY <2>1, <2>2, <3>1, TimesOK DEF Slept, InTime
    <2>3. CASE ~(waited[c] >= ShutdownTimeout)
        <3>1. /\ waited' = [waited EXCEPT ![c] = @ + PollStep]
              /\ at' = [at EXCEPT ![c] = "socket gone"] /\ result' = result
            BY <1>5, <2>3 DEF C!PollAgain
        <3>2. waited'[c] = waited[c] + PollStep /\ at'[c] = "socket gone"
            BY <3>1
        <3>3. waited'[c] \in Nat \ {0} /\ waited'[c] < ShutdownTimeout + PollStep
            <4>1. ASSUME NEW w \in Nat, ~(w >= ShutdownTimeout)
                  PROVE  w + PollStep \in Nat \ {0} /\ w + PollStep < ShutdownTimeout + PollStep
                BY <4>1, TimesOK
            <4> QED BY <2>3, <3>2, <4>1
        <3>4. Slept(c)'
            BY <2>1, <3>2, <3>3 DEF Slept
        <3>5. InTime(c)'
            BY <2>1, <3>1, <3>3 DEF InTime
        <3> QED BY <3>4, <3>5
    <2> QED BY <2>2, <2>3
<1>6. CASE ~C!PollAgain(c) /\ (C!SocketGone(c, b) \/ C!PidGone(c, b))
    <2>1. /\ op' = op /\ backoff' = backoff /\ waited' = waited
          /\ at'[c] \in {"pid gone", "returned"} /\ result'[c] \in {result[c], "ok"}
        BY <1>6 DEF C!SocketGone, C!PidGone
    <2> QED BY <2>1 DEF Slept, InTime
<1>7. CASE C!ReadyFails(c)
    <2>1. op[c] # "shutdown" /\ op' = op /\ at[c] = "ready" /\ result[c] = "none"
        BY <1>7 DEF C!ReadyFails, Progress
    <2>2. CASE waited[c] < ReadyTimeout
        <3>1. /\ waited'[c] = waited[c] + backoff[c] /\ at' = at /\ result' = result
              /\ backoff'[c] = C!Smaller(2 * backoff[c], MaxBackoff)
            BY <1>7, <2>2 DEF C!ReadyFails, C!Sleep
        <3>2. backoff[c] >= 1 /\ (waited[c] > 0 => backoff[c] <= MaxBackoff)
              /\ (waited[c] = 0 => backoff[c] = InitialBackoff)
            BY <2>1, TimesOK DEF Slept
        <3>3. C!Smaller(2 * backoff[c], MaxBackoff) \in 1..MaxBackoff
            BY <3>2, TimesOK DEF C!Smaller
        <3> QED BY <2>1, <2>2, <3>1, <3>2, <3>3, TimesOK DEF Slept, InTime
    <2>3. CASE ~(waited[c] < ReadyTimeout)
        <3>1. UNCHANGED <<waited, backoff>> /\ at' = [at EXCEPT ![c] = "returned"]
            BY <1>7, <2>3 DEF C!ReadyFails
        <3>2. waited[c] >= ReadyTimeout
            BY <2>3, TimesOK
        <3>3. Slept(c)'
            BY <2>1, <3>1 DEF Slept
        <3>4. InTime(c)'
            BY <2>1, <3>1, <3>2 DEF InTime
        <3> QED BY <3>3, <3>4
    <2> QED BY <2>2, <2>3
<1>8. CASE C!AgainFails(c)
    BY <1>8 DEF C!AgainFails, Slept, InTime
<1>9. CASE C!Answered(c)
    BY <1>9 DEF C!Answered, Progress, Slept, InTime
<1>10. CASE C!AnsweredError(c)
    BY <1>10 DEF C!AnsweredError, Slept, InTime
<1>11. CASE C!Cut(c)
    BY <1>11 DEF C!Cut, Slept, InTime
<1>12. CASE C!Recover(c)
    BY <1>12 DEF C!Recover, Slept, InTime
<1>13. CASE C!SpawnFails(c)
    BY <1>13 DEF C!SpawnFails, Slept, InTime
<1>14. CASE \E p \in PidsRead : C!ReadPid(c, p)
    BY <1>14 DEF C!ReadPid, C!Asking, Slept, InTime
<1>15. CASE C!CallFails(c)
    BY <1>15 DEF C!CallFails, Slept, InTime
<1> QED BY <1>1, <1>2, <1>3, <1>4, <1>5, <1>6, <1>7, <1>8, <1>9, <1>10, <1>11, <1>12, <1>13,
           <1>14, <1>15
    DEF ClientAction

\* Nothing a client does acknowledges a shutdown.
LEMMA ActionMakesNoAck ==
    ASSUME C!ClientTypeOK, NEW c \in Clients, NEW b \in BOOLEAN, ClientAction(c, b),
           Progress(c), op'[c] = "shutdown", exchange'[c] = "answered"
    PROVE  op[c] = "shutdown" /\ exchange[c] = "answered" /\ peer'[c] = peer[c]
BY DEF C!ClientTypeOK, ClientAction, C!Call, C!Connected, C!ConnectFails, C!NotRunning,
       C!SocketGone, C!PollAgain, C!PidGone, C!ReadyFails, C!AgainFails, C!Answered,
       C!AnsweredError, C!Cut, C!Recover, C!SpawnFails, C!ReadPid, C!CallFails, Progress

\* The step of a client keeps the invariant of the calls (client.rs:92-268).
LEMMA ClientKeepsCalls ==
    ASSUME CallIInv, D!TypeOK, NEW c \in Clients, ClientCalls(c) \/ ClientStep(c)
    PROVE  CallIInv'
<1>1. PICK b \in BOOLEAN : ClientAction(c, b)
    BY ClientStepIs
<1>2. UNCHANGED <<phase, runs>> /\ spawned' \in SUBSET Daemons
    BY ClientStepIs DEF daemonVars, CallIInv
<1>3. C!ClientTypeOK /\ C!ClientTypeOK'
    BY <1>1, ActionKeepsType DEF CallIInv
<1>4. ASSUME NEW e \in Clients \ {c}
      PROVE  /\ op'[e] = op[e] /\ at'[e] = at[e] /\ peer'[e] = peer[e]
             /\ exchange'[e] = exchange[e] /\ waited'[e] = waited[e]
             /\ backoff'[e] = backoff[e] /\ result'[e] = result[e]
    BY <1>1, <1>3, ActionIsLocal
<1>5. Progress(c) /\ Slept(c) /\ InTime(c) /\ Acked
    BY DEF CallIInv
<1>6. Progress(c)' /\ Slept(c)' /\ InTime(c)'
    BY <1>1, <1>2, <1>3, <1>5, ActionKeepsProgress, ActionKeepsTime
<1>7. ASSUME NEW e \in Clients \ {c} PROVE Progress(e)' /\ Slept(e)' /\ InTime(e)'
    <2>1. Progress(e) /\ Slept(e) /\ InTime(e)
        BY DEF CallIInv
    <2>2. runs'[e] = runs[e]
        BY <1>2
    <2>3. Progress(e)'
        BY <1>4, <2>1, <2>2 DEF Progress
    <2>4. Slept(e)'
        BY <1>4, <2>1 DEF Slept
    <2>5. InTime(e)'
        BY <1>4, <2>1 DEF InTime
    <2> QED BY <2>3, <2>4, <2>5
<1>8. Acked'
    <2> SUFFICES ASSUME NEW e \in Clients, op'[e] = "shutdown", exchange'[e] = "answered"
                 PROVE  peer'[e] \in Daemons /\ phase'[peer'[e]] \in Past
        BY DEF Acked, Past
    <2>1. op[e] = "shutdown" /\ exchange[e] = "answered" /\ peer'[e] = peer[e]
        BY <1>1, <1>3, <1>4, <1>5, ActionMakesNoAck
    <2> QED BY <1>2, <1>5, <2>1 DEF Acked
<1> QED BY <1>2, <1>3, <1>6, <1>7, <1>8 DEF CallIInv

-----------------------------------------------------------------------------
(* The daemons. *)

\* A daemon that has left its loop does not come back, and its state ends once.
LEMMA PastIsPast ==
    ASSUME D!TypeOK, [D!Next]_D!vars, NEW d \in Daemons, phase[d] \in Past
    PROVE  phase'[d] \in Past /\ (state'[d] = "alive" => state[d] = "alive")
<1> USE DEF D!TypeOK, Past, D!Step, D!SetState
<1>1. ASSUME NEW e \in Daemons, D!RunWithPidFile(e) \/ D!RunWithoutPidFile(e) \/ D!RunFailsAtOnce(e)
      PROVE  phase'[d] \in Past /\ state' = state
    BY <1>1 DEF D!RunWithPidFile, D!RunWithoutPidFile, D!RunFailsAtOnce
<1>2. ASSUME NEW e \in Daemons, D!RunStep(e)
      PROVE  phase'[d] \in Past /\ (state'[d] = "alive" => state[d] = "alive")
    BY <1>2 DEF D!RunStep, D!Claim, D!OnStart, D!OnStartFails, D!Bind, D!Close, D!CleanUp,
       D!OnStop, D!ReturnDropsGuard
<1>3. ASSUME NEW e \in Daemons, D!EndOfLoop(e) PROVE phase'[d] \in Past /\ state' = state
    BY <1>3 DEF D!EndOfLoop, D!EndAsked, D!EndByProbe, D!EndByError, D!EndByPanic, D!LeaveLoop
<1>4. ASSUME NEW e \in Daemons, D!Exit(e) \/ D!Crash(e)
      PROVE  phase'[d] \in Past /\ (state'[d] = "alive" => state[d] = "alive")
    BY <1>4 DEF D!Exit, D!Crash
<1>5. ASSUME NEW p \in D!P!Pids, D!PidReuse(p) PROVE UNCHANGED <<phase, state>>
    BY <1>5 DEF D!PidReuse
<1>6. CASE UNCHANGED D!vars
    BY <1>6 DEF D!vars
<1> QED BY <1>1, <1>2, <1>3, <1>4, <1>5, <1>6 DEF D!Next

\* What becomes of the connection of c in a step of daemon d: nothing, or it is
\* cut off, on_request runs, its result is sent, or something else is answered.
Effect(d, c) ==
    \/ exchange'[c] = exchange[c] /\ runs'[c] = runs[c]
    \/ exchange[c] \in {"open", "executed"} /\ exchange'[c] = "cut" /\ runs'[c] = runs[c]
    \/ exchange[c] = "open" /\ exchange'[c] = "executed" /\ IsRequest(c) /\ runs'[c] = runs[c] + 1
    \/ exchange[c] = "executed" /\ exchange'[c] \in {"answered", "error"} /\ runs'[c] = runs[c]
    \/ /\ exchange[c] = "open" /\ exchange'[c] = "answered" /\ ~IsRequest(c) /\ runs'[c] = runs[c]
       /\ op[c] = "shutdown" => peer[c] = d /\ phase'[d] \in Past

Exchanges == {"none", "open", "executed", "answered", "error", "cut"}

\* A daemon changes nothing else of the calls (daemon.rs:203, 283-329).
LEMMA DaemonStepIs ==
    ASSUME CallIInv, D!TypeOK, NEW d \in Daemons,
           DaemonStep(d) \/ DaemonEnds(d) \/ Serve(d)
    PROVE  /\ UNCHANGED <<op, at, peer, waited, backoff, told, result, spawned>>
           /\ exchange' \in [Clients -> Exchanges]
           /\ \A c \in Clients : Effect(d, c)
<1>1. exchange \in [Clients -> Exchanges] /\ runs \in [Clients -> Nat]
    BY DEF CallIInv, C!ClientTypeOK, Exchanges
<1>2. CASE DaemonStep(d) \/ DaemonEnds(d)
    <2>1. CutOff /\ UNCHANGED <<op, at, peer, waited, backoff, told, result, spawned, runs>>
        BY <1>2 DEF DaemonStep, DaemonEnds
    <2> QED BY <1>1, <2>1 DEF CutOff, OpenAt, Exchanges, Effect
<1>3. ASSUME NEW c \in Clients, Execute(d, c) \/ Reply(d, c) \/ Acknowledge(d, c)
      PROVE  /\ UNCHANGED <<op, at, peer, waited, backoff, told, result, spawned>>
             /\ \E e \in Exchanges : exchange' = [exchange EXCEPT ![c] = e]
             /\ Effect(d, c)
             /\ runs' = runs \/ runs' = [runs EXCEPT ![c] = @ + 1]
    <2>1. CASE Execute(d, c)
        BY <1>1, <2>1 DEF Execute, Set, Exchanges, Effect
    <2>2. CASE Reply(d, c)
        BY <1>1, <2>2 DEF Reply, Set, Exchanges, Effect
    <2>3. CASE Acknowledge(d, c)
        BY <1>1, <2>3 DEF Acknowledge, Set, Exchanges, Effect, IsRequest, D!LeaveLoop, D!Step,
           D!TypeOK, Past, daemonVars
    <2> QED BY <1>3, <2>1, <2>2, <2>3
<1>4. CASE Serve(d)
    <2>1. PICK c \in Clients : Execute(d, c) \/ Reply(d, c) \/ Acknowledge(d, c)
        BY <1>4 DEF Serve
    <2>2. exchange' \in [Clients -> Exchanges]
        BY <1>1, <1>3, <2>1
    <2>3. ASSUME NEW e \in Clients \ {c} PROVE Effect(d, e)
        BY <1>1, <1>3, <2>1 DEF Effect
    <2> QED BY <1>3, <2>1, <2>2, <2>3
<1> QED BY <1>2, <1>4

\* So does the step of a daemon, whichever clients it serves or cuts off.
LEMMA DaemonKeepsCalls ==
    ASSUME CallIInv, D!TypeOK, NEW d \in Daemons, [Next]_vars,
           DaemonStep(d) \/ DaemonEnds(d) \/ Serve(d)
    PROVE  CallIInv'
<1>1. /\ UNCHANGED <<op, at, peer, waited, backoff, told, result, spawned>>
      /\ exchange' \in [Clients -> Exchanges]
      /\ \A c \in Clients : Effect(d, c)
    BY DaemonStepIs
<1>2. C!ClientTypeOK' /\ (spawned \in SUBSET Daemons)'
    BY <1>1 DEF CallIInv, C!ClientTypeOK, Exchanges
<1>3. (runs \in [Clients -> Nat])'
    BY DEF DaemonStep, DaemonEnds, Serve, Execute, Reply, Acknowledge, CallIInv
<1>4. ASSUME NEW c \in Clients PROVE Progress(c)' /\ Slept(c)' /\ InTime(c)'
    <2>1. Progress(c) /\ Slept(c) /\ InTime(c) /\ Effect(d, c) /\ at[c] \in C!Points
          /\ runs[c] \in Nat
        BY <1>1 DEF CallIInv, C!ClientTypeOK
    <2>2. Progress(c)'
        <3>1. CASE exchange'[c] = exchange[c] /\ runs'[c] = runs[c]
            BY <1>1, <2>1, <3>1 DEF Progress
        <3>2. CASE exchange[c] \in {"open", "executed"} /\ exchange'[c] = "cut" /\ runs'[c] = runs[c]
            BY <1>1, <2>1, <3>2 DEF Progress, C!Points, C!Connecting, C!Waiting, C!Asking, C!Probing
        <3>3. CASE exchange[c] = "open" /\ exchange'[c] = "executed" /\ IsRequest(c) /\ runs'[c] = runs[c] + 1
            <4>1. runs[c] = 0 /\ at[c] \in {"connect wait", "again wait"} /\ op[c] = "request"
                BY <2>1, <3>3 DEF Progress, IsRequest
            <4>2. runs'[c] = 1
                <5>1. ASSUME NEW r, NEW s, r = 0, s = r + 1 PROVE s = 1
                    BY <5>1
                <5>2. runs'[c] = runs[c] + 1
                    BY <3>3
                <5> QED BY <4>1, <5>1, <5>2
            <4> QED BY <1>1, <2>1, <3>3, <4>1, <4>2 DEF Progress
        <3>4. CASE exchange[c] = "executed" /\ exchange'[c] \in {"answered", "error"} /\ runs'[c] = runs[c]
            BY <1>1, <2>1, <3>4 DEF Progress, C!Points, C!Connecting, C!Waiting, C!Asking, C!Probing
        <3>5. CASE exchange[c] = "open" /\ exchange'[c] = "answered" /\ ~IsRequest(c) /\ runs'[c] = runs[c]
            BY <1>1, <2>1, <3>5 DEF Progress, IsRequest, C!Points, C!Connecting, C!Waiting, C!Asking, C!Probing
        <3> QED BY <2>1, <3>1, <3>2, <3>3, <3>4, <3>5 DEF Effect
    <2>3. Slept(c)' /\ InTime(c)'
        BY <1>1, <2>1 DEF Slept, InTime
    <2> QED BY <2>2, <2>3
<1>5. Acked'
    <2> SUFFICES ASSUME NEW c \in Clients, op'[c] = "shutdown", exchange'[c] = "answered"
                 PROVE  peer'[c] \in Daemons /\ phase'[peer'[c]] \in Past
        BY DEF Acked, Past
    <2>1. Progress(c) /\ Acked /\ Effect(d, c) /\ at[c] \in C!Points
        BY <1>1 DEF CallIInv, C!ClientTypeOK
    <2>2. CASE exchange[c] = "answered"
        <3>1. peer[c] \in Daemons /\ phase[peer[c]] \in Past
            BY <1>1, <2>1, <2>2 DEF Acked
        <3> QED BY <1>1, <3>1, DaemonPart, PastIsPast
    <2>3. CASE exchange[c] # "answered"
        <3>1. ~(exchange[c] = "executed")
            BY <1>1, <2>1 DEF Progress, C!Points, C!Connecting, C!Waiting, C!Asking, C!Probing
        <3> QED BY <1>1, <2>1, <2>3, <3>1 DEF Effect
    <2> QED BY <2>2, <2>3
<1> QED BY <1>2, <1>3, <1>4, <1>5 DEF CallIInv

\* The invariant of the calls is inductive beside the types of the daemons.
LEMMA NextKeepsCalls == CallIInv /\ D!TypeOK /\ [Next]_vars => CallIInv'
<1> SUFFICES ASSUME CallIInv, D!TypeOK, [Next]_vars PROVE CallIInv'
    OBVIOUS
<1>1. CASE UNCHANGED vars \/ \E p \in D!P!Pids : PidReuse(p)
    <2>1. UNCHANGED <<op, at, peer, exchange, waited, backoff, told, result, phase, spawned, runs>>
        BY <1>1 DEF vars, daemonVars, clientVars, PidReuse, D!PidReuse
    <2>2. C!ClientTypeOK' /\ (spawned \in SUBSET Daemons)' /\ (runs \in [Clients -> Nat])' /\ Acked'
        BY <2>1 DEF CallIInv, C!ClientTypeOK, Acked
    <2>3. ASSUME NEW c \in Clients PROVE Progress(c)' /\ Slept(c)' /\ InTime(c)'
        <3>1. Progress(c) /\ Slept(c) /\ InTime(c)
            BY DEF CallIInv
        <3>2. Progress(c)'
            BY <2>1, <3>1 DEF Progress
        <3>3. Slept(c)' /\ InTime(c)'
            BY <2>1, <3>1 DEF Slept, InTime
        <3> QED BY <3>2, <3>3
    <2> QED BY <2>2, <2>3 DEF CallIInv
<1> QED BY <1>1, ClientKeepsCalls, DaemonKeepsCalls DEF Next

-----------------------------------------------------------------------------
(* The daemons of the whole system are those of DaemonRun. *)

\* Every behaviour of the system is one of daemons alone.
THEOREM ImplementsDaemonRun == Spec => D!Spec
<1>1. Init => D!Init
    BY DEF Init
<1> QED BY <1>1, DaemonPart, PTL DEF Spec, D!Spec

\* What DaemonRunProofs assumes of the constants, Sockd assumes too.
LEMMA RunConstants == DP!RunConstantsOK
BY SystemConstantsOK
DEF SystemConstantsOK, D!P!ConstantsOK, D!P!Specials, D!P!Files, D!P!NoFile, D!P!OldPid,
    D!P!Garbage, D!P!NotUtf8, D!P!NoPid, D!S!SocketConstants, D!S!NoSocket, D!S!Regular,
    D!S!Stale, DP!RunConstantsOK, DP!P!ConstantsOK, DP!P!Specials, DP!P!Files, DP!P!NoFile,
    DP!P!OldPid, DP!P!Garbage, DP!P!NotUtf8, DP!P!NoPid, DP!S!SocketConstants,
    DP!S!NoSocket, DP!S!Regular, DP!S!Stale

\* So whatever is proved of them holds here.
LEMMA SameDaemons == Spec => DP!Spec
BY ImplementsDaemonRun, SameInit, SameNext, PTL DEF D!Spec, DP!Spec

\* The types of the daemons, from DaemonRunProofs.
LEMMA DaemonTypes == Spec => []D!TypeOK
<1>1. DP!TypeOK => D!TypeOK
    BY DEF DP!TypeOK, DP!P!TypeOK, DP!P!Steps, DP!P!Ended, DP!P!Pids, DP!P!Files, DP!P!NoFile,
       DP!P!OldPid, DP!P!Garbage, DP!P!NotUtf8, DP!P!NoPid, DP!P!Claiming, DP!S!SocketTypeOK,
       DP!S!Binding, DP!S!Sockets, DP!S!NoSocket, DP!S!Regular, DP!S!Stale, DP!Phases, DP!Reasons,
       D!TypeOK, D!P!TypeOK, D!P!Steps, D!P!Ended, D!P!Pids, D!P!Files, D!P!NoFile,
       D!P!OldPid, D!P!Garbage, D!P!NotUtf8, D!P!NoPid, D!P!Claiming, D!S!SocketTypeOK,
       D!S!Binding, D!S!Sockets, D!S!NoSocket, D!S!Regular, D!S!Stale, D!Phases, D!Reasons
<1> QED BY <1>1, RunConstants, SameDaemons, DP!TypeCorrect, PTL

\* The invariant of the calls holds throughout.
LEMMA Invariance == Spec => [](CallIInv /\ D!TypeOK)
BY InitCalls, NextKeepsCalls, DaemonTypes, PTL DEF Spec

-----------------------------------------------------------------------------
(* What follows. *)

\* Every variable has its type: what a call and a daemon store of each other
\* (client.rs:36-49, daemon.rs:190-221).
THEOREM TypeCorrect == Spec => []TypeOK
<1>1. CallIInv /\ D!TypeOK => TypeOK
    BY DEF CallIInv, TypeOK
<1> QED BY <1>1, Invariance, PTL

\* request never runs on_request a second time (client.rs:99-116, 271-286).
THEOREM RunsAtMostOnce == Spec => []AtMostOnce
<1>1. CallIInv => \A c \in Clients : runs[c] \in {0, 1}
    BY DEF CallIInv, Progress
<1>2. CallIInv => AtMostOnce
    BY <1>1 DEF AtMostOnce
<1> QED BY <1>2, Invariance, PTL

\* A caller who gets an answer, or a timeout, knows whether on_request ran
\* (client.rs:99-116, 178-198).
THEOREM ResultIsTrue == Spec => []ResultTellsExecution
<1>1. CallIInv => ResultTellsExecution
    BY DEF CallIInv, Progress, ResultTellsExecution
<1> QED BY <1>1, Invariance, PTL

\* Both waits keep their limits, for every choice of timeouts and backoffs
\* (client.rs:178-198, 229-246).
THEOREM WaitsAreBounded == Spec => []GivesUpInTime
<1>1. CallIInv => GivesUpInTime
    BY DEF CallIInv, GivesUpInTime
<1> QED BY <1>1, Invariance, PTL

-----------------------------------------------------------------------------
(* What the PID file tells a client of the state of a daemon. *)

\* What DaemonRunProofs knows of every daemon.
DaemonIInv == D!TypeOK /\ DP!PP!IInv /\ DP!OwnIInv /\ DP!PidOutlivesState

\* What is known of the daemons holds throughout.
LEMMA DaemonInvariance == Spec => []DaemonIInv
BY RunConstants, SameDaemons, DaemonTypes, DP!Invariance, DP!PidFileOutlivesState, PTL
DEF DaemonIInv

\* Between the two system calls of a client: read_pid returns the pid of the daemon
\* whose state is alive (pidfile.rs:29-33, daemon.rs:194-215) ...
LEMMA ReadsWhoIsWarm ==
    ASSUME DaemonIInv, D!Guarded, NEW d \in D!Warm
    PROVE  D!P!ReadablePid = d
<1>1. file = d /\ d \in written
    BY DEF DaemonIInv, DP!PidOutlivesState, DP!Guarded, D!Guarded, DP!Warm, D!Warm
<1> QED BY <1>1 DEF D!P!ReadablePid

\* ... and kill(pid, 0) finds that daemon as long as its state is alive.
LEMMA WarmIsAlive ==
    ASSUME DaemonIInv, D!Guarded, NEW c \in Clients, told[c] \in D!Warm
    PROVE  PidIsAlive(c)
<1>1. told[c] \in Daemons /\ D!P!Running(told[c])
    BY DEF D!Warm, DaemonIInv, DP!OwnIInv, DP!InStep, DP!Marks, DP!Inside, D!Guarded, D!P!Running
<1>2. told[c] # D!P!NoPid
    BY <1>1, SystemConstantsOK DEF SystemConstantsOK, D!P!ConstantsOK, D!P!Specials
<1> QED BY <1>1, <1>2 DEF PidIsAlive, D!P!IsProcessAlive

\* Startups that race stay raced, and nobody changes the configuration.
LEMMA GuardedBefore ==
    ASSUME DaemonIInv, [Next]_vars, D!Guarded'
    PROVE  D!Guarded
<1>1. [DP!Next]_DP!vars
    BY DaemonPart, SameNext
<1>2. DP!PP!TypeOK /\ DP!Typed
    BY DEF DaemonIInv, DP!PP!IInv, DP!OwnIInv
<1>3. DP!Guarded' => DP!Guarded
    BY <1>1, <1>2, RunConstants, DP!GuardedBefore
<1> QED BY <1>3 DEF D!Guarded, DP!Guarded

\* shutdown says "done" or "not running" when kill finds no process.
LEMMA ToldWhenNobody ==
    ASSUME C!ClientTypeOK, NEW c \in Clients, ClientCalls(c) \/ ClientStep(c),
           Progress(c), op'[c] = "shutdown", result'[c] \in {"ok", "false"}
    PROVE  /\ ~PidIsAlive(c)
           /\ op[c] = "shutdown" /\ result[c] = "none"
           /\ at[c] \in {"not running probe", "pid gone probe"}
           /\ result'[c] = "ok" => at[c] = "pid gone probe" /\ peer'[c] = peer[c]
<1> USE DEF C!ClientTypeOK, C!GoTo, C!Return, Progress
<1>1. CASE ClientCalls(c)
    BY <1>1 DEF ClientCalls, C!Call
<1>2. CASE ClientConnects(c)
    BY <1>2 DEF ClientConnects, C!Connected, C!ConnectFails, C!ReadyFails, C!Sleep, C!AgainFails,
       C!Connecting
<1>3. CASE ClientReads(c)
    BY <1>3 DEF ClientReads, C!Answered, C!AnsweredError, C!Cut, C!Waiting
<1>4. CASE ClientWaits(c) \/ ClientSpawns(c) \/ ClientSpawnFails(c)
    BY <1>4 DEF ClientWaits, ClientSpawns, ClientSpawnFails, C!Recover, C!SpawnFails
<1>5. CASE ClientAsksPid(c)
    BY <1>5 DEF ClientAsksPid, C!NotRunning, C!PidGone, C!PollAgain
<1>6. CASE ClientAsksSocket(c)
    BY <1>6 DEF ClientAsksSocket, C!SocketGone, C!PollAgain
<1>7. CASE ClientReadsPid(c)
    BY <1>7 DEF ClientReadsPid, C!ReadPid, C!Asking
<1>8. CASE ClientFails(c)
    BY <1>8 DEF ClientFails, C!CallFails
<1> QED BY <1>1, <1>2, <1>3, <1>4, <1>5, <1>6, <1>7, <1>8 DEF ClientStep

\* Between read_pid and kill a client knows the pid that read_pid returned.
LEMMA ProbesWhatItRead ==
    ASSUME C!ClientTypeOK, NEW c \in Clients, ClientCalls(c) \/ ClientStep(c),
           at'[c] \in {"not running probe", "pid gone probe"}
    PROVE  /\ at[c] \in {"not running", "pid gone"}
           /\ at'[c] = "pid gone probe" => at[c] = "pid gone"
           /\ UNCHANGED <<op, peer, exchange, result>>
           /\ c \in PidReaders => told'[c] = D!P!ReadablePid
<1> USE DEF C!ClientTypeOK, C!GoTo, C!Return
<1>1. CASE ClientCalls(c)
    BY <1>1 DEF ClientCalls, C!Call
<1>2. CASE ClientConnects(c)
    BY <1>2 DEF ClientConnects, C!Connected, C!ConnectFails, C!ReadyFails, C!Sleep, C!AgainFails,
       C!Connecting
<1>3. CASE ClientReads(c)
    BY <1>3 DEF ClientReads, C!Answered, C!AnsweredError, C!Cut, C!Waiting
<1>4. CASE ClientWaits(c) \/ ClientSpawns(c) \/ ClientSpawnFails(c)
    BY <1>4 DEF ClientWaits, ClientSpawns, ClientSpawnFails, C!Recover, C!SpawnFails
<1>5. CASE ClientAsksPid(c)
    BY <1>5 DEF ClientAsksPid, C!NotRunning, C!PidGone, C!PollAgain
<1>6. CASE ClientAsksSocket(c)
    BY <1>6 DEF ClientAsksSocket, C!SocketGone, C!PollAgain
<1>7. CASE ClientReadsPid(c)
    BY <1>7 DEF ClientReadsPid, C!ReadPid, C!Asking
<1>8. CASE ClientFails(c)
    BY <1>8 DEF ClientFails, C!CallFails
<1> QED BY <1>1, <1>2, <1>3, <1>4, <1>5, <1>6, <1>7, <1>8 DEF ClientStep

\* A step of anybody but c leaves c where it is, with what it knows and has returned.
LEMMA OnlyItself ==
    ASSUME CallIInv, D!TypeOK, [Next]_vars, NEW c \in Clients, ~(ClientCalls(c) \/ ClientStep(c))
    PROVE  /\ op'[c] = op[c] /\ at'[c] = at[c] /\ peer'[c] = peer[c]
           /\ told'[c] = told[c] /\ result'[c] = result[c]
<1>1. ASSUME NEW e \in Clients \ {c}, ClientCalls(e) \/ ClientStep(e)
      PROVE  /\ op'[c] = op[c] /\ at'[c] = at[c] /\ peer'[c] = peer[c]
             /\ told'[c] = told[c] /\ result'[c] = result[c]
    <2>1. PICK b \in BOOLEAN : ClientAction(e, b)
        BY <1>1, ClientStepIs
    <2> QED BY <2>1, ActionIsLocal DEF CallIInv
<1>2. ASSUME NEW d \in Daemons, DaemonStep(d) \/ DaemonEnds(d) \/ Serve(d)
      PROVE  UNCHANGED <<op, at, peer, told, result>>
    BY <1>2, DaemonStepIs
<1>3. CASE UNCHANGED vars \/ \E p \in D!P!Pids : PidReuse(p)
    BY <1>3 DEF vars, clientVars, PidReuse
<1> QED BY <1>1, <1>2, <1>3 DEF Next

\* A shutdown that has read the PID file knows the pid of the daemon that acknowledged,
\* as long as that daemon's state is alive.
Remembered ==
    D!Guarded => \A c \in PidReaders :
        at[c] = "pid gone probe" /\ peer[c] \in D!Warm => told[c] = peer[c]

\* It read it from the file, and what the file names afterwards does not matter.
LEMMA NextKeepsRemembered ==
    CallIInv /\ DaemonIInv /\ Remembered /\ [Next]_vars => Remembered'
<1> SUFFICES ASSUME CallIInv, DaemonIInv, Remembered, [Next]_vars, D!Guarded',
                    NEW c \in PidReaders, at'[c] = "pid gone probe", peer'[c] \in D!Warm'
             PROVE  told'[c] = peer'[c]
    BY DEF Remembered
<1>1. D!Guarded /\ c \in Clients /\ C!ClientTypeOK /\ Progress(c) /\ Acked /\ D!TypeOK
    BY GuardedBefore, SystemConstantsOK DEF SystemConstantsOK, CallIInv, DaemonIInv
<1>2. CASE ClientCalls(c) \/ ClientStep(c)
    <2>1. /\ at[c] = "pid gone" /\ peer' = peer /\ told'[c] = D!P!ReadablePid
        BY <1>1, <1>2, ProbesWhatItRead
    <2>2. D!Warm' = D!Warm
        BY <1>1, <1>2, ClientStepIs DEF daemonVars, D!Warm
    <2> QED BY <1>1, <2>1, <2>2, ReadsWhoIsWarm
<1>3. CASE ~(ClientCalls(c) \/ ClientStep(c))
    <2>1. at[c] = "pid gone probe" /\ peer'[c] = peer[c] /\ told'[c] = told[c]
        BY <1>1, <1>3, OnlyItself
    <2>2. peer[c] \in Daemons /\ phase[peer[c]] \in Past
        BY <1>1, <2>1 DEF Progress, Acked
    <2>3. state'[peer[c]] = "alive"
        BY <2>1 DEF D!Warm
    <2>4. state[peer[c]] = "alive"
        BY <1>1, <2>2, <2>3, DaemonPart, PastIsPast
    <2> QED BY <1>1, <2>1, <2>2, <2>4 DEF Remembered, D!Warm
<1> QED BY <1>2, <1>3

\* A daemon that was reported stopped has no state, now or later.
LEMMA NextKeepsStopped ==
    CallIInv /\ DaemonIInv /\ Remembered /\ ShutdownMeansStopped /\ [Next]_vars
        => ShutdownMeansStopped'
<1> SUFFICES ASSUME CallIInv, DaemonIInv, Remembered, ShutdownMeansStopped, [Next]_vars, D!Guarded',
                    NEW c \in PidReaders, op'[c] = "shutdown", result'[c] = "ok"
             PROVE  state'[peer'[c]] # "alive"
    BY DEF ShutdownMeansStopped
<1>1. D!Guarded /\ c \in Clients /\ C!ClientTypeOK /\ Progress(c) /\ Acked /\ D!TypeOK
    BY GuardedBefore, SystemConstantsOK DEF SystemConstantsOK, CallIInv, DaemonIInv
<1>2. CASE ClientCalls(c) \/ ClientStep(c)
    <2>1. /\ ~PidIsAlive(c) /\ op[c] = "shutdown"
          /\ at[c] = "pid gone probe" /\ peer'[c] = peer[c]
        BY <1>1, <1>2, ToldWhenNobody
    <2>2. peer[c] \in Daemons
        BY <1>1, <2>1 DEF Progress, Acked
    <2>3. peer[c] \notin D!Warm
        BY <1>1, <2>1, WarmIsAlive DEF Remembered
    <2>4. state' = state
        BY <1>1, <1>2, ClientStepIs DEF daemonVars
    <2> QED BY <2>1, <2>2, <2>3, <2>4 DEF D!Warm
<1>3. CASE ~(ClientCalls(c) \/ ClientStep(c))
    <2>1. op[c] = "shutdown" /\ result[c] = "ok" /\ peer'[c] = peer[c]
        BY <1>1, <1>3, OnlyItself
    <2>2. state[peer[c]] # "alive"
        BY <1>1, <2>1 DEF ShutdownMeansStopped
    <2>3. peer[c] \in Daemons /\ phase[peer[c]] \in Past
        BY <1>1, <2>1 DEF Progress, Acked
    <2> QED BY <1>1, <2>1, <2>2, <2>3, DaemonPart, PastIsPast
<1> QED BY <1>2, <1>3

\* What "stopped" tells the caller of shutdown is true (client.rs:229-260,
\* daemon.rs:213-221), whatever happens between its two looks at the PID file.
THEOREM StoppedIsStopped == Spec => []ShutdownMeansStopped
<1>1. Init => Remembered /\ ShutdownMeansStopped
    BY SystemConstantsOK DEF SystemConstantsOK, Init, C!ClientInit, Remembered, ShutdownMeansStopped
<1> QED BY <1>1, NextKeepsRemembered, NextKeepsStopped, Invariance, DaemonInvariance, PTL DEF Spec

-----------------------------------------------------------------------------
(* The system is the service that Service describes. *)

contended == overlap \/ withPid # Daemons

\* Which results each call can have, whatever happens.
Possible(o) ==
    CASE o = "request"  -> {"ok", "daemon error", "io", "ready timeout"}
      [] o = "ping"     -> {"ok", "io", "ready timeout"}
      [] o = "shutdown" -> {"ok", "false", "io", "shutdown timeout"}

\* A step of a client begins its call, goes on with it, or returns a result.
LEMMA StepOfCall ==
    ASSUME C!ClientTypeOK, NEW c \in Clients, ClientCalls(c) \/ ClientStep(c), Progress(c)
    PROVE  \/ op' = op /\ result' = result
           \/ /\ op[c] = "none" /\ result' = result
              /\ \E o \in C!Ops : op' = [op EXCEPT ![c] = o]
           \/ /\ op[c] # "none" /\ result[c] = "none" /\ op' = op
              /\ \E r \in Possible(op[c]) : result' = [result EXCEPT ![c] = r]
<1> USE DEF C!ClientTypeOK, C!GoTo, C!Return, Progress, Possible, C!Ops
<1>1. CASE ClientCalls(c)
    BY <1>1, TimesOK DEF ClientCalls, C!Call
<1>2. CASE ClientConnects(c)
    BY <1>2 DEF ClientConnects, C!Connected, C!ConnectFails, C!ReadyFails, C!Sleep, C!AgainFails,
       C!Connecting
<1>3. CASE ClientReads(c)
    BY <1>3 DEF ClientReads, C!Answered, C!AnsweredError, C!Cut, C!Waiting
<1>4. CASE ClientWaits(c) \/ ClientSpawns(c) \/ ClientSpawnFails(c)
    BY <1>4 DEF ClientWaits, ClientSpawns, ClientSpawnFails, C!Recover, C!SpawnFails
<1>5. CASE ClientAsksPid(c)
    BY <1>5 DEF ClientAsksPid, C!NotRunning, C!PidGone, C!PollAgain
<1>6. CASE ClientAsksSocket(c)
    BY <1>6 DEF ClientAsksSocket, C!SocketGone, C!PollAgain
<1>7. CASE ClientReadsPid(c)
    BY <1>7 DEF ClientReadsPid, C!ReadPid
<1>8. CASE ClientFails(c)
    BY <1>8 DEF ClientFails, C!CallFails, C!Connecting, C!Asking
<1> QED BY <1>1, <1>2, <1>3, <1>4, <1>5, <1>6, <1>7, <1>8 DEF ClientStep

\* What the daemons do is a step of the lease, or the lease does not see it.
LEMMA StepOfLease ==
    DaemonIInv /\ [Next]_vars => [Promise!Lease!Next]_<<D!Warm, contended>>
<1> SUFFICES ASSUME DaemonIInv, [Next]_vars
             PROVE  [Promise!Lease!Next]_<<D!Warm, contended>>
    OBVIOUS
<1>1. DP!PP!IInv /\ DP!OwnIInv /\ [DP!Next]_DP!vars
    BY DaemonPart, SameNext DEF DaemonIInv
<1>2. [DP!State!Next]_<<DP!Warm, overlap \/ withPid # Daemons>>
    BY <1>1, RunConstants, DP!LeaseStep
<1> QED BY <1>2 DEF DP!State!Next, DP!State!Contend, DP!State!Acquire, DP!State!Release, DP!Warm,
        Promise!Lease!Next, Promise!Lease!Contend, Promise!Lease!Acquire, Promise!Lease!Release,
        D!Warm, contended

\* on_request runs in a daemon whose state is alive (daemon.rs:194-215, 269-299).
LEMMA LoopIsWarm ==
    ASSUME DaemonIInv, NEW d \in Daemons, phase[d] = "loop"
    PROVE  D!Warm # {}
<1>1. state[d] = "alive"
    BY DEF DaemonIInv, DP!OwnIInv, DP!InStep, DP!Marks, DP!Inside
<1> QED BY <1>1 DEF D!Warm

\* The shutdowns that remember a moment without an owner.
Free == IF contended THEN {} ELSE SawNobody

\* A shutdown comes to remember one when it reads the PID file and nobody is warm, or
\* when the daemon it has read of loses its state, the only one there is.
LEMMA FreeIsMoment ==
    CallIInv /\ DaemonIInv /\ [Next]_vars => Promise!Moments
<1> SUFFICES ASSUME CallIInv, DaemonIInv, [Next]_vars, NEW c, c \in Free', c \notin Free
             PROVE  Promise!Pending(c) /\ D!Warm' = {}
    BY DEF Promise!Moments, Free, contended
<1>1. D!Guarded' /\ D!Guarded /\ ~contended /\ ~contended'
    BY GuardedBefore DEF Free, contended, D!Guarded
<1>2. /\ c \in PidReaders
      /\ at'[c] \in {"not running probe", "pid gone probe"}
      /\ told'[c] \in Daemons => state'[told'[c]] # "alive"
      /\ c \notin SawNobody
    BY <1>1 DEF Free, SawNobody
<1>3. c \in Clients /\ C!ClientTypeOK /\ D!TypeOK /\ Progress(c)
    BY <1>2, SystemConstantsOK DEF SystemConstantsOK, CallIInv, DaemonIInv
<1>4. CASE ClientCalls(c) \/ ClientStep(c)
    <2>1. /\ at[c] \in {"not running", "pid gone"} /\ UNCHANGED <<op, result>>
          /\ told'[c] = D!P!ReadablePid
        BY <1>2, <1>3, <1>4, ProbesWhatItRead
    <2>2. Promise!Pending(c)
        BY <1>3, <2>1 DEF Promise!Pending, Progress
    <2>3. state' = state
        BY <1>3, <1>4, ClientStepIs DEF daemonVars
    <2>4. ASSUME NEW d \in D!Warm' PROVE FALSE
        <3>1. d \in D!Warm /\ d \in Daemons /\ state'[d] = "alive"
            BY <2>3, <2>4 DEF D!Warm
        <3>2. told'[c] = d
            BY <1>1, <2>1, <3>1, ReadsWhoIsWarm
        <3> QED BY <1>2, <3>1, <3>2
    <2> QED BY <2>2, <2>4
<1>5. CASE ~(ClientCalls(c) \/ ClientStep(c))
    <2>1. at'[c] = at[c] /\ told'[c] = told[c]
        BY <1>3, <1>5, OnlyItself
    <2>2. told[c] \in D!Warm /\ told[c] \notin D!Warm'
        BY <1>2, <2>1 DEF SawNobody, D!Warm
    <2>3. Promise!Pending(c)
        BY <1>2, <1>3, <2>1 DEF Promise!Pending, Progress
    <2>4. \A d \in D!Warm : d = told[c]
        BY <1>1, <2>2, ReadsWhoIsWarm
    <2>5. [Promise!Lease!Next]_<<D!Warm, contended>>
        BY StepOfLease
    <2>6. \E d \in D!Warm : D!Warm' = D!Warm \ {d}
        BY <2>2, <2>5 DEF Promise!Lease!Next, Promise!Lease!Contend, Promise!Lease!Acquire,
           Promise!Lease!Release, contended
    <2> QED BY <2>2, <2>3, <2>4, <2>6
<1> QED BY <1>4, <1>5

\* Every step is one of the service, or one that the service does not see.
LEMMA StepOfService ==
    CallIInv /\ DaemonIInv /\ [Next]_vars => Promise!Next
<1> SUFFICES ASSUME CallIInv, DaemonIInv, [Next]_vars
             PROVE  Promise!Next
    OBVIOUS
<1>0. C!ClientTypeOK /\ D!TypeOK /\ CallIInv' /\ Promise!Moments
    BY NextKeepsCalls, FreeIsMoment DEF CallIInv, DaemonIInv
<1>1. ASSUME UNCHANGED <<op, runs, result>>
      PROVE  Promise!Next
    BY <1>0, <1>1, StepOfLease DEF Promise!Next, Promise!calls, contended
<1>2. ASSUME NEW c \in Clients, ClientCalls(c) \/ ClientStep(c)
      PROVE  Promise!Next
    <2>1. UNCHANGED <<D!Warm, contended, runs>>
        BY <1>0, <1>2, ClientStepIs DEF daemonVars, pidVars, D!Warm, contended
    <2>2. Progress(c) /\ Progress(c)'
        BY <1>0 DEF CallIInv
    <2>3. ASSUME op[c] = "none", result' = result, NEW o \in C!Ops, op' = [op EXCEPT ![c] = o]
          PROVE  Promise!Next
        <3>1. Promise!Call(c, o)
            BY <2>1, <2>3 DEF Promise!Call, contended
        <3> QED BY <1>0, <3>1 DEF Promise!Next, C!Ops
    <2>4. ASSUME op[c] # "none", result[c] = "none", op' = op,
                 NEW r \in Possible(op[c]), result' = [result EXCEPT ![c] = r]
          PROVE  Promise!Next
        <3>1. /\ result'[c] = r /\ op'[c] = op[c] /\ runs'[c] = runs[c]
              /\ op[c] \in {"request", "ping", "shutdown"}
            BY <1>0, <2>1, <2>4 DEF C!ClientTypeOK, C!Ops
        <3>2. r \in Promise!Results
            BY <3>1 DEF Promise!Results, Possible
        <3>3. Promise!Allowed(c, r)
            <4>1. CASE op[c] = "request"
                BY <2>2, <3>1, <4>1 DEF Progress, Possible, Promise!Allowed
            <4>2. CASE op[c] = "ping"
                BY <3>1, <4>2 DEF Possible, Promise!Allowed
            <4>3. CASE op[c] = "shutdown" /\ r \in {"ok", "false"}
                <5>1. ~PidIsAlive(c) /\ at[c] \in {"not running probe", "pid gone probe"}
                    BY <1>0, <1>2, <2>2, <3>1, <4>3, ToldWhenNobody
                <5>2. c \in PidReaders /\ ~contended => c \in Free
                    BY <5>1, WarmIsAlive DEF contended, D!Guarded, Free, SawNobody, D!Warm
                <5> QED BY <4>3, <5>2 DEF Promise!Allowed, contended, Free
            <4>4. CASE op[c] = "shutdown" /\ r \notin {"ok", "false"}
                BY <4>4 DEF Possible, Promise!Allowed
            <4> QED BY <3>1, <4>1, <4>2, <4>3, <4>4
        <3>4. Promise!Return(c, r)
            BY <2>1, <2>4, <3>3 DEF Promise!Return, Promise!Pending, contended
        <3> QED BY <1>0, <3>2, <3>4 DEF Promise!Next
    <2> QED BY <1>0, <1>1, <1>2, <2>1, <2>2, <2>3, <2>4, StepOfCall
<1>3. ASSUME NEW d \in Daemons, NEW c \in Clients, Execute(d, c)
      PROVE  Promise!Next
    <2>1. /\ phase[d] = "loop" /\ exchange[c] = "open" /\ IsRequest(c)
          /\ runs' = [runs EXCEPT ![c] = @ + 1]
          /\ UNCHANGED <<daemonVars, op, result>>
        BY <1>3 DEF Execute
    <2>2. op[c] = "request" /\ runs[c] = 0 /\ result[c] = "none"
        BY <2>1 DEF CallIInv, Progress, IsRequest
    <2>3. runs' = [runs EXCEPT ![c] = 1]
        BY <2>1, <2>2 DEF CallIInv
    <2>4. Promise!Execute(c)
        BY <2>1, <2>2, <2>3, LoopIsWarm
        DEF Promise!Execute, Promise!Pending, daemonVars, pidVars, D!Warm, contended
    <2> QED BY <1>0, <2>4 DEF Promise!Next
<1>4. ASSUME NEW d \in Daemons, DaemonStep(d) \/ DaemonEnds(d) \/ Serve(d),
             ~\E c \in Clients : Execute(d, c)
      PROVE  UNCHANGED <<op, runs, result>>
    BY <1>4 DEF DaemonStep, DaemonEnds, Serve, Reply, Acknowledge
<1>5. CASE UNCHANGED vars \/ \E p \in D!P!Pids : PidReuse(p)
    BY <1>1, <1>5 DEF vars, clientVars, PidReuse
<1> QED BY <1>1, <1>2, <1>3, <1>4, <1>5 DEF Next

\* Whatever daemons and clients do, and however they die, their callers see a lease,
\* calls that take effect at most once, and shutdowns that tell of a moment of the call
\* (client.rs:92-268, daemon.rs:190-221): each system call of a client at the PID file
\* may come between any two of the daemons.
THEOREM SystemIsService == Spec => ImplementsService
<1>1. Init => Promise!Init
    <2> SUFFICES ASSUME Init PROVE Promise!Init
        OBVIOUS
    <2>1. SawNobody = {}
        BY SystemConstantsOK DEF SystemConstantsOK, Init, C!ClientInit, SawNobody
    <2> QED BY <2>1 DEF Init, D!Init, C!ClientInit, D!Warm, Promise!Init, Promise!Lease!Init
<1> QED BY <1>1, StepOfService, Invariance, DaemonInvariance, PTL
        DEF Spec, ImplementsService, Promise!Spec

-----------------------------------------------------------------------------
(* Each daemon serves its clients as EventLoop does. *)

\* The statements before the loop, and those after the close of the listener.
Before == {"off", "claim", "on_start", "bind"}
Later  == Past \ {"close"}

\* The statement of run tells whether the daemon serves.
LEMMA LoopAtIs ==
    ASSUME DaemonIInv, NEW d \in Daemons
    PROVE  /\ sock[d] = "serving" <=> phase[d] \in {"loop", "close"}
           /\ phase[d] \in Before \union {"loop", "close"} \union Later
           /\ LoopAt(d) = CASE phase[d] = "loop"    -> "serving"
                            [] phase[d] = "close"   -> "ended"
                            [] phase[d] \in Before  -> "none"
                            [] OTHER                -> "closed"
<1>1. phase[d] \in Before \union {"loop", "close"} \union Later
    BY DEF DaemonIInv, DP!OwnIInv, DP!Typed, DP!Phases, Before, Later, Past
<1>2. sock[d] = "serving" <=> phase[d] \in {"loop", "close"}
    BY <1>1 DEF DaemonIInv, DP!OwnIInv, DP!InStep, DP!Marks, DP!S!Binding, Before, Later, Past
<1> QED BY <1>1, <1>2 DEF LoopAt, Before, Later, Past

\* A listener is open in the loop and until it is closed, no longer.
Served == \A d \in Daemons : sock[d] = "serving" <=> phase[d] \in {"loop", "close"}

\* run goes from one statement to a later one, and enters the loop only from bind.
LEMMA PhaseMoves ==
    ASSUME D!TypeOK, NEW d \in Daemons, DaemonStep(d) \/ DaemonEnds(d)
    PROVE  /\ \A e \in Daemons \ {d} : phase'[e] = phase[e]
           /\ phase[d] \in Before => phase'[d] \in Before \union {"loop"} \union Later
           /\ phase[d] = "loop"   => phase'[d] \in {"loop", "close"} \union Later
           /\ phase[d] = "close"  => phase'[d] \in {"close"} \union Later
           /\ phase[d] \in Later  => phase'[d] \in Later
<1> USE DEF D!TypeOK, D!Step, Before, Later, Past
<1>1. CASE D!RunWithPidFile(d) \/ D!RunWithoutPidFile(d) \/ D!RunFailsAtOnce(d)
    BY <1>1 DEF D!RunWithPidFile, D!RunWithoutPidFile, D!RunFailsAtOnce
<1>2. CASE D!RunStep(d)
    BY <1>2 DEF D!RunStep, D!Claim, D!OnStart, D!OnStartFails, D!Bind, D!Close, D!CleanUp,
       D!OnStop, D!ReturnDropsGuard
<1>3. CASE D!EndOfLoop(d)
    BY <1>3 DEF D!EndOfLoop, D!EndAsked, D!EndByProbe, D!EndByError, D!EndByPanic, D!LeaveLoop
<1>4. CASE D!Exit(d) \/ D!Crash(d)
    BY <1>4 DEF D!Exit, D!Crash
<1> QED BY <1>1, <1>2, <1>3, <1>4 DEF DaemonStep, DaemonEnds, D!EndOfLoop

\* To its clients a daemon is open, asked, busy, or done with them.
LEMMA StageIs ==
    ASSUME C!ClientTypeOK, NEW d, NEW c \in Clients
    PROVE  /\ Stages(d)[c] = "away" <=> peer[c] # d \/ exchange[c] = "none"
           /\ Stages(d)[c] = "executed" <=> peer[c] = d /\ exchange[c] = "executed"
           /\ Stages(d)[c] \in View(d)!Open <=> OpenAt(d, c)
           /\ Stages(d)[c] \in {"answered", "cut"} <=>
                  peer[c] = d /\ exchange[c] \in {"answered", "error", "cut"}
BY DEF C!ClientTypeOK, Stages, StageAt, OpenAt, View!Open, View!Frames

\* What each step leaves as it was, seen from a daemon.
LEMMA SameStage ==
    ASSUME C!ClientTypeOK, NEW d, NEW c \in Clients,
           \/ /\ peer'[c] = peer[c] /\ exchange'[c] = exchange[c]
              /\ exchange[c] # "open" \/ (op'[c] = op[c] /\ at'[c] = at[c])
           \/ peer[c] # d /\ peer'[c] # d
    PROVE  StageAt(d, c)' = StageAt(d, c)
BY DEF StageAt, IsRequest

ViewStep(d) == [View(d)!Next]_<<LoopAt(d), Stages(d)>>

\* A step moves the connection of c on, and no other.
LEMMA OneStage ==
    ASSUME C!ClientTypeOK, NEW d, NEW c \in Clients, NEW s, StageAt(d, c)' = s,
           \A e \in Clients \ {c} : StageAt(d, e)' = StageAt(d, e)
    PROVE  Stages(d)' = [Stages(d) EXCEPT ![c] = s]
BY DEF Stages

\* A client gets a connection, or leaves what it has as it is.
LEMMA ActionOnStage ==
    ASSUME C!ClientTypeOK, NEW c \in Clients, NEW b \in BOOLEAN, ClientAction(c, b), Progress(c)
    PROVE  /\ exchange[c] \notin {"open", "executed"}
              \/ (exchange'[c] = exchange[c] /\ peer'[c] = peer[c] /\ op'[c] = op[c] /\ at'[c] = at[c])
           /\ \/ exchange'[c] = exchange[c] /\ peer'[c] = peer[c]
              \/ \E d \in Daemons : C!Connected(c, d)
<1> USE DEF C!ClientTypeOK, C!Connecting, C!Waiting, C!GoTo, C!Return, Progress
<1>1. CASE \E o \in Calls : C!Call(c, o)
    BY <1>1 DEF C!Call
<1>2. CASE \E d \in Daemons : C!Connected(c, d)
    BY <1>2 DEF C!Connected
<1>3. CASE C!ConnectFails(c, b) \/ C!NotRunning(c, b)
    BY <1>3 DEF C!ConnectFails, C!NotRunning
<1>4. CASE C!SocketGone(c, b) \/ C!PidGone(c, b)
    BY <1>4 DEF C!SocketGone, C!PollAgain, C!PidGone
<1>5. CASE C!ReadyFails(c) \/ C!AgainFails(c)
    BY <1>5 DEF C!ReadyFails, C!AgainFails
<1>6. CASE C!Answered(c) \/ C!AnsweredError(c) \/ C!Cut(c)
    BY <1>6 DEF C!Answered, C!AnsweredError, C!Cut
<1>7. CASE C!Recover(c) \/ C!SpawnFails(c)
    BY <1>7 DEF C!Recover, C!SpawnFails
<1>8. CASE (\E p \in PidsRead : C!ReadPid(c, p)) \/ C!CallFails(c)
    BY <1>8 DEF C!ReadPid, C!CallFails, C!Asking
<1> QED BY <1>1, <1>2, <1>3, <1>4, <1>5, <1>6, <1>7, <1>8 DEF ClientAction

\* A client reaches the daemon whose listener is behind the path.
LEMMA ConnectsToServing ==
    ASSUME C!ClientTypeOK, NEW c \in Clients, ClientCalls(c) \/ ClientStep(c),
           NEW e \in Daemons, C!Connected(c, e), Progress(c)
    PROVE  sock[e] = "serving"
<1>1. exchange[c] # "open" /\ exchange' = [exchange EXCEPT ![c] = "open"]
      /\ peer' = [peer EXCEPT ![c] = e]
    BY DEF C!Connected, C!Connecting, Progress
<1>2. exchange'[c] # exchange[c] /\ peer'[c] = e
    BY <1>1 DEF C!ClientTypeOK
<1>3. path \in D!S!Listening /\ C!Connected(c, path)
    <2> USE DEF C!ClientTypeOK
    <2>1. CASE ClientCalls(c)
        BY <1>2, <2>1 DEF ClientCalls, C!Call
    <2>2. CASE ClientConnects(c)
        BY <1>2, <2>2 DEF ClientConnects, C!ConnectFails, C!ReadyFails, C!AgainFails
    <2>3. CASE ClientReads(c)
        BY <1>2, <2>3 DEF ClientReads, C!Answered, C!AnsweredError, C!Cut
    <2>4. CASE ClientWaits(c) \/ ClientSpawns(c) \/ ClientSpawnFails(c)
        BY <1>2, <2>4 DEF ClientWaits, ClientSpawns, ClientSpawnFails, C!Recover, C!SpawnFails
    <2>5. CASE ClientAsksPid(c)
        BY <1>2, <2>5 DEF ClientAsksPid, C!NotRunning, C!PidGone, C!PollAgain
    <2>6. CASE ClientAsksSocket(c)
        BY <1>2, <2>6 DEF ClientAsksSocket, C!SocketGone, C!PollAgain
    <2>7. CASE ClientReadsPid(c) \/ ClientFails(c)
        BY <1>2, <2>7 DEF ClientReadsPid, C!ReadPid, ClientFails, C!CallFails
    <2> QED BY <2>1, <2>2, <2>3, <2>4, <2>5, <2>6, <2>7 DEF ClientStep
<1>4. peer'[c] = path
    BY <1>3 DEF C!Connected, C!ClientTypeOK
<1> QED BY <1>2, <1>3, <1>4 DEF D!S!Listening

\* What a client does is seen by the daemon it connects to, and by the one whose
\* answer it has had.
LEMMA ClientStepOfView ==
    ASSUME CallIInv, DaemonIInv, NEW c \in Clients, ClientCalls(c) \/ ClientStep(c),
           NEW d \in Daemons
    PROVE  ViewStep(d)
<1>0. C!ClientTypeOK /\ Progress(c) /\ D!TypeOK
    BY DEF CallIInv, DaemonIInv
<1>1. PICK b \in BOOLEAN : ClientAction(c, b)
    BY <1>0, ClientStepIs
<1>2. LoopAt(d)' = LoopAt(d)
    BY <1>0, ClientStepIs DEF daemonVars, LoopAt
<1>3. \A e \in Clients \ {c} : StageAt(d, e)' = StageAt(d, e)
    BY <1>0, <1>1, ActionIsLocal, SameStage
<1>4. ASSUME StageAt(d, c)' = StageAt(d, c) PROVE ViewStep(d)
    BY <1>2, <1>3, <1>4 DEF ViewStep, Stages
<1>5. CASE exchange'[c] = exchange[c] /\ peer'[c] = peer[c]
    BY <1>0, <1>1, <1>4, <1>5, ActionOnStage, SameStage
<1>6. ASSUME NEW e \in Daemons, C!Connected(c, e) PROVE ViewStep(d)
    <2>1. /\ exchange[c] \notin {"open", "executed"}
          /\ exchange'[c] = "open" /\ peer'[c] = e
          /\ sock[e] = "serving"
        BY <1>0, <1>6, ConnectsToServing DEF C!Connected, C!Connecting, C!ClientTypeOK, Progress
    <2>2. CASE d = e
        <3>1. Stages(d)[c] \notin View(d)!Open
            BY <1>0, <2>1, StageIs DEF OpenAt
        <3>2. StageAt(d, c)' \in View(d)!Frames
            BY <2>1, <2>2 DEF StageAt, View!Frames
        <3>3. Stages(d)' = [Stages(d) EXCEPT ![c] = StageAt(d, c)']
            BY <1>0, <1>3, OneStage
        <3>4. LoopAt(d) \in {"serving", "ended"}
            BY <2>1, <2>2 DEF LoopAt
        <3>5. View(d)!Connect(c)
            BY <1>2, <3>1, <3>2, <3>3, <3>4 DEF View!Connect, View!Goes
        <3> QED BY <3>5 DEF ViewStep, View!Next
    <2>3. CASE d # e /\ peer[c] = d /\ exchange[c] # "none"
        <3>1. Stages(d)[c] \in {"answered", "cut"}
            BY <1>0, <2>1, <2>3, StageIs DEF C!ClientTypeOK
        <3>2. StageAt(d, c)' = "away"
            BY <2>1, <2>3 DEF StageAt
        <3>3. Stages(d)' = [Stages(d) EXCEPT ![c] = "away"]
            BY <1>0, <1>3, <3>2, OneStage
        <3>4. View(d)!Forget(c)
            BY <1>2, <3>1, <3>3 DEF View!Forget, View!Goes
        <3> QED BY <3>4 DEF ViewStep, View!Next
    <2>4. CASE d # e /\ (peer[c] # d \/ exchange[c] = "none")
        <3>1. StageAt(d, c) = "away" /\ StageAt(d, c)' = "away"
            BY <2>1, <2>4 DEF StageAt
        <3> QED BY <1>4, <3>1
    <2> QED BY <2>2, <2>3, <2>4
<1> QED BY <1>0, <1>1, <1>5, <1>6, ActionOnStage

\* A daemon in its loop, and what another one sees of it: nothing.
LEMMA ServeStepOfView ==
    ASSUME CallIInv, DaemonIInv, NEW d \in Daemons, Serve(d), NEW e \in Daemons
    PROVE  ViewStep(e)
<1>0. C!ClientTypeOK /\ D!TypeOK
    BY DEF CallIInv, DaemonIInv
<1>1. PICK c \in Clients : Execute(d, c) \/ Reply(d, c) \/ Acknowledge(d, c)
    BY DEF Serve
<1>2. /\ phase[d] = "loop" /\ peer[c] = d /\ UNCHANGED <<op, at, peer>>
      /\ \A x \in Clients \ {c} : exchange'[x] = exchange[x]
    BY <1>0, <1>1 DEF Execute, Reply, Acknowledge, Set, D!LeaveLoop, D!Step, C!ClientTypeOK
<1>3. \A x \in Clients \ {c} : StageAt(e, x)' = StageAt(e, x)
    BY <1>0, <1>2, SameStage
<1>4. CASE e # d
    <2>1. StageAt(e, c)' = StageAt(e, c)
        BY <1>0, <1>2, <1>4, SameStage
    <2>2. phase'[e] = phase[e] /\ sock' = sock
        BY <1>0, <1>1, <1>4
        DEF Execute, Reply, Acknowledge, daemonVars, D!LeaveLoop, D!Step, D!sockVars, D!TypeOK
    <2> QED BY <1>3, <2>1, <2>2 DEF ViewStep, Stages, LoopAt
<1>5. CASE e = d
    <2>1. LoopAt(d) = "serving"
        BY <1>2, LoopAtIs DEF LoopAt
    <2>2. ASSUME NEW s, StageAt(d, c)' = s PROVE Stages(d)' = [Stages(d) EXCEPT ![c] = s]
        BY <1>0, <1>3, <1>5, <2>2, OneStage
    <2>3. ASSUME ~Busy(d) PROVE ~View(d)!Busy
        BY <1>0, <2>3, StageIs DEF View!Busy, Busy
    <2>4. CASE Execute(d, c)
        <3>1. /\ LoopAt(d)' = LoopAt(d) /\ ~View(d)!Busy
              /\ exchange[c] = "open" /\ IsRequest(c) /\ exchange'[c] = "executed"
            BY <1>0, <2>3, <2>4 DEF Execute, Set, daemonVars, LoopAt, C!ClientTypeOK
        <3>2. StageAt(d, c) = "Request" /\ StageAt(d, c)' = "executed"
            BY <1>2, <3>1 DEF StageAt
        <3>3. View(d)!Execute(c)
            BY <2>1, <2>2, <3>1, <3>2 DEF View!Execute, View!Goes, Stages
        <3> QED BY <1>5, <3>3 DEF ViewStep, View!Next
    <2>5. CASE Reply(d, c)
        <3>1. /\ LoopAt(d)' = LoopAt(d) /\ exchange'[c] \in {"answered", "error"}
              /\ \/ exchange[c] = "executed"
                 \/ exchange[c] = "open" /\ ~Busy(d) /\ ~IsRequest(c) /\ op[c] # "shutdown"
            BY <1>0, <2>5 DEF Reply, Set, daemonVars, LoopAt, C!ClientTypeOK
        <3>2. StageAt(d, c)' = "answered"
            BY <1>2, <3>1 DEF StageAt
        <3>3. \/ StageAt(d, c) = "executed"
              \/ StageAt(d, c) = "Ping" /\ ~View(d)!Busy
            BY <1>2, <2>3, <3>1 DEF StageAt
        <3>4. View(d)!Answer(c)
            BY <2>1, <2>2, <3>1, <3>2, <3>3 DEF View!Answer, View!Goes, Stages
        <3> QED BY <1>5, <3>4 DEF ViewStep, View!Next
    <2>6. CASE Acknowledge(d, c)
        <3>1. /\ phase'[d] = "close" /\ ~View(d)!Busy
              /\ exchange[c] = "open" /\ op[c] = "shutdown" /\ exchange'[c] = "answered"
            BY <1>0, <2>3, <2>6 DEF Acknowledge, Set, D!LeaveLoop, D!Step, C!ClientTypeOK, D!TypeOK
        <3>2. StageAt(d, c) = "Shutdown" /\ StageAt(d, c)' = "answered"
            BY <1>2, <3>1 DEF StageAt, IsRequest
        <3>3. LoopAt(d)' = "ended"
            <4>1. sock' = sock /\ sock[d] = "serving"
                BY <1>2, <2>6, LoopAtIs DEF Acknowledge, D!LeaveLoop, D!sockVars
            <4> QED BY <3>1, <4>1 DEF LoopAt
        <3>4. View(d)!Acknowledge(c)
            BY <2>1, <2>2, <3>1, <3>2, <3>3 DEF View!Acknowledge, View!Goes, Stages
        <3> QED BY <1>5, <3>4 DEF ViewStep, View!Next
    <2> QED BY <1>1, <2>4, <2>5, <2>6
<1> QED BY <1>4, <1>5

\* A daemon outside its loop: it begins, ends, or closes its listener and cuts off
\* whoever is connected.
LEMMA DaemonStepOfView ==
    ASSUME CallIInv, DaemonIInv, Served, Served', NEW d \in Daemons,
           DaemonStep(d) \/ DaemonEnds(d), NEW e \in Daemons
    PROVE  ViewStep(e)
<1>0. C!ClientTypeOK /\ D!TypeOK /\ CutOff /\ UNCHANGED <<op, at, peer>>
    BY DEF CallIInv, DaemonIInv, DaemonStep, DaemonEnds
<1>1. \A x \in Daemons : /\ sock[x] = "serving" <=> phase[x] \in {"loop", "close"}
                         /\ sock'[x] = "serving" <=> phase'[x] \in {"loop", "close"}
    BY DEF Served
<1>2. \A x \in Daemons \ {d} : phase'[x] = phase[x]
    BY <1>0, PhaseMoves
<1>3. \A c \in Clients : exchange'[c] =
          IF OpenAt(d, c) /\ sock[d] = "serving" /\ sock'[d] # "serving"
          THEN "cut" ELSE exchange[c]
    <2> TAKE c \in Clients
    <2>1. \A x \in Daemons \ {d} : ~(sock[x] = "serving" /\ sock'[x] # "serving")
        BY <1>1, <1>2
    <2> QED BY <1>0, <2>1 DEF CutOff
<1>4. CASE e # d
    <2>1. \A c \in Clients : StageAt(e, c)' = StageAt(e, c)
        BY <1>0, <1>3, <1>4, SameStage DEF OpenAt
    <2>2. LoopAt(e)' = LoopAt(e)
        BY <1>1, <1>2, <1>4 DEF LoopAt
    <2> QED BY <2>1, <2>2 DEF ViewStep, Stages
<1>5. CASE e = d /\ ~(sock[d] = "serving" /\ sock'[d] # "serving")
    <2>1. \A c \in Clients : StageAt(d, c)' = StageAt(d, c)
        BY <1>0, <1>3, <1>5, SameStage
    <2>2. Stages(d)' = Stages(d)
        BY <2>1 DEF Stages
    <2>3. CASE LoopAt(d)' = LoopAt(d)
        BY <1>5, <2>2, <2>3 DEF ViewStep
    <2>4. CASE phase[d] \in Before /\ LoopAt(d)' # LoopAt(d)
        <3>1. LoopAt(d) = "none" /\ LoopAt(d)' \in {"serving", "closed"}
            BY <1>0, <1>1, <2>4, PhaseMoves DEF LoopAt, Before, Later, Past
        <3>2. View(d)!Begin
            BY <2>2, <3>1 DEF View!Begin
        <3> QED BY <1>5, <3>2 DEF ViewStep, View!Next
    <2>5. CASE phase[d] = "loop" /\ LoopAt(d)' # LoopAt(d)
        <3>1. LoopAt(d) = "serving" /\ LoopAt(d)' = "ended"
            BY <1>0, <1>1, <1>5, <2>5, PhaseMoves DEF LoopAt, Later, Past
        <3> DEFINE none == {}
        <3>2. none \in SUBSET View(d)!OpenConns /\ \A c : c \notin none
            OBVIOUS
        <3> HIDE DEF none
        <3>3. Stages(d)' = [c \in Clients |-> IF c \in none THEN "cut" ELSE Stages(d)[c]]
            BY <2>2, <3>2 DEF Stages
        <3>4. View(d)!End
            BY <3>1, <3>2, <3>3 DEF View!End
        <3> QED BY <1>5, <3>4 DEF ViewStep, View!Next
    <2>6. CASE phase[d] \in {"close"} \union Later /\ LoopAt(d)' # LoopAt(d)
        <3>1. FALSE
            BY <1>0, <1>1, <1>5, <2>6, PhaseMoves DEF LoopAt, Later, Past
        <3> QED BY <3>1
    <2> QED BY <2>3, <2>4, <2>5, <2>6, LoopAtIs
<1>6. CASE e = d /\ sock[d] = "serving" /\ sock'[d] # "serving"
    <2>1. LoopAt(d) \in {"serving", "ended"} /\ LoopAt(d)' = "closed"
        BY <1>0, <1>1, <1>6, PhaseMoves DEF LoopAt, Later, Past
    <2>2. \A c \in Clients : StageAt(d, c)' = IF OpenAt(d, c) THEN "cut" ELSE StageAt(d, c)
        <3> TAKE c \in Clients
        <3>1. CASE OpenAt(d, c)
            BY <1>0, <1>3, <1>6, <3>1 DEF OpenAt, StageAt
        <3>2. CASE ~OpenAt(d, c)
            BY <1>0, <1>3, <1>6, <3>2, SameStage
        <3> QED BY <3>1, <3>2
    <2> DEFINE cut == View(d)!OpenConns
    <2>3. \A c \in Clients : c \in cut <=> OpenAt(d, c)
        BY <1>0, StageIs DEF View!OpenConns
    <2>4. Stages(d)' = [c \in Clients |-> IF c \in cut THEN "cut" ELSE Stages(d)[c]]
        BY <2>2, <2>3 DEF Stages
    <2>5. View(d)!End
        BY <2>1, <2>4 DEF View!End
    <2> QED BY <1>6, <2>5 DEF ViewStep, View!Next
<1> QED BY <1>4, <1>5, <1>6

\* With the event loop reduced as it is in Sockd, a daemon keeps to the same view as
\* EventLoop (daemon.rs:223-299), for any number of daemons and clients, although
\* daemons crash and clients reconnect.
THEOREM DaemonsServeAsEventLoop == Spec => ServesAsEventLoop
<1>1. Init => \A d \in Daemons : View(d)!Init
    <2> SUFFICES ASSUME Init, NEW d \in Daemons PROVE View(d)!Init
        OBVIOUS
    <2>1. LoopAt(d) = "none"
        BY DEF Init, D!Init, D!S!SocketInit, LoopAt
    <2>2. \A c \in Clients : StageAt(d, c) = "away"
        BY DEF Init, C!ClientInit, StageAt
    <2> QED BY <2>1, <2>2 DEF View!Init, Stages
<1>2. DaemonIInv => Served
    BY LoopAtIs DEF Served
<1>3. CallIInv /\ DaemonIInv /\ Served /\ Served' /\ [Next]_vars => \A d \in Daemons : ViewStep(d)
    <2> SUFFICES ASSUME CallIInv, DaemonIInv, Served, Served', [Next]_vars, NEW d \in Daemons
                 PROVE  ViewStep(d)
        OBVIOUS
    <2>1. CASE UNCHANGED vars \/ \E p \in D!P!Pids : PidReuse(p)
        <3>1. UNCHANGED <<sock, phase, op, at, peer, exchange>>
            BY <2>1 DEF vars, daemonVars, clientVars, PidReuse, D!PidReuse, D!sockVars
        <3> QED BY <3>1 DEF ViewStep, LoopAt, Stages, StageAt, IsRequest
    <2> QED BY <2>1, ClientStepOfView, ServeStepOfView, DaemonStepOfView DEF Next
<1> QED BY <1>1, <1>2, <1>3, Invariance, DaemonInvariance, PTL DEF Spec, ServesAsEventLoop, ViewStep
=============================================================================
