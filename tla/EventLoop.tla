------------------------------ MODULE EventLoop ------------------------------
(***************************************************************************)
(* src/daemon.rs, run_event_loop, process_connection and poll_listener:    *)
(* one daemon that serves the connections in its backlog one at a time,    *)
(* its clients, the shutdown flag that a signal handler sets, and time.    *)
(*                                                                         *)
(* A client may connect again as often as it likes.  It sends one frame,   *)
(* or stalls, or hangs up, at any time.  Time passes in ticks while the    *)
(* daemon waits in poll, is blocked in read, runs on_request, or is about  *)
(* to look at the clock; the time between the clock and poll is nothing.   *)
(***************************************************************************)
EXTENDS Naturals, Sequences, FiniteSets

CONSTANTS
    Conns,          \* connections that may exist at the same time
    IdleTimeout,    \* config.idle_timeout, in ticks
    PollInterval,   \* config.poll_interval, in ticks
    TicksPerMs,     \* poll counts milliseconds, Duration is finer
    LoopFaults      \* which of "io", "panic" happen

ASSUME LoopConstantsOK ==
    /\ IsFiniteSet(Conns)
    /\ IdleTimeout \in Nat /\ PollInterval \in Nat
    /\ TicksPerMs \in Nat \ {0}
    /\ LoopFaults \subseteq {"io", "panic"}

VARIABLES
    pc,         \* what the daemon is doing
    cur,        \* the connection in service, a set of at most one
    backlog,    \* connections that wait for accept, in order
    conn,       \* conn[c]: where connection c is
    sent,       \* sent[c]: the frame its client has written
    hung,       \* connections whose client has closed its end
    got,        \* got[c]: the frame its client was sent
    executed,   \* connections for whose frame on_request has run
    flag,       \* the shutdown flag
    idle,       \* ticks since last_activity, up to IdleTimeout
    left,       \* ticks until the running poll times out
    deaf,       \* history: ticks spent in poll while flag is set
    unseen,     \* history: connections made since poll or accept last looked
    outcome     \* why the loop ended

daemonVars == <<pc, cur, executed, left, outcome>>
clientVars == <<backlog, conn, sent, hung, got>>
timeVars   == <<idle, deaf>>
vars == <<daemonVars, clientVars, timeVars, flag, unseen>>

\* Frames that decode to a kind, and bytes that do not decode: wrong magic,
\* unsupported version, unknown kind, payload too large.
Kinds   == {"Request", "Ping", "Shutdown", "Other", "Malformed"}
Replies == {"Response", "Pong", "ShutdownAck", "Error"}

TypeOK ==
    /\ pc \in {"check", "enter", "poll", "accept", "read", "handle", "reply",
               "left", "closed"}
    /\ cur \in SUBSET Conns /\ Cardinality(cur) <= 1
    /\ backlog \in Seq(Conns)
    /\ conn \in [Conns -> {"away", "queued", "served", "answered", "cut"}]
    /\ sent \in [Conns -> Kinds \union {"nothing"}]
    /\ hung \in SUBSET Conns
    /\ got \in [Conns -> Replies \union {"nothing"}]
    /\ executed \in SUBSET Conns
    /\ flag \in BOOLEAN
    /\ idle \in 0..IdleTimeout
    /\ left \in 0..PollInterval
    /\ deaf \in Nat
    /\ unseen \in SUBSET Conns
    /\ outcome \in {"none", "idle", "signal", "shutdown", "error", "panic"}

Init ==
    /\ pc = "check" /\ cur = {} /\ backlog = <<>>
    /\ conn = [c \in Conns |-> "away"]
    /\ sent = [c \in Conns |-> "nothing"]
    /\ got = [c \in Conns |-> "nothing"]
    /\ hung = {} /\ executed = {} /\ unseen = {}
    /\ flag = FALSE
    /\ idle = 0 /\ left = 0 /\ deaf = 0
    /\ outcome = "none"

Smaller(a, b) == IF a < b THEN a ELSE b

-----------------------------------------------------------------------------
(* The clients and the world. *)

\* connect: the kernel queues the connection as long as the listener is open.
Connect(c) ==
    /\ pc # "closed"
    /\ conn[c] \notin {"queued", "served"}
    /\ conn' = [conn EXCEPT ![c] = "queued"]
    /\ sent' = [sent EXCEPT ![c] = "nothing"]
    /\ got' = [got EXCEPT ![c] = "nothing"]
    /\ hung' = hung \ {c}
    /\ executed' = executed \ {c}
    /\ backlog' = Append(backlog, c)
    /\ unseen' = unseen \union {c}
    /\ UNCHANGED <<pc, cur, left, outcome, timeVars, flag>>

\* The client writes its frame, whole, any time after connect.
Send(c) ==
    /\ conn[c] \in {"queued", "served"} /\ c \notin hung
    /\ sent[c] = "nothing"
    /\ \E k \in Kinds : sent' = [sent EXCEPT ![c] = k]
    /\ UNCHANGED <<daemonVars, backlog, conn, hung, got, timeVars, flag, unseen>>

\* The client closes its end, with or without a frame sent: a probe, a crash,
\* a timeout of its own.
HangUp(c) ==
    /\ conn[c] \in {"queued", "served"}
    /\ c \notin hung
    /\ hung' = hung \union {c}
    /\ UNCHANGED <<daemonVars, backlog, conn, sent, got, timeVars, flag, unseen>>

\* SIGINT or SIGTERM: the handler sets the flag.  A poll that is asleep returns
\* EINTR; a read is restarted; between the check and poll nothing is woken.
Signal ==
    /\ ~flag /\ pc # "closed"
    /\ flag' = TRUE
    /\ IF pc = "poll" /\ backlog = <<>>
         THEN pc' = "check" /\ unseen' = {}
         ELSE UNCHANGED <<pc, unseen>>
    /\ UNCHANGED <<cur, executed, left, outcome, clientVars, timeVars>>

\* A tick of the clock.  A poll that is ready or due returns first.
Tick ==
    /\ \/ pc \in {"check", "read", "handle"} /\ UNCHANGED <<left, deaf>>
       \/ pc = "poll" /\ left > 0 /\ backlog = <<>>
          /\ left' = left - 1
          /\ deaf' = IF flag THEN deaf + 1 ELSE deaf
    /\ idle' = Smaller(idle + 1, IdleTimeout)
    /\ UNCHANGED <<pc, cur, executed, outcome, clientVars, flag, unseen>>

-----------------------------------------------------------------------------
(* run_event_loop *)

\* The loop returns; run closes the listener next.
Leave(why) == pc' = "left" /\ outcome' = why

\* while !shutdown.load()
SignalSeen ==
    /\ pc = "check" /\ flag
    /\ Leave("signal")
    /\ UNCHANGED <<cur, executed, left, clientVars, timeVars, flag, unseen>>

\* idle_remaining.is_zero()
IdleExpired ==
    /\ pc = "check" /\ ~flag
    /\ idle >= IdleTimeout
    /\ Leave("idle")
    /\ UNCHANGED <<cur, executed, left, clientVars, timeVars, flag, unseen>>

\* Mutant: the milliseconds are rounded up.
TimeoutRoundedUp ==
    ((Smaller(IdleTimeout - idle, PollInterval) + TicksPerMs - 1) \div TicksPerMs)
        * TicksPerMs

\* Mutant: poll sleeps until the idle timeout.
TimeoutUntilIdle == ((IdleTimeout - idle) \div TicksPerMs) * TicksPerMs

\* timeout = idle_remaining.min(poll_interval), in whole milliseconds
Timeout == (Smaller(IdleTimeout - idle, PollInterval) \div TicksPerMs) * TicksPerMs

EnterPoll ==
    /\ pc = "check" /\ ~flag
    /\ idle < IdleTimeout
    /\ left' = Timeout
    /\ pc' = "enter"
    /\ UNCHANGED <<cur, executed, outcome, clientVars, timeVars, flag, unseen>>

\* libc::poll is called
BeginPoll ==
    /\ pc = "enter"
    /\ pc' = "poll"
    /\ UNCHANGED <<cur, executed, left, outcome, clientVars, timeVars, flag, unseen>>

\* Mutant: every wake-up counts as activity.
PollReturnsActive ==
    /\ pc = "poll"
    /\ \/ backlog # <<>> /\ pc' = "accept"
       \/ backlog = <<>> /\ left = 0 /\ pc' = "check"
    /\ unseen' = {}
    /\ idle' = 0
    /\ UNCHANGED <<cur, executed, left, outcome, clientVars, deaf, flag>>

\* poll returns: the listener is readable, or the time is up
PollReturns ==
    /\ pc = "poll"
    /\ \/ backlog # <<>> /\ pc' = "accept"
       \/ backlog = <<>> /\ left = 0 /\ pc' = "check"
    /\ unseen' = {}
    /\ UNCHANGED <<cur, executed, left, outcome, clientVars, timeVars, flag>>

\* Mutant: the newest connection is served first.
AcceptNewest ==
    LET c == backlog[Len(backlog)] IN
    /\ pc = "accept" /\ backlog # <<>>
    /\ cur' = {c}
    /\ backlog' = SubSeq(backlog, 1, Len(backlog) - 1)
    /\ conn' = [conn EXCEPT ![c] = "served"]
    /\ idle' = 0
    /\ pc' = "read"
    /\ unseen' = {}
    /\ UNCHANGED <<executed, left, outcome, sent, hung, got, deaf, flag>>

\* accept: the next connection, and last_activity = now
Accept ==
    /\ pc = "accept" /\ backlog # <<>>
    /\ cur' = {Head(backlog)}
    /\ backlog' = Tail(backlog)
    /\ conn' = [conn EXCEPT ![Head(backlog)] = "served"]
    /\ idle' = 0
    /\ pc' = "read"
    /\ unseen' = {}
    /\ UNCHANGED <<executed, left, outcome, sent, hung, got, deaf, flag>>

\* set_nonblocking(false) fails for the connection that was just accepted: it is
\* dropped, and the error leaves the loop
AcceptFails ==
    /\ "io" \in LoopFaults
    /\ pc = "accept" /\ backlog # <<>>
    /\ Leave("error")
    /\ backlog' = Tail(backlog)
    /\ conn' = [conn EXCEPT ![Head(backlog)] = "cut"]
    /\ unseen' = {}
    /\ UNCHANGED <<cur, executed, left, sent, hung, got, timeVars, flag>>

\* accept: WouldBlock
Drained ==
    /\ pc = "accept" /\ backlog = <<>>
    /\ pc' = "check"
    /\ unseen' = {}
    /\ UNCHANGED <<cur, executed, left, outcome, clientVars, timeVars, flag>>

\* poll or accept fails for another reason (no descriptors, no memory)
LoopFails ==
    /\ "io" \in LoopFaults
    /\ pc \in {"poll", "accept"}
    /\ Leave("error")
    /\ UNCHANGED <<cur, executed, left, clientVars, timeVars, flag, unseen>>

-----------------------------------------------------------------------------
(* process_connection *)

\* The stream of c is dropped without an answer, and the error leaves the loop.
CutAndLeave(c, why) ==
    /\ Leave(why)
    /\ cur' = {}
    /\ conn' = [conn EXCEPT ![c] = "cut"]
    /\ UNCHANGED <<backlog, sent, hung, got>>

\* read_frame: a frame is there
ReadFrame(c) ==
    /\ pc = "read" /\ c \in cur
    /\ sent[c] \in Kinds \ {"Malformed"}
    /\ pc' = "handle"
    /\ UNCHANGED <<cur, executed, left, outcome, clientVars, timeVars, flag, unseen>>

\* read_frame: the bytes are no frame, or the client closed before a whole one.
\* While the client stalls nothing happens: the stream is blocking, without a
\* timeout.
ReadFails(c) ==
    /\ pc = "read" /\ c \in cur
    /\ sent[c] = "Malformed" \/ (sent[c] = "nothing" /\ c \in hung)
    /\ CutAndLeave(c, "error")
    /\ UNCHANGED <<executed, left, timeVars, flag, unseen>>

\* on_request runs for a Request, and for nothing else
Handle(c) ==
    /\ pc = "handle" /\ c \in cur
    /\ executed' = IF sent[c] = "Request" THEN executed \union {c} ELSE executed
    /\ pc' = "reply"
    /\ UNCHANGED <<cur, left, outcome, clientVars, timeVars, flag, unseen>>

\* on_request panics: nothing is sent, the panic leaves run
HandlePanics(c) ==
    /\ "panic" \in LoopFaults
    /\ pc = "handle" /\ c \in cur
    /\ sent[c] = "Request"
    /\ executed' = executed \union {c}
    /\ CutAndLeave(c, "panic")
    /\ UNCHANGED <<left, timeVars, flag, unseen>>

\* The frame that answers sent[c]; on_request may return an error.
Answers(c) ==
    CASE sent[c] = "Request"  -> {"Response", "Error"}
      [] sent[c] = "Ping"     -> {"Pong"}
      [] sent[c] = "Shutdown" -> {"ShutdownAck"}
      [] OTHER                -> {"Error"}

\* Mutant: the loop goes on after a Shutdown frame.
ReplyAndGoOn(c) ==
    /\ pc = "reply" /\ c \in cur \ hung
    /\ \E f \in Answers(c) : got' = [got EXCEPT ![c] = f]
    /\ pc' = "accept"
    /\ conn' = [conn EXCEPT ![c] = "answered"]
    /\ cur' = {}
    /\ UNCHANGED <<executed, left, outcome, backlog, sent, hung, timeVars, flag, unseen>>

\* Mutant: one connection per poll instead of draining the backlog.
ReplyAndPoll(c) ==
    /\ pc = "reply" /\ c \in cur \ hung
    /\ \E f \in Answers(c) : got' = [got EXCEPT ![c] = f]
    /\ IF sent[c] = "Shutdown"
         THEN Leave("shutdown")
         ELSE pc' = "check" /\ UNCHANGED outcome
    /\ conn' = [conn EXCEPT ![c] = "answered"]
    /\ cur' = {}
    /\ UNCHANGED <<executed, left, backlog, sent, hung, timeVars, flag, unseen>>

\* write_frame, then the stream is dropped; back to accept, or out of the loop
Reply(c) ==
    /\ pc = "reply" /\ c \in cur \ hung
    /\ \E f \in Answers(c) : got' = [got EXCEPT ![c] = f]
    /\ IF sent[c] = "Shutdown"
         THEN Leave("shutdown")
         ELSE pc' = "accept" /\ UNCHANGED outcome
    /\ conn' = [conn EXCEPT ![c] = "answered"]
    /\ cur' = {}
    /\ UNCHANGED <<executed, left, backlog, sent, hung, timeVars, flag, unseen>>

\* What makes write_frame fail: the client has closed (EPIPE), the response or the
\* message of on_request's error is longer than a u32 can say (PayloadTooLarge,
\* before a byte is written), or another error of the system call.
WriteFails(c) ==
    \/ c \in hung
    \/ sent[c] = "Request"
    \/ "io" \in LoopFaults

\* Mutant: the error of write_frame is dropped, and the loop goes on.
ReplyErrorDropped(c) ==
    /\ pc = "reply" /\ c \in cur
    /\ WriteFails(c)
    /\ pc' = "accept"
    /\ conn' = [conn EXCEPT ![c] = "cut"]
    /\ cur' = {}
    /\ UNCHANGED <<executed, left, outcome, backlog, sent, hung, got, timeVars, flag, unseen>>

\* write_frame fails, and with it the loop
ReplyFails(c) ==
    /\ pc = "reply" /\ c \in cur
    /\ WriteFails(c)
    /\ CutAndLeave(c, "error")
    /\ UNCHANGED <<executed, left, timeVars, flag, unseen>>

\* run: drop(listener) cuts every connection that still waits
CloseListener ==
    /\ pc = "left"
    /\ pc' = "closed"
    /\ conn' = [c \in Conns |-> IF conn[c] = "queued" THEN "cut" ELSE conn[c]]
    /\ backlog' = <<>>
    /\ UNCHANGED <<cur, executed, left, outcome, sent, hung, got, timeVars, flag, unseen>>

DaemonStep ==
    \/ SignalSeen \/ IdleExpired \/ EnterPoll \/ BeginPoll \/ PollReturns
    \/ Accept \/ AcceptFails \/ Drained \/ LoopFails \/ CloseListener
    \/ \E c \in Conns : ReadFrame(c) \/ ReadFails(c) \/ Handle(c)
                        \/ HandlePanics(c) \/ Reply(c) \/ ReplyFails(c)

Next ==
    \/ DaemonStep
    \/ Signal
    \/ Tick
    \/ \E c \in Conns : Connect(c) \/ Send(c) \/ HangUp(c)

Spec == Init /\ [][Next]_vars

\* The daemon is scheduled, on_request returns, and time passes (poll returns
\* at once again and again if the timeout is below a millisecond, so time must
\* be strongly fair).
DaemonFairness == WF_vars(DaemonStep) /\ SF_vars(Tick)

\* What the code does not enforce: a client that is being served sends a frame
\* or hangs up, and takes its answer: Reply never blocks.  (In the code an
\* answer larger than the socket buffer blocks like a read, until it is taken.)
ClientFairness == \A c \in Conns : WF_vars(Send(c) \/ HangUp(c))

FairSpec    == Spec /\ DaemonFairness
PatientSpec == Spec /\ DaemonFairness /\ ClientFairness

-----------------------------------------------------------------------------
(* What the loop promises. *)

\* After a ShutdownAck the daemon serves nobody (daemon.rs:276-278, 252): the
\* client that reads it may rely on the state being final but for on_stop.
AckIsLast ==
    \A c \in Conns : got[c] = "ShutdownAck" => pc \in {"left", "closed"}

\* The idle timeout cuts off no connection that was there when the loop last
\* looked into its backlog (daemon.rs:236, 241, 255): also right after a
\* request slower than the idle timeout, because the backlog is drained first.
IdleCutsOnlyNewcomers ==
    pc = "left" /\ outcome = "idle" => {c \in Conns : conn[c] = "queued"} \subseteq unseen

\* poll never sleeps beyond the idle deadline (daemon.rs:232-240), though it
\* rounds to milliseconds (daemon.rs:315): the daemon does not outstay it.
NeverOversleeps ==
    pc \in {"enter", "poll"} => idle + left <= IdleTimeout

\* A signal that comes between the test of the flag and poll, and wakes nobody,
\* is noticed within one poll_interval of sleep (daemon.rs:231, 240-241).
SignalLatency == deaf <= PollInterval

\* A client that gets no answer to a request that on_request has executed has hung
\* up, or is the last that the daemon served: on_request panicked or its answer
\* could not be written (too long for a frame, or an I/O error), and that ends the
\* loop (daemon.rs:280-292, frame.rs:131-136).  No daemon that goes on, or that stops
\* because it was asked to, leaves a request executed and unanswered.
UnansweredMeansFailure ==
    \A c \in executed :
        \/ c \in cur \union hung \/ conn[c] = "answered"
        \/ outcome \in {"panic", "error"}

\* A queued connection is answered or cut off in the end, even if the other
\* clients connect again and again: accept is in order (daemon.rs:246).
ConnectionEnds ==
    \A c \in Conns : conn[c] = "queued" ~> conn[c] \in {"answered", "cut"}

\* The loop ends, unless connections keep coming (daemon.rs:231-243): timeouts
\* rounded down to nothing delay the idle exit but do not prevent it.
EndsWhenQuiet ==
    []<>(backlog # <<>>) \/ <>(pc = "closed")

\* What a client sees of connection c: LoopView knows no Malformed frames.
StageOf(c) ==
    CASE conn[c] = "queued" \/ (conn[c] = "served" /\ c \notin executed) ->
            IF sent[c] = "nothing" THEN "silent"
            ELSE IF sent[c] = "Malformed" THEN "Other" ELSE sent[c]
      [] conn[c] = "served" /\ c \in executed -> "executed"
      [] OTHER -> conn[c]

View == INSTANCE LoopView WITH
    loop  <- CASE pc = "left" -> "ended" [] pc = "closed" -> "closed" [] OTHER -> "serving",
    stage <- [c \in Conns |-> StageOf(c)]

\* Requests are executed one at a time and then answered, a ShutdownAck is the last
\* answer, and nobody is cut off by a daemon that goes on serving others
\* (daemon.rs:246-252, 264-299): the view that the daemons of Sockd keep to as well.
ImplementsView == View!Spec

-----------------------------------------------------------------------------
(* What the documentation says and the code does not do. *)

\* docs/LIFECYCLE.md:28-29: signals are not blocked, the loop checks the flag
\* on each iteration.  A client that connects and sends nothing blocks
\* read_frame for ever, and the inner accept loop does not look at the flag.
SignalEndsLoop == flag ~> pc = "closed"

\* docs/PROTOCOL.md:164-166: a frame with an unsupported version is answered
\* with an Error frame.  read_frame's error ends connection and loop instead.
MalformedAnswered ==
    [][\A c \in cur \ hung : sent[c] = "Malformed" => conn'[c] # "cut"]_vars
=============================================================================
