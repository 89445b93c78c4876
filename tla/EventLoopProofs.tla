--------------------------- MODULE EventLoopProofs ---------------------------
(***************************************************************************)
(* What the event loop guarantees for any number of connections and any    *)
(* timeouts.                                                               *)
(*                                                                         *)
(* Each invariant needs what the loop knows at its program points: of time *)
(* (Clock), of the signal (FlagKept), of the backlog (Queue) and of the    *)
(* connection in service (Service, InService, from which the loop is what  *)
(* LoopView says of it).                                                   *)
(***************************************************************************)
EXTENDS EventLoop, SequenceTheorems, FiniteSetTheorems, TLAPS

Serving == pc \in {"read", "handle", "reply"}

\* The backlog holds every queued connection once, and nothing else.
Queue ==
    /\ \A i \in 1..Len(backlog) : conn[backlog[i]] = "queued"
    /\ \A i, j \in 1..Len(backlog) : backlog[i] = backlog[j] => i = j
    /\ \A c \in Conns : conn[c] = "queued" => \E i \in 1..Len(backlog) : backlog[i] = c

\* One connection is in service, none outside process_connection.
Service ==
    /\ cur = {} \/ Serving
    /\ \A c \in cur : conn[c] = "served"
    /\ \A c, d \in cur : c = d

\* on_request runs for a connection in service, once.
Executions ==
    /\ \A c \in Conns : conn[c] = "queued" => c \notin executed
    /\ pc = "read" => cur \intersect executed = {}
    /\ outcome \in {"panic", "error"} => pc \in {"left", "closed"}

\* What the loop decides to wait is within both of its limits.
Clock == pc \in {"enter", "poll"} => idle + left <= IdleTimeout

\* Once the flag is set there is at most the poll that was about to begin.
FlagKept ==
    /\ ~flag => deaf = 0
    /\ pc \in {"enter", "poll"} => deaf + left <= PollInterval
    /\ deaf <= PollInterval

\* The loop has looked at its backlog before it looks at the clock.
Looked ==
    pc = "check" \/ (pc = "left" /\ outcome = "idle")
        => {c \in Conns : conn[c] = "queued"} \subseteq unseen

Connections == Queue /\ Service /\ Executions /\ Looked /\ AckIsLast /\ UnansweredMeansFailure

\* The connection in service is the only one, and what the loop has made of its
\* frame is known from its program point.
InService ==
    /\ \A c \in Conns : conn[c] = "served" => c \in cur
    /\ \A c \in cur :
          /\ pc = "handle" => sent[c] \in Kinds \ {"Malformed"} /\ c \notin executed
          /\ pc = "reply" => /\ sent[c] \in Kinds \ {"Malformed"}
                             /\ c \in executed <=> sent[c] = "Request"

-----------------------------------------------------------------------------
(* Arithmetic of the timeout, and sequences. *)

\* Rounding down to a multiple of t (daemon.rs:315) never exceeds n.
LEMMA RoundedDown ==
    ASSUME NEW n \in Nat, NEW t \in Nat \ {0}
    PROVE  (n \div t) * t \in 0..n
<1>1. n \div t \in Nat /\ n % t \in Nat
    OBVIOUS
<1>2. n = t * (n \div t) + (n % t)
    OBVIOUS
<1>3. (n \div t) * t = t * (n \div t) /\ (n \div t) * t \in Nat
    BY <1>1
<1> QED BY <1>1, <1>2, <1>3

\* The timeout of poll is at most poll_interval and what is left of the idle
\* timeout (daemon.rs:232-240).
LEMMA TimeoutBounds ==
    ASSUME TypeOK
    PROVE  /\ Timeout \in 0..PollInterval
           /\ Timeout + idle <= IdleTimeout
<1> DEFINE n == Smaller(IdleTimeout - idle, PollInterval)
<1>1. n \in Nat /\ n <= PollInterval /\ n <= IdleTimeout - idle
    BY LoopConstantsOK DEF LoopConstantsOK, TypeOK, Smaller
<1>2. (n \div TicksPerMs) * TicksPerMs \in 0..n
    BY <1>1, RoundedDown, LoopConstantsOK DEF LoopConstantsOK
<1> HIDE DEF n
<1>3. Timeout \in 0..n
    BY <1>2 DEF Timeout, n
<1> QED BY <1>1, <1>3, LoopConstantsOK DEF LoopConstantsOK, TypeOK

\* The two sets that cur can be have at most one element.
LEMMA AtMostOne ==
    /\ Cardinality({}) <= 1
    /\ \A x : Cardinality({x}) <= 1
<1>1. Cardinality({}) = 0
    BY FS_EmptySet, Zenon
<1>2. ASSUME NEW x PROVE Cardinality({x}) <= 1
    <2>1. Cardinality({x}) = 1
        BY FS_Singleton, Zenon
    <2> QED BY <2>1
<1> QED BY <1>1, <1>2

-----------------------------------------------------------------------------
(* Types. *)

\* The types hold before the first poll.
LEMMA TypeInit == Init => TypeOK
<1> SUFFICES ASSUME Init PROVE TypeOK
    OBVIOUS
<1>1. Cardinality(cur) <= 1
    BY AtMostOne, Zenon DEF Init
<1>2. backlog \in Seq(Conns)
    BY EmptySeq DEF Init
<1>3. backlog \in Seq(Conns) /\ cur \in SUBSET Conns
    BY <1>2 DEF Init
<1>4. idle \in 0..IdleTimeout /\ left \in 0..PollInterval /\ deaf \in Nat
    BY LoopConstantsOK DEF LoopConstantsOK, Init
<1> QED BY <1>1, <1>3, <1>4 DEF Init, TypeOK, Kinds, Replies

\* Every step of the loop, and of its clients, keeps them.
LEMMA TypeStep == TypeOK /\ [Next]_vars => TypeOK'
<1> SUFFICES ASSUME TypeOK, [Next]_vars PROVE TypeOK'
    OBVIOUS
<1> USE LoopConstantsOK, AtMostOne
    DEF LoopConstantsOK, TypeOK, daemonVars, clientVars, timeVars, Leave, Kinds, Replies
<1>1. CASE SignalSeen BY <1>1 DEF SignalSeen
<1>2. CASE IdleExpired BY <1>2 DEF IdleExpired
<1>3. CASE EnterPoll BY <1>3, TimeoutBounds DEF EnterPoll
<1>4. CASE BeginPoll BY <1>4 DEF BeginPoll
<1>5. CASE PollReturns BY <1>5 DEF PollReturns
<1>6. CASE Accept
    <2>1. Head(backlog) \in Conns /\ Tail(backlog) \in Seq(Conns)
        BY <1>6, HeadTailProperties DEF Accept
    <2>2. cur' = {Head(backlog)}
        BY <1>6 DEF Accept
    <2>3. Cardinality(cur') <= 1
        BY <2>2, AtMostOne, Zenon
    <2> QED BY <1>6, <2>1, <2>2, <2>3 DEF Accept
<1>7. CASE AcceptFails
    <2>1. Head(backlog) \in Conns /\ Tail(backlog) \in Seq(Conns)
        BY <1>7, HeadTailProperties DEF AcceptFails
    <2> QED BY <1>7, <2>1 DEF AcceptFails
<1>22. CASE Drained BY <1>22 DEF Drained
<1>8. CASE LoopFails BY <1>8 DEF LoopFails
<1>9. CASE CloseListener BY <1>9, EmptySeq DEF CloseListener
<1>10. ASSUME NEW c \in Conns, ReadFrame(c) PROVE TypeOK'
    BY <1>10 DEF ReadFrame
<1>11. ASSUME NEW c \in Conns, ReadFails(c) PROVE TypeOK'
    BY <1>11 DEF ReadFails, CutAndLeave
<1>12. ASSUME NEW c \in Conns, Handle(c) PROVE TypeOK'
    BY <1>12 DEF Handle
<1>13. ASSUME NEW c \in Conns, HandlePanics(c) PROVE TypeOK'
    BY <1>13 DEF HandlePanics, CutAndLeave
<1>14. ASSUME NEW c \in Conns, Reply(c) PROVE TypeOK'
    <2>1. \A f \in Answers(c) : f \in Replies
        BY DEF Answers
    <2> QED BY <1>14, <2>1 DEF Reply
<1>15. ASSUME NEW c \in Conns, ReplyFails(c) PROVE TypeOK'
    BY <1>15 DEF ReplyFails, CutAndLeave
<1>16. CASE Signal BY <1>16 DEF Signal
<1>17. CASE Tick BY <1>17 DEF Tick, Smaller
<1>18. ASSUME NEW c \in Conns, Connect(c) PROVE TypeOK'
    <2>1. Append(backlog, c) \in Seq(Conns)
        OBVIOUS
    <2> QED BY <1>18, <2>1 DEF Connect
<1>19. ASSUME NEW c \in Conns, Send(c) PROVE TypeOK'
    BY <1>19 DEF Send
<1>20. ASSUME NEW c \in Conns, HangUp(c) PROVE TypeOK'
    BY <1>20 DEF HangUp
<1>21. CASE UNCHANGED vars BY <1>21 DEF vars
<1> QED BY <1>1, <1>2, <1>3, <1>4, <1>5, <1>6, <1>7, <1>8, <1>9, <1>10, <1>11, <1>12,
           <1>13, <1>14, <1>15, <1>16, <1>17, <1>18, <1>19, <1>20, <1>21, <1>22
        DEF Next, DaemonStep

\* Every variable of the loop keeps its type (daemon.rs:223-299), whatever the
\* timeouts are: in particular no timeout of poll exceeds poll_interval.
THEOREM TypeCorrect == Spec => []TypeOK
BY TypeInit, TypeStep, PTL DEF Spec

-----------------------------------------------------------------------------
(* Time. *)

\* The steps of the loop keep the bounds on the time it waits: only a poll that
\* was about to begin when the signal came sleeps with the flag set.
LEMMA TimeStep ==
    ASSUME TypeOK, [Next]_vars, Clock, FlagKept
    PROVE  Clock' /\ FlagKept'
<1> USE LoopConstantsOK DEF LoopConstantsOK, TypeOK, daemonVars, clientVars, timeVars,
    Leave, CutAndLeave, Clock, FlagKept
<1>1. CASE EnterPoll
    BY <1>1, TimeoutBounds DEF EnterPoll
<1>2. CASE Tick
    BY <1>2 DEF Tick, Smaller
<1>3. CASE Signal
    BY <1>3 DEF Signal
<1>4. CASE SignalSeen \/ IdleExpired \/ BeginPoll \/ PollReturns \/ Accept \/ AcceptFails
           \/ Drained \/ LoopFails \/ CloseListener
    BY <1>4 DEF SignalSeen, IdleExpired, BeginPoll, PollReturns, Accept, AcceptFails,
       Drained, LoopFails, CloseListener
<1>5. ASSUME NEW c \in Conns,
             ReadFrame(c) \/ ReadFails(c) \/ Handle(c) \/ HandlePanics(c) \/ Reply(c)
             \/ ReplyFails(c) \/ Connect(c) \/ Send(c) \/ HangUp(c)
      PROVE  Clock' /\ FlagKept'
    BY <1>5 DEF ReadFrame, ReadFails, Handle, HandlePanics, Reply, ReplyFails, Connect,
       Send, HangUp
<1>6. CASE UNCHANGED vars
    BY <1>6 DEF vars
<1> QED BY <1>1, <1>2, <1>3, <1>4, <1>5, <1>6 DEF Next, DaemonStep

\* poll never sleeps beyond the idle deadline (daemon.rs:232-240), for all timeouts
\* and all granularities of the clock.
THEOREM PollInTime == Spec => []NeverOversleeps
<1>1. Init => Clock /\ FlagKept
    BY LoopConstantsOK DEF LoopConstantsOK, Init, Clock, FlagKept
<1>2. TypeOK /\ Clock /\ FlagKept /\ [Next]_vars => (Clock /\ FlagKept)'
    BY TimeStep
<1>3. Clock => NeverOversleeps
    BY DEF Clock, NeverOversleeps
<1> QED BY <1>1, <1>2, <1>3, TypeCorrect, PTL DEF Spec

\* A signal is noticed within one poll_interval of sleep (daemon.rs:231-241).
THEOREM SignalInTime == Spec => []SignalLatency
<1>1. Init => Clock /\ FlagKept
    BY LoopConstantsOK DEF LoopConstantsOK, Init, Clock, FlagKept
<1>2. TypeOK /\ Clock /\ FlagKept /\ [Next]_vars => (Clock /\ FlagKept)'
    BY TimeStep
<1>3. FlagKept => SignalLatency
    BY DEF FlagKept, SignalLatency
<1> QED BY <1>1, <1>2, <1>3, TypeCorrect, PTL DEF Spec

-----------------------------------------------------------------------------
(* Connections. *)

\* accept takes the first of the queue and keeps the others (daemon.rs:246-249),
\* whether that is served then or dropped.
LEMMA AcceptKeepsQueue ==
    ASSUME TypeOK, Queue, backlog # << >>, backlog' = Tail(backlog),
           NEW fate \in {"served", "cut"}, conn' = [conn EXCEPT ![Head(backlog)] = fate]
    PROVE  Queue' /\ Head(backlog) \in Conns /\ conn[Head(backlog)] = "queued"
<1>1. /\ Head(backlog) = backlog[1] /\ Head(backlog) \in Conns
      /\ Len(backlog) \in Nat \ {0}
      /\ Tail(backlog) \in Seq(Conns) /\ Len(Tail(backlog)) = Len(backlog) - 1
      /\ \A i \in 1..Len(Tail(backlog)) : Tail(backlog)[i] = backlog[i + 1]
    BY HeadTailProperties, EmptySeq DEF TypeOK
<1>2. /\ backlog' = Tail(backlog)
      /\ \A c \in Conns : conn'[c] = IF c = Head(backlog) THEN fate ELSE conn[c]
    BY <1>1 DEF TypeOK
<1>3. \A i \in 1..Len(backlog) : backlog[i] \in Conns
    BY DEF TypeOK
<1>4. \A i \in 1..Len(backlog') : backlog'[i] = backlog[i + 1] /\ i + 1 \in 1..Len(backlog)
    BY <1>1, <1>2
<1>5. \A i \in 1..Len(backlog') : conn'[backlog'[i]] = "queued"
    BY <1>1, <1>2, <1>3, <1>4 DEF Queue
<1>6. \A i, j \in 1..Len(backlog') : backlog'[i] = backlog'[j] => i = j
    <2> TAKE i, j \in 1..Len(backlog')
    <2>1. backlog'[i] = backlog'[j] => i + 1 = j + 1
        BY <1>4 DEF Queue
    <2> QED BY <2>1, <1>1, <1>2
<1>7. ASSUME NEW c \in Conns, conn'[c] = "queued"
      PROVE  \E i \in 1..Len(backlog') : backlog'[i] = c
    <2>1. PICK i \in 1..Len(backlog) : backlog[i] = c
        BY <1>2, <1>7 DEF Queue
    <2>2. i # 1
        BY <1>1, <1>2, <1>7, <2>1
    <2>3. i - 1 \in 1..Len(backlog') /\ backlog'[i - 1] = c
        BY <1>1, <1>2, <1>4, <2>1, <2>2
    <2> QED BY <2>3
<1>8. conn[Head(backlog)] = "queued"
    BY <1>1 DEF Queue
<1> QED BY <1>1, <1>5, <1>6, <1>7, <1>8 DEF Queue

\* A new connection goes to the end of the queue.
LEMMA ConnectKeepsQueue ==
    ASSUME TypeOK, Queue, NEW c \in Conns, Connect(c)
    PROVE  Queue'
<1> DEFINE n == Len(backlog)
<1>1. /\ n \in Nat /\ Len(Append(backlog, c)) = n + 1
      /\ \A i \in 1..n : Append(backlog, c)[i] = backlog[i]
      /\ Append(backlog, c)[n + 1] = c
    BY AppendProperties, LenProperties DEF TypeOK
<1>2. /\ backlog' = Append(backlog, c) /\ conn[c] # "queued"
      /\ \A d \in Conns : conn'[d] = IF d = c THEN "queued" ELSE conn[d]
    BY DEF Connect, TypeOK
<1>3. \A i \in 1..n : backlog[i] \in Conns /\ backlog[i] # c
    BY <1>2 DEF TypeOK, Queue
<1> HIDE DEF n
<1>4. \A i \in 1..(n + 1) : conn'[backlog'[i]] = "queued"
    BY <1>1, <1>2, <1>3 DEF Queue, n
<1>5. \A i, j \in 1..(n + 1) : backlog'[i] = backlog'[j] => i = j
    BY <1>1, <1>2, <1>3 DEF Queue, n
<1>6. ASSUME NEW d \in Conns, conn'[d] = "queued"
      PROVE  \E i \in 1..(n + 1) : backlog'[i] = d
    <2>1. CASE d = c
        BY <1>1, <1>2, <2>1
    <2>2. CASE d # c
        <3>1. PICK i \in 1..n : backlog[i] = d
            BY <1>2, <1>6, <2>2 DEF Queue, n
        <3> QED BY <1>1, <1>2, <3>1
    <2> QED BY <2>1, <2>2
<1> QED BY <1>1, <1>2, <1>4, <1>5, <1>6 DEF Queue

\* What the end of a service does to the other connections: nothing.
LEMMA EndKeepsQueue ==
    ASSUME TypeOK, Queue, NEW c \in Conns, conn[c] = "served", NEW fate \in {"answered", "cut"},
           conn' = [conn EXCEPT ![c] = fate], UNCHANGED backlog
    PROVE  Queue'
<1>1. \A i \in 1..Len(backlog) : backlog[i] \in Conns /\ backlog[i] # c
    BY DEF TypeOK, Queue
<1>2. \A d \in Conns : conn'[d] = IF d = c THEN fate ELSE conn[d]
    BY DEF TypeOK
<1> QED BY <1>1, <1>2 DEF Queue
\* The steps of run_event_loop.
LEMMA LoopKeepsConnections ==
    ASSUME TypeOK, Connections,
           SignalSeen \/ IdleExpired \/ EnterPoll \/ BeginPoll \/ PollReturns \/ Accept
           \/ AcceptFails \/ Drained \/ LoopFails \/ CloseListener
    PROVE  Connections'
<1> USE DEF TypeOK, clientVars, timeVars, Leave, Connections, Serving
<1>1. CASE SignalSeen \/ EnterPoll \/ BeginPoll \/ LoopFails
    BY <1>1 DEF SignalSeen, EnterPoll, BeginPoll, LoopFails, Queue, Service, Executions,
       Looked, AckIsLast, UnansweredMeansFailure
<1>2. CASE IdleExpired
    BY <1>2 DEF IdleExpired, Queue, Service, Executions, Looked, AckIsLast, UnansweredMeansFailure
<1>3. CASE PollReturns \/ Drained
    <2>1. backlog = << >> => \A c \in Conns : conn[c] # "queued"
        BY EmptySeq DEF Queue
    <2> QED BY <1>3, <2>1 DEF PollReturns, Drained, Queue, Service, Executions, Looked,
            AckIsLast, UnansweredMeansFailure
<1>4. CASE Accept
    <2> DEFINE h == Head(backlog)
    <2>1. Queue' /\ h \in Conns /\ conn[h] = "queued"
        BY <1>4, AcceptKeepsQueue DEF Accept
    <2>2. /\ pc = "accept" /\ pc' = "read" /\ cur' = {h} /\ conn' = [conn EXCEPT ![h] = "served"]
          /\ UNCHANGED <<executed, outcome, got, hung>>
        BY <1>4 DEF Accept
    <2> HIDE DEF h
    <2>3. cur = {} /\ h \notin executed
        BY <2>1, <2>2 DEF Service, Executions
    <2>4. Service' /\ Executions' /\ Looked' /\ AckIsLast'
        BY <2>1, <2>2, <2>3 DEF Service, Executions, Looked, AckIsLast
    <2>5. UnansweredMeansFailure'
        BY <2>1, <2>2, <2>3 DEF UnansweredMeansFailure
    <2> QED BY <2>1, <2>4, <2>5
<1>5. CASE CloseListener
    <2>1. \A c \in Conns : conn'[c] # "queued" /\ (conn[c] # "queued" => conn'[c] = conn[c])
        BY <1>5 DEF CloseListener
    <2>2. Queue'
        BY <1>5, <2>1, EmptySeq DEF CloseListener, Queue
    <2>3. Service' /\ Executions' /\ Looked' /\ AckIsLast'
        BY <1>5, <2>1 DEF CloseListener, Service, Executions, Looked, AckIsLast
    <2>4. UnansweredMeansFailure'
        BY <1>5, <2>1 DEF CloseListener, UnansweredMeansFailure, Executions
    <2> QED BY <2>2, <2>3, <2>4
<1>6. CASE AcceptFails
    <2> DEFINE h == Head(backlog)
    <2>1. Queue' /\ h \in Conns /\ conn[h] = "queued"
        BY <1>6, AcceptKeepsQueue DEF AcceptFails
    <2>2. /\ pc = "accept" /\ pc' = "left" /\ outcome' = "error"
          /\ conn' = [conn EXCEPT ![h] = "cut"]
          /\ UNCHANGED <<cur, executed, got, hung>>
        BY <1>6 DEF AcceptFails
    <2> HIDE DEF h
    <2>3. cur = {} /\ h \notin executed
        BY <2>1, <2>2 DEF Service, Executions
    <2>4. Service' /\ Executions' /\ Looked' /\ AckIsLast'
        BY <2>1, <2>2, <2>3 DEF Service, Executions, Looked, AckIsLast
    <2>5. UnansweredMeansFailure'
        BY <2>1, <2>2, <2>3 DEF UnansweredMeansFailure
    <2> QED BY <2>1, <2>4, <2>5
<1> QED BY <1>1, <1>2, <1>3, <1>4, <1>5, <1>6

\* The steps of process_connection.
LEMMA ServiceKeepsConnections ==
    ASSUME TypeOK, Connections, NEW c \in Conns,
           ReadFrame(c) \/ ReadFails(c) \/ Handle(c) \/ HandlePanics(c) \/ Reply(c)
           \/ ReplyFails(c)
    PROVE  Connections'
<1> USE DEF TypeOK, clientVars, timeVars, Leave, Serving
<1>1. c \in cur /\ conn[c] = "served" /\ \A d \in cur : d = c
    BY DEF Connections, Service, ReadFrame, ReadFails, Handle, HandlePanics, Reply, ReplyFails
<1>2. CASE ReadFrame(c)
    BY <1>2 DEF ReadFrame, Connections, Queue, Service, Executions, Looked, AckIsLast,
       UnansweredMeansFailure
<1>3. CASE Handle(c)
    BY <1>1, <1>3 DEF Handle, Connections, Queue, Service, Executions, Looked, AckIsLast,
       UnansweredMeansFailure
<1>4. ASSUME NEW why \in {"error", "panic"}, CutAndLeave(c, why),
             executed' \subseteq executed \union {c}, UNCHANGED <<flag, unseen>>,
             pc \in {"read", "handle", "reply"}
      PROVE  Connections'
    <2>1. Queue'
        BY <1>1, <1>4, EndKeepsQueue DEF CutAndLeave, Connections
    <2>2. Service' /\ Executions' /\ Looked' /\ AckIsLast'
        BY <1>1, <1>4 DEF CutAndLeave, Connections, Service, Executions, Looked, AckIsLast
    <2>3. UnansweredMeansFailure'
        BY <1>1, <1>4 DEF CutAndLeave, Connections, Executions, UnansweredMeansFailure
    <2> QED BY <2>1, <2>2, <2>3 DEF Connections
<1>5. CASE ReadFails(c)
    <2>1. c \notin executed
        BY <1>1, <1>5 DEF ReadFails, Connections, Executions
    <2> QED BY <1>4, <1>5, <2>1 DEF ReadFails
<1>6. CASE HandlePanics(c)
    BY <1>4, <1>6 DEF HandlePanics
<1>7. CASE ReplyFails(c)
    BY <1>4, <1>7 DEF ReplyFails
<1>8. CASE Reply(c)
    <2>1. Queue'
        BY <1>1, <1>8, EndKeepsQueue DEF Reply, Connections
    <2>2. Service' /\ Executions' /\ Looked'
        BY <1>1, <1>8 DEF Reply, Connections, Service, Executions, Looked
    <2>3. AckIsLast'
        <3>1. PICK f \in Answers(c) : got' = [got EXCEPT ![c] = f]
            BY <1>8 DEF Reply
        <3>2. f = "ShutdownAck" => sent[c] = "Shutdown"
            BY DEF Answers
        <3>3. sent[c] = "Shutdown" => pc' = "left"
            BY <1>8 DEF Reply
        <3>4. pc = "reply"
            BY <1>8 DEF Reply
        <3> QED BY <3>1, <3>2, <3>3, <3>4 DEF Connections, AckIsLast
    <2>4. UnansweredMeansFailure'
        BY <1>1, <1>8 DEF Reply, Connections, Executions, UnansweredMeansFailure
    <2> QED BY <2>1, <2>2, <2>3, <2>4 DEF Connections
<1> QED BY <1>2, <1>3, <1>5, <1>6, <1>7, <1>8

\* What clients, signals and the clock do.
LEMMA WorldKeepsConnections ==
    ASSUME TypeOK, Connections,
           \/ Signal \/ Tick \/ UNCHANGED vars
           \/ \E c \in Conns : Connect(c) \/ Send(c) \/ HangUp(c)
    PROVE  Connections'
<1> USE DEF TypeOK, daemonVars, clientVars, timeVars, Serving, Connections
<1>1. CASE Signal
    <2>1. backlog = << >> => \A c \in Conns : conn[c] # "queued"
        BY EmptySeq DEF Queue
    <2> QED BY <1>1, <2>1 DEF Signal, Queue, Service, Executions, Looked, AckIsLast,
            UnansweredMeansFailure
<1>2. CASE Tick
    BY <1>2 DEF Tick, Queue, Service, Executions, Looked, AckIsLast, UnansweredMeansFailure
<1>3. ASSUME NEW c \in Conns, Send(c) \/ HangUp(c) PROVE Connections'
    BY <1>3 DEF Send, HangUp, Queue, Service, Executions, Looked, AckIsLast, UnansweredMeansFailure
<1>4. ASSUME NEW c \in Conns, Connect(c) PROVE Connections'
    <2>1. Queue'
        BY <1>4, ConnectKeepsQueue
    <2>2. /\ conn[c] \notin {"queued", "served"} /\ conn' = [conn EXCEPT ![c] = "queued"]
          /\ got' = [got EXCEPT ![c] = "nothing"] /\ executed' = executed \ {c}
          /\ hung' = hung \ {c} /\ unseen' = unseen \union {c}
          /\ UNCHANGED <<pc, cur, outcome>>
        BY <1>4 DEF Connect
    <2>3. Service' /\ Executions' /\ Looked'
        BY <2>2 DEF Service, Executions, Looked
    <2>4. AckIsLast' /\ UnansweredMeansFailure'
        BY <2>2 DEF AckIsLast, UnansweredMeansFailure
    <2> QED BY <2>1, <2>3, <2>4
<1>5. CASE UNCHANGED vars
    BY <1>5 DEF vars, Queue, Service, Executions, Looked, AckIsLast, UnansweredMeansFailure
<1> QED BY <1>1, <1>2, <1>3, <1>4, <1>5

\* What the loop knows of its connections at each program point, always.
THEOREM ConnectionsKept == Spec => []Connections
<1>1. Init => Connections
    BY EmptySeq DEF Init, Connections, Queue, Service, Executions, Looked, AckIsLast,
       UnansweredMeansFailure, Serving
<1>2. TypeOK /\ Connections /\ [Next]_vars => Connections'
    BY LoopKeepsConnections, ServiceKeepsConnections, WorldKeepsConnections
    DEF Next, DaemonStep
<1> QED BY <1>1, <1>2, TypeCorrect, PTL DEF Spec

\* After a ShutdownAck the daemon serves nobody (daemon.rs:276-278, 252).
THEOREM AckIsTheLastAnswer == Spec => []AckIsLast
<1>1. Connections => AckIsLast
    BY DEF Connections
<1> QED BY <1>1, ConnectionsKept, PTL

\* The idle timeout cuts off no connection that the loop had occasion to see
\* (daemon.rs:236-255), however many there are and however long they were served.
THEOREM IdleExitIsFair == Spec => []IdleCutsOnlyNewcomers
<1>1. Connections => IdleCutsOnlyNewcomers
    BY DEF Connections, Looked, IdleCutsOnlyNewcomers
<1> QED BY <1>1, ConnectionsKept, PTL

\* A request that was executed and not answered is the last one of a daemon that
\* failed, or that of a client that has hung up (daemon.rs:280-292, frame.rs:131-136).
THEOREM UnansweredIsFailure == Spec => []UnansweredMeansFailure
<1>1. Connections => UnansweredMeansFailure
    BY DEF Connections
<1> QED BY <1>1, ConnectionsKept, PTL

-----------------------------------------------------------------------------
(* The loop is what LoopView describes. *)

\* Every step keeps what is known of the connection in service.
LEMMA NextKeepsInService ==
    TypeOK /\ Connections /\ InService /\ [Next]_vars => InService'
<1> SUFFICES ASSUME TypeOK, Connections, InService, [Next]_vars PROVE InService'
    OBVIOUS
<1> USE DEF TypeOK, daemonVars, clientVars, timeVars, Leave, InService, Kinds
<1>0. /\ cur # {} => Serving
      /\ \A c \in cur : conn[c] = "served"
      /\ \A c, d \in cur : c = d
    BY DEF Connections, Service
<1>1. CASE SignalSeen \/ IdleExpired \/ EnterPoll \/ BeginPoll \/ PollReturns \/ Drained
           \/ LoopFails \/ CloseListener
    BY <1>0, <1>1 DEF SignalSeen, IdleExpired, EnterPoll, BeginPoll, PollReturns, Drained,
       LoopFails, CloseListener, Serving
<1>2. CASE Accept \/ AcceptFails
    <2>1. Head(backlog) \in Conns /\ conn[Head(backlog)] = "queued"
        BY <1>2, AcceptKeepsQueue DEF Accept, AcceptFails, Connections
    <2> QED BY <1>0, <1>2, <2>1 DEF Accept, AcceptFails, Serving
<1>3. ASSUME NEW c \in Conns, ReadFrame(c) \/ Handle(c) PROVE InService'
    BY <1>0, <1>3 DEF ReadFrame, Handle, Connections, Executions
<1>4. ASSUME NEW c \in Conns, ReadFails(c) \/ HandlePanics(c) \/ Reply(c) \/ ReplyFails(c)
      PROVE  InService'
    BY <1>0, <1>4 DEF ReadFails, HandlePanics, Reply, ReplyFails, CutAndLeave
<1>5. CASE Signal \/ Tick
    BY <1>0, <1>5 DEF Signal, Tick, Serving
<1>6. ASSUME NEW c \in Conns, Connect(c) \/ Send(c) \/ HangUp(c) PROVE InService'
    BY <1>0, <1>6 DEF Connect, Send, HangUp
<1>7. CASE UNCHANGED vars
    BY <1>7 DEF vars
<1> QED BY <1>1, <1>2, <1>3, <1>4, <1>5, <1>6, <1>7 DEF Next, DaemonStep

LoopNow == CASE pc = "left" -> "ended" [] pc = "closed" -> "closed" [] OTHER -> "serving"
Stages  == [c \in Conns |-> StageOf(c)]

\* A step of the loop either leaves a connection as its client sees it ...
LEMMA SameStages ==
    ASSUME UNCHANGED <<conn, sent, executed>>
    PROVE  Stages' = Stages
BY DEF Stages, StageOf

\* ... or moves it on, and no other.
LEMMA OneStage ==
    ASSUME TypeOK, NEW c \in Conns,
           \A d \in Conns \ {c} : /\ conn'[d] = conn[d] /\ sent'[d] = sent[d]
                                  /\ d \in executed' <=> d \in executed
    PROVE  Stages' = [Stages EXCEPT ![c] = StageOf(c)']
BY DEF Stages, StageOf

\* A client takes a connection for open until it is answered or cut off.
LEMMA WhoIsOpen ==
    ASSUME TypeOK, NEW c \in Conns
    PROVE  Stages[c] \in View!Open <=> conn[c] \in {"queued", "served"}
BY DEF TypeOK, Kinds, Stages, StageOf, View!Open, View!Frames

\* The connection in service is the only one that can be executed.
LEMMA WhoIsExecuted ==
    ASSUME TypeOK, Connections, InService, NEW c \in cur, NEW d \in Conns, Stages[d] = "executed"
    PROVE  d = c /\ c \in executed
BY DEF TypeOK, Kinds, Stages, StageOf, Connections, Service, InService

\* The steps of run_event_loop and of the close: to a client the loop goes on, or
\* it ends.
LEMMA LoopStepOfView ==
    ASSUME TypeOK, Connections, InService,
           SignalSeen \/ IdleExpired \/ EnterPoll \/ BeginPoll \/ PollReturns \/ Accept
           \/ AcceptFails \/ Drained \/ LoopFails \/ CloseListener
    PROVE  [View!Next]_<<LoopNow, Stages>>
<1>1. CASE EnterPoll \/ BeginPoll \/ PollReturns \/ Drained
    BY <1>1, SameStages DEF EnterPoll, BeginPoll, PollReturns, Drained, clientVars, LoopNow
<1>2. CASE SignalSeen \/ IdleExpired \/ LoopFails
    <2>1. Stages' = Stages /\ LoopNow = "serving" /\ LoopNow' = "ended"
        BY <1>2, SameStages DEF SignalSeen, IdleExpired, LoopFails, Leave, clientVars, LoopNow
    <2> DEFINE none == {}
    <2>2. none \in SUBSET {c \in Conns : Stages[c] \in View!Open} /\ \A c : c \notin none
        OBVIOUS
    <2> HIDE DEF none
    <2>3. Stages' = [c \in Conns |-> IF c \in none THEN "cut" ELSE Stages[c]]
        BY <2>1, <2>2 DEF Stages
    <2>4. View!End
        BY <2>1, <2>2, <2>3 DEF View!End, View!OpenConns, LoopNow, Stages
    <2> QED BY <2>4 DEF View!Next
<1>3. CASE Accept
    <2>1. /\ Head(backlog) \in Conns /\ conn[Head(backlog)] = "queued"
          /\ Head(backlog) \notin executed
        BY <1>3, AcceptKeepsQueue DEF Accept, Connections, Executions
    <2>2. UNCHANGED <<sent, executed>> /\ LoopNow' = LoopNow
          /\ conn' = [conn EXCEPT ![Head(backlog)] = "served"]
        BY <1>3 DEF Accept, LoopNow
    <2>3. \A c \in Conns : StageOf(c)' = StageOf(c)
        BY <2>1, <2>2 DEF TypeOK, StageOf
    <2> QED BY <2>2, <2>3 DEF Stages
<1>4. CASE CloseListener
    <2>1. /\ LoopNow = "ended" /\ LoopNow' = "closed"
          /\ conn' = [c \in Conns |-> IF conn[c] = "queued" THEN "cut" ELSE conn[c]]
          /\ UNCHANGED <<sent, executed>>
        BY <1>4 DEF CloseListener, LoopNow
    <2>2. \A c \in Conns : conn[c] # "served"
        BY <1>4 DEF CloseListener, Connections, Service, Serving, InService
    <2> DEFINE cut == {c \in Conns : Stages[c] \in View!Open}
    <2>3. \A c \in Conns : c \in cut <=> conn[c] = "queued"
        BY <2>2, WhoIsOpen
    <2>4. \A c \in Conns : StageOf(c)' = IF c \in cut THEN "cut" ELSE StageOf(c)
        BY <2>1, <2>3 DEF TypeOK, StageOf
    <2>5. Stages' = [c \in Conns |-> IF c \in cut THEN "cut" ELSE Stages[c]]
        BY <2>4 DEF Stages
    <2>6. View!End
        BY <2>1, <2>5 DEF View!End, View!OpenConns, LoopNow, Stages
    <2> QED BY <2>6 DEF View!Next
<1>5. CASE AcceptFails
    <2>1. PICK h \in Conns : h = Head(backlog) /\ conn[h] = "queued"
        BY <1>5, AcceptKeepsQueue DEF AcceptFails, Connections
    <2>2. /\ LoopNow = "serving" /\ LoopNow' = "ended"
          /\ conn' = [conn EXCEPT ![h] = "cut"] /\ UNCHANGED <<sent, executed>>
        BY <1>5, <2>1 DEF AcceptFails, Leave, LoopNow
    <2>3. Stages[h] \in View!Open /\ StageOf(h)' = "cut"
        BY <2>1, <2>2, WhoIsOpen DEF TypeOK, StageOf
    <2>4. Stages' = [Stages EXCEPT ![h] = StageOf(h)']
        <3>1. \A c \in Conns \ {h} : conn'[c] = conn[c]
            BY <2>2 DEF TypeOK
        <3> QED BY <2>1, <2>2, <3>1, OneStage
    <2>5. Stages' = [c \in Conns |-> IF c \in {h} THEN "cut" ELSE Stages[c]]
        BY <2>3, <2>4 DEF Stages
    <2>6. View!End
        BY <2>1, <2>2, <2>3, <2>5 DEF View!End, View!OpenConns, LoopNow, Stages
    <2> QED BY <2>6 DEF View!Next
<1> QED BY <1>1, <1>2, <1>3, <1>4, <1>5

\* A connection that is dropped without an answer ends the loop.
LEMMA CutStepOfView ==
    ASSUME TypeOK, Connections, InService, NEW c \in Conns,
           ReadFails(c) \/ HandlePanics(c) \/ ReplyFails(c)
    PROVE  View!End
<1>1. /\ LoopNow = "serving" /\ LoopNow' = "ended"
      /\ conn' = [conn EXCEPT ![c] = "cut"] /\ conn[c] = "served"
      /\ sent' = sent /\ executed' \in {executed, executed \union {c}}
    BY DEF ReadFails, HandlePanics, ReplyFails, CutAndLeave, Leave, LoopNow, Connections, Service
<1>2. /\ Stages' = [Stages EXCEPT ![c] = StageOf(c)'] /\ Stages[c] \in View!Open
      /\ StageOf(c)' = "cut"
    <2>1. \A d \in Conns \ {c} : /\ conn'[d] = conn[d] /\ sent'[d] = sent[d]
                                 /\ d \in executed' <=> d \in executed
        BY <1>1 DEF TypeOK
    <2>2. conn'[c] = "cut"
        BY <1>1 DEF TypeOK
    <2> QED BY <1>1, <2>1, <2>2, OneStage, WhoIsOpen DEF StageOf
<1>3. Stages' = [d \in Conns |-> IF d \in {c} THEN "cut" ELSE Stages[d]]
    BY <1>2 DEF Stages
<1> QED BY <1>1, <1>2, <1>3 DEF View!End, View!OpenConns, LoopNow, Stages

\* What process_connection does with a frame (daemon.rs:264-299).
LEMMA ServiceStepOfView ==
    ASSUME TypeOK, Connections, InService, NEW c \in Conns,
           ReadFrame(c) \/ Handle(c) \/ Reply(c)
    PROVE  [View!Next]_<<LoopNow, Stages>>
<1>0. c \in cur /\ conn[c] = "served" /\ LoopNow = "serving"
    BY DEF ReadFrame, Handle, Reply, LoopNow, Connections, Service
<1>1. CASE ReadFrame(c)
    BY <1>1, SameStages DEF ReadFrame, clientVars, LoopNow
<1>2. CASE Handle(c)
    <2>1. /\ UNCHANGED <<conn, sent>> /\ LoopNow' = LoopNow /\ c \notin executed
          /\ sent[c] = "Request" => executed' = executed \union {c}
          /\ sent[c] # "Request" => executed' = executed
        BY <1>0, <1>2 DEF Handle, clientVars, LoopNow, InService
    <2>2. CASE sent[c] # "Request"
        BY <2>1, <2>2, SameStages
    <2>3. CASE sent[c] = "Request"
        <3>1. Stages' = [Stages EXCEPT ![c] = "executed"] /\ Stages[c] = "Request"
            BY <1>0, <2>1, <2>3, OneStage DEF Stages, StageOf
        <3>2. \A d \in Conns : Stages[d] # "executed"
            BY <1>0, <2>1, WhoIsExecuted
        <3>3. View!Execute(c)
            BY <1>0, <2>1, <3>1, <3>2 DEF View!Execute, View!Busy, View!Goes, LoopNow, Stages
        <3> QED BY <3>3 DEF View!Next
    <2> QED BY <2>2, <2>3
<1>3. CASE Reply(c)
    <2>1. /\ conn' = [conn EXCEPT ![c] = "answered"] /\ UNCHANGED <<sent, executed>>
          /\ sent[c] \in Kinds \ {"Malformed"} /\ (c \in executed <=> sent[c] = "Request")
          /\ LoopNow' = IF sent[c] = "Shutdown" THEN "ended" ELSE "serving"
        BY <1>0, <1>3 DEF Reply, Leave, InService, LoopNow
    <2>2. Stages' = [Stages EXCEPT ![c] = "answered"]
        <3>1. \A d \in Conns \ {c} : conn'[d] = conn[d]
            BY <2>1 DEF TypeOK
        <3>2. StageOf(c)' = "answered"
            BY <2>1 DEF TypeOK, StageOf
        <3> QED BY <2>1, <3>1, <3>2, OneStage
    <2>3. Stages[c] = IF sent[c] = "Request" THEN "executed" ELSE sent[c]
        BY <1>0, <2>1 DEF Stages, StageOf, Kinds
    <2>4. sent[c] # "Request" => \A d \in Conns : Stages[d] # "executed"
        BY <1>0, <2>1, WhoIsExecuted
    <2>5. CASE sent[c] = "Shutdown"
        <3>1. View!Acknowledge(c)
            BY <1>0, <2>1, <2>2, <2>3, <2>4, <2>5
            DEF View!Acknowledge, View!Busy, View!Goes, LoopNow, Stages
        <3> QED BY <3>1 DEF View!Next
    <2>6. CASE sent[c] # "Shutdown"
        <3>1. View!Answer(c)
            BY <1>0, <2>1, <2>2, <2>3, <2>4, <2>6
            DEF View!Answer, View!Busy, View!Goes, LoopNow, Stages, Kinds
        <3> QED BY <3>1 DEF View!Next
    <2> QED BY <2>5, <2>6
<1> QED BY <1>1, <1>2, <1>3

\* What the clients themselves do.
LEMMA WorldStepOfView ==
    ASSUME TypeOK, Connections, InService,
           \/ Signal \/ Tick \/ UNCHANGED vars
           \/ \E c \in Conns : Connect(c) \/ Send(c) \/ HangUp(c)
    PROVE  [View!Next]_<<LoopNow, Stages>>
<1>1. CASE Signal \/ Tick \/ UNCHANGED vars
    BY <1>1, SameStages DEF Signal, Tick, vars, daemonVars, clientVars, LoopNow
<1>2. ASSUME NEW c \in Conns, HangUp(c) PROVE [View!Next]_<<LoopNow, Stages>>
    BY <1>2, SameStages DEF HangUp, daemonVars, LoopNow
<1>3. ASSUME NEW c \in Conns, Connect(c) PROVE [View!Next]_<<LoopNow, Stages>>
    <2>1. /\ LoopNow \in {"serving", "ended"} /\ LoopNow' = LoopNow
          /\ conn[c] \notin {"queued", "served"} /\ conn' = [conn EXCEPT ![c] = "queued"]
          /\ sent' = [sent EXCEPT ![c] = "nothing"] /\ executed' = executed \ {c}
        BY <1>3 DEF Connect, LoopNow
    <2>2. \A d \in Conns \ {c} : /\ conn'[d] = conn[d] /\ sent'[d] = sent[d]
                                 /\ d \in executed' <=> d \in executed
        BY <2>1 DEF TypeOK
    <2>3. StageOf(c)' = "silent"
        BY <2>1 DEF TypeOK, StageOf
    <2>4. Stages' = [Stages EXCEPT ![c] = "silent"] /\ Stages[c] \notin View!Open
        BY <2>1, <2>2, <2>3, OneStage, WhoIsOpen
    <2>5. View!Connect(c)
        BY <2>1, <2>4 DEF View!Connect, View!Goes, LoopNow, Stages
    <2> QED BY <2>5 DEF View!Next
<1>4. ASSUME NEW c \in Conns, Send(c) PROVE [View!Next]_<<LoopNow, Stages>>
    <2>1. PICK k \in Kinds : sent' = [sent EXCEPT ![c] = k]
        BY <1>4 DEF Send
    <2>2. /\ conn[c] \in {"queued", "served"} /\ sent[c] = "nothing"
          /\ UNCHANGED <<conn, executed>> /\ LoopNow' = LoopNow
        BY <1>4 DEF Send, daemonVars, LoopNow
    <2>3. c \notin executed
        BY <2>2 DEF Connections, Executions, Service, Serving, InService, Kinds
    <2> DEFINE f == IF k = "Malformed" THEN "Other" ELSE k
    <2>4. f \in View!Frames
        BY DEF View!Frames, Kinds
    <2>5. Stages[c] = "silent" /\ StageOf(c)' = f
        BY <2>1, <2>2, <2>3 DEF TypeOK, Kinds, Stages, StageOf
    <2>6. Stages' = [Stages EXCEPT ![c] = f]
        BY <2>1, <2>2, <2>5, OneStage DEF TypeOK
    <2>7. View!Send(c)
        BY <2>2, <2>4, <2>5, <2>6 DEF View!Send, View!Goes, LoopNow, Stages
    <2> QED BY <2>7 DEF View!Next
<1> QED BY <1>1, <1>2, <1>3, <1>4

\* The loop with its backlog, its frames, signals and time is what its clients take
\* it for (daemon.rs:223-299), for any number of connections.
THEOREM LoopIsView == Spec => ImplementsView
<1>1. Init => InService
    BY DEF Init, InService
<1>2. Init => View!Init
    BY DEF Init, View!Init, StageOf
<1>3. TypeOK /\ Connections /\ InService /\ [Next]_vars => [View!Next]_<<LoopNow, Stages>>
    BY LoopStepOfView, CutStepOfView, ServiceStepOfView, WorldStepOfView
    DEF Next, DaemonStep, View!Next
<1> QED BY <1>1, <1>2, <1>3, NextKeepsInService, ConnectionsKept, TypeCorrect, PTL
        DEF Spec, ImplementsView, View!Spec, LoopNow, Stages
=============================================================================
