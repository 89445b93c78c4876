------------------------------ MODULE LoopView ------------------------------
(***************************************************************************)
(* What clients see of one daemon's event loop: what becomes of each       *)
(* connection, and when the daemon stops serving.                          *)
(*                                                                         *)
(* EventLoop, which has the backlog, the frames, the signals and the time, *)
(* implements this specification, and so does each daemon of Sockd, which  *)
(* has none of them: it is what the two modules agree on.                  *)
(***************************************************************************)
CONSTANT Conns  \* the connections

VARIABLES
    loop,       \* whether the daemon serves: before, in and after its loop
    stage       \* stage[c]: what has become of connection c

\* What a client can ask.  A frame that is none of the others is answered with
\* Error, or not at all.
Frames == {"Request", "Ping", "Shutdown", "Other"}

\* Connected and nothing sent, a frame sent, or on_request has run for it.
Open == {"silent", "executed"} \union Frames

Init ==
    /\ loop \in {"none", "serving"}
    /\ stage = [c \in Conns |-> "away"]

OpenConns == {c \in Conns : stage[c] \in Open}
Busy == \E c \in Conns : stage[c] = "executed"

Goes(c, to) == stage' = [stage EXCEPT ![c] = to]

\* A client connects, and may have sent its frame at once.  The listener takes
\* connections for a while after the loop has ended.
Connect(c) ==
    /\ loop \in {"serving", "ended"}
    /\ stage[c] \notin Open
    /\ \E s \in {"silent"} \union Frames : Goes(c, s)
    /\ UNCHANGED loop

Send(c) ==
    /\ stage[c] = "silent"
    /\ \E f \in Frames : Goes(c, f)
    /\ UNCHANGED loop

\* The client forgets a connection that is over.
Forget(c) ==
    /\ stage[c] \in {"answered", "cut"}
    /\ Goes(c, "away")
    /\ UNCHANGED loop

Begin ==
    /\ loop = "none"
    /\ loop' \in {"serving", "closed"}
    /\ UNCHANGED stage

\* on_request runs for one connection at a time, and once for each.
Execute(c) ==
    /\ loop = "serving" /\ ~Busy
    /\ stage[c] = "Request"
    /\ Goes(c, "executed")
    /\ UNCHANGED loop

\* A Request is answered when it has been executed, and before anything else is.
Answer(c) ==
    /\ loop = "serving"
    /\ stage[c] = "executed" \/ (stage[c] \in {"Ping", "Other"} /\ ~Busy)
    /\ Goes(c, "answered")
    /\ UNCHANGED loop

\* The answer to a Shutdown frame is the last one.
Acknowledge(c) ==
    /\ loop = "serving" /\ ~Busy
    /\ stage[c] = "Shutdown"
    /\ Goes(c, "answered")
    /\ loop' = "ended"

\* The loop ends, or the listener closes.  Only then are connections cut off,
\* and all that are left when the listener closes.
End ==
    /\ loop # "closed"
    /\ loop' \in {"ended", "closed"} \ {loop}
    /\ \E cut \in SUBSET OpenConns :
          /\ loop' = "closed" => cut = OpenConns
          /\ stage' = [c \in Conns |-> IF c \in cut THEN "cut" ELSE stage[c]]

Next ==
    \/ Begin \/ End
    \/ \E c \in Conns : Connect(c) \/ Send(c) \/ Forget(c)
                        \/ Execute(c) \/ Answer(c) \/ Acknowledge(c)

Spec == Init /\ [][Next]_<<loop, stage>>
=============================================================================
