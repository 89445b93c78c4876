------------------------------ MODULE Exchange ------------------------------
(***************************************************************************)
(* One exchange over one connection: read_frame and write_frame of         *)
(* src/frame.rs at both ends, over sockets that take and give any number   *)
(* of bytes at a time and hold Capacity of them.  The client writes a      *)
(* frame and reads one; the daemon reads one, writes the answer and        *)
(* closes.  Either end may die at any time.                                *)
(*                                                                         *)
(* Bytes are counted, not stored: the bytes of a header are known from     *)
(* out, and those of a payload are opaque.                                 *)
(***************************************************************************)
EXTENDS Frame

CONSTANTS
    Capacity,       \* bytes that a socket buffer holds
    Limit,          \* Limit[e]: max_payload_len at end e
    Requests,       \* frames that clients send
    Garbage,        \* twelve bytes that foreign clients send instead of a header
    AnswerLens,     \* lengths of what on_request returns
    Mortal          \* the ends that may die

Ends == {"client", "daemon"}

ASSUME ExchangeConstantsOK ==
    /\ Capacity \in Nat \ {0}
    /\ Limit \in [Ends -> Nat]
    /\ Requests \subseteq [kind : FrameKind, flags : U16, len : Nat]
    /\ Garbage \subseteq {g \in [1..HeaderLen -> Byte] : Verdict(g) # "ok"}
    /\ AnswerLens \subseteq Nat
    /\ Mortal \subseteq Ends

VARIABLES
    at,         \* at[e]: what end e is doing
    meant,      \* meant[e]: the frame that e set out to write, if any
    head,       \* head[e]: the header bytes that e writes
    size,       \* size[e]: the bytes that e writes, header and payload
    wrote,      \* wrote[e]: how many of them are in the socket
    got,        \* got[e]: how many bytes e has read
    took,       \* took[e]: the header of the frame that e has accepted, if any
    outcome     \* outcome[e]: how it went for e

vars == <<at, meant, head, size, wrote, got, took, outcome>>

Peer(e)    == IF e = "client" THEN "daemon" ELSE "client"
Closed(e)  == at[e] = "end"
InTransit(e) == wrote[e] - got[Peer(e)]     \* bytes in the socket buffer of e

Frames == [kind : FrameKind, flags : U16, len : Nat]

Errors == {"InvalidFrameMagic", "UnsupportedFrameVersion", "UnknownFrameKind",
           "PayloadTooLarge", "Io", "died"}

TypeOK ==
    /\ at \in [Ends -> {"begin", "write", "head", "payload", "handle", "end"}]
    /\ meant \in [Ends -> SUBSET Frames]
    /\ head \in [Ends -> [1..HeaderLen -> Byte]]
    /\ size \in [Ends -> Nat] /\ wrote \in [Ends -> Nat] /\ got \in [Ends -> Nat]
    /\ took \in [Ends -> SUBSET Header]
    /\ outcome \in [Ends -> Errors \union {"none", "ok"}]
    \* nothing is read before it was written, and no buffer overflows
    /\ \A e \in Ends : /\ got[Peer(e)] <= wrote[e] /\ wrote[e] <= size[e]
                       /\ InTransit(e) <= Capacity

NoHead == [i \in 1..HeaderLen |-> 0]

Init ==
    /\ at = [e \in Ends |-> IF e = "client" THEN "begin" ELSE "head"]
    /\ meant = [e \in Ends |-> {}]
    /\ head = [e \in Ends |-> NoHead]
    /\ size = [e \in Ends |-> 0]
    /\ wrote = [e \in Ends |-> 0]
    /\ got = [e \in Ends |-> 0]
    /\ took = [e \in Ends |-> {}]
    /\ outcome = [e \in Ends |-> "none"]

End(e, o) ==
    /\ at' = [at EXCEPT ![e] = "end"]
    /\ outcome' = [outcome EXCEPT ![e] = o]

Smaller(a, b) == IF a < b THEN a ELSE b

-----------------------------------------------------------------------------
(* write_frame *)

\* Mutant: the length is cast to u32 without a look.
BeginWriteUnchecked(e, f) ==
    /\ meant' = [meant EXCEPT ![e] = {f}]
    /\ at' = [at EXCEPT ![e] = "write"]
    /\ head' = [head EXCEPT ![e] = Encode(f)]
    /\ size' = [size EXCEPT ![e] = HeaderLen + f.len]
    /\ UNCHANGED <<wrote, got, took, outcome>>

\* write_frame begins with frame f; a payload beyond u32 is refused
BeginWrite(e, f) ==
    /\ meant' = [meant EXCEPT ![e] = {f}]
    /\ IF f.len \in U32
         THEN /\ at' = [at EXCEPT ![e] = "write"]
              /\ head' = [head EXCEPT ![e] = Encode(f)]
              /\ size' = [size EXCEPT ![e] = HeaderLen + f.len]
              /\ UNCHANGED outcome
         ELSE End(e, "PayloadTooLarge") /\ UNCHANGED <<head, size>>
    /\ UNCHANGED <<wrote, got, took>>

\* write_all: some of the bytes fit into the socket
WritePiece(e) ==
    /\ at[e] = "write" /\ ~Closed(Peer(e))
    /\ \E n \in 1..Smaller(size[e] - wrote[e], Capacity - InTransit(e)) :
          wrote' = [wrote EXCEPT ![e] = @ + n]
    /\ UNCHANGED <<at, meant, head, size, got, took, outcome>>

\* write_all has written everything: the client reads, the daemon closes
EndWrite(e) ==
    /\ at[e] = "write" /\ wrote[e] = size[e]
    /\ IF e = "client"
         THEN at' = [at EXCEPT ![e] = "head"] /\ UNCHANGED outcome
         ELSE End(e, "ok")
    /\ UNCHANGED <<meant, head, size, wrote, got, took>>

\* write_all: EPIPE
WriteFails(e) ==
    /\ at[e] = "write" /\ Closed(Peer(e)) /\ wrote[e] < size[e]
    /\ End(e, "Io")
    /\ UNCHANGED <<meant, head, size, wrote, got, took>>

-----------------------------------------------------------------------------
(* read_frame *)

\* The bytes that read_exact wants next are those up to here.
Wanted(e) ==
    IF at[e] = "head" THEN HeaderLen ELSE HeaderLen + Decoded(head[Peer(e)]).len

\* Mutant: one read, which counts as many bytes as were asked for.
ReadPieceAsked(e) ==
    /\ at[e] \in {"head", "payload"}
    /\ got[e] < Wanted(e) /\ InTransit(Peer(e)) > 0
    /\ got' = [got EXCEPT ![e] = Wanted(e)]
    /\ UNCHANGED <<at, meant, head, size, wrote, took, outcome>>

\* read_exact: some bytes are there
ReadPiece(e) ==
    /\ at[e] \in {"head", "payload"}
    /\ \E n \in 1..Smaller(Wanted(e) - got[e], InTransit(Peer(e))) :
          got' = [got EXCEPT ![e] = @ + n]
    /\ UNCHANGED <<at, meant, head, size, wrote, took, outcome>>

\* read_exact: the end of the stream comes first
ReadFails(e) ==
    /\ at[e] \in {"head", "payload"} /\ got[e] < Wanted(e)
    /\ Closed(Peer(e)) /\ InTransit(Peer(e)) = 0
    /\ End(e, "Io")
    /\ UNCHANGED <<meant, head, size, wrote, got, took>>

\* Mutant: the limit includes the header.
DecodeHeadShort(e) ==
    LET buf == head[Peer(e)] IN
    /\ at[e] = "head" /\ got[e] = HeaderLen
    /\ CASE Verdict(buf) # "ok" -> End(e, Verdict(buf))
         [] Verdict(buf) = "ok" /\ HeaderLen + Decoded(buf).len > Limit[e] ->
                End(e, "PayloadTooLarge")
         [] OTHER -> at' = [at EXCEPT ![e] = "payload"] /\ UNCHANGED outcome
    /\ UNCHANGED <<meant, head, size, wrote, got, took>>

\* Mutant: the limit is not compared.
DecodeHeadUnlimited(e) ==
    LET buf == head[Peer(e)] IN
    /\ at[e] = "head" /\ got[e] = HeaderLen
    /\ IF Verdict(buf) # "ok"
         THEN End(e, Verdict(buf))
         ELSE at' = [at EXCEPT ![e] = "payload"] /\ UNCHANGED outcome
    /\ UNCHANGED <<meant, head, size, wrote, got, took>>

\* Header::decode, then the limit, before the payload is allocated
DecodeHead(e) ==
    LET buf == head[Peer(e)] IN
    /\ at[e] = "head" /\ got[e] = HeaderLen
    /\ CASE Verdict(buf) # "ok" -> End(e, Verdict(buf))
         [] Verdict(buf) = "ok" /\ Decoded(buf).len > Limit[e] -> End(e, "PayloadTooLarge")
         [] OTHER -> at' = [at EXCEPT ![e] = "payload"] /\ UNCHANGED outcome
    /\ UNCHANGED <<meant, head, size, wrote, got, took>>

\* The payload is complete: the daemon answers, the client returns.
TakeFrame(e) ==
    /\ at[e] = "payload" /\ got[e] = Wanted(e)
    /\ took' = [took EXCEPT ![e] = {Decoded(head[Peer(e)])}]
    /\ IF e = "daemon"
         THEN at' = [at EXCEPT ![e] = "handle"] /\ UNCHANGED outcome
         ELSE End(e, "ok")
    /\ UNCHANGED <<meant, head, size, wrote, got>>

-----------------------------------------------------------------------------
(* The ends. *)

\* A client of the library, or another one that keeps to the protocol.
Send ==
    /\ at["client"] = "begin"
    /\ \E f \in Requests : BeginWrite("client", f)

\* Something that is no client writes twelve bytes.
SendGarbage ==
    /\ at["client"] = "begin"
    /\ at' = [at EXCEPT !["client"] = "write"]
    /\ \E g \in Garbage : head' = [head EXCEPT !["client"] = g]
    /\ size' = [size EXCEPT !["client"] = HeaderLen]
    /\ UNCHANGED <<meant, wrote, got, took, outcome>>

\* process_connection answers; flags are 0
Answer ==
    /\ at["daemon"] = "handle"
    /\ \E f \in took["daemon"], n \in AnswerLens :
         LET reply(k, l) == BeginWrite("daemon", [kind |-> k, flags |-> 0, len |-> l])
         IN CASE f.kind = "Ping"     -> reply("Pong", 0)
              [] f.kind = "Shutdown" -> reply("ShutdownAck", 0)
              [] f.kind = "Request"  -> reply("Response", n) \/ reply("Error", n)
              [] OTHER               -> reply("Error", n)

\* The process dies, or the client gives up and closes.
Die(e) ==
    /\ e \in Mortal
    /\ ~Closed(e)
    /\ End(e, "died")
    /\ UNCHANGED <<meant, head, size, wrote, got, took>>

Step(e) ==
    \/ WritePiece(e) \/ EndWrite(e) \/ WriteFails(e)
    \/ ReadPiece(e) \/ ReadFails(e) \/ DecodeHead(e) \/ TakeFrame(e)
    \/ e = "client" /\ (Send \/ SendGarbage)
    \/ e = "daemon" /\ Answer

Next == \E e \in Ends : Step(e) \/ Die(e)

Spec == Init /\ [][Next]_vars

\* Both ends are scheduled, and on_request returns.
FairSpec == Spec /\ \A e \in Ends : WF_vars(Step(e))

-----------------------------------------------------------------------------
(* What the framing promises. *)

\* A frame that read_frame returns is the one that write_frame was given, whole
\* (frame.rs:98-147): whatever the pieces, the payloads beyond u32 and the
\* garbage, no part of a frame is taken for another, and none is left over.
FrameArrives ==
    \A e \in Ends :
        /\ took[e] \subseteq meant[Peer(e)]
        /\ took[e] # {} => got[e] = size[Peer(e)]

\* read_frame takes no more bytes than a header and its own limit allow
\* (frame.rs:103-111), whatever length the header claims.
WithinLimit ==
    \A e \in Ends : got[e] <= HeaderLen + Limit[e]

\* If both frames are legal for their readers and nobody dies, the client has the
\* answer in the end (frame.rs:98-147, daemon.rs:269-299): also the bytes that
\* were still in the socket when the daemon closed.
LegalExchangeSucceeds ==
    LET legal(e) == \E f \in meant[e] : f.len \in U32 /\ f.len <= Limit[Peer(e)]
    IN /\ at["client"] = "end" /\ outcome["client"] # "died" /\ legal("client")
       /\ outcome["daemon"] # "died" /\ (meant["daemon"] = {} \/ legal("daemon"))
       => took["client"] = meant["daemon"] /\ took["client"] # {}

\* e waits for the other end: for room in the socket, or for a byte.
Waits(e) ==
    /\ ~Closed(Peer(e))
    /\ \/ at[e] = "write" /\ wrote[e] < size[e] /\ InTransit(e) = Capacity
       \/ at[e] \in {"head", "payload"} /\ got[e] < Wanted(e) /\ InTransit(Peer(e)) = 0

\* The ends never wait for each other (frame.rs:98-147), however small the buffers
\* are: an end answers only when the other has nothing left to write, and reads as
\* long as a byte of the frame is missing.
NeverBothWait == \E e \in Ends : ~Waits(e)

\* Both ends finish, however small the buffers are, and whether a frame is legal,
\* too long, or twelve bytes that are no header (frame.rs:98-147): neither waits for
\* a byte that the other does not send, nor both for room in the sockets.  (A foreign
\* client that sends less than it announces and stays is another matter, see
\* EventLoop!SignalEndsLoop.)
ExchangeEnds == <>(\A e \in Ends : Closed(e))
=============================================================================
