--------------------------- MODULE ExchangeProofs ---------------------------
(***************************************************************************)
(* What the framing guarantees for all buffers, limits, frames and deaths. *)
(*                                                                         *)
(* A reader knows of the bytes it has taken that they were written, so it  *)
(* knows the header once it has twelve of them (Reading); a writer has one *)
(* frame, whose header is the encoding of what it means, or garbage that   *)
(* no reader accepts (Sending); and it has written nothing before it       *)
(* begins (Unwritten).  How an exchange comes out is a second invariant on *)
(* top of that one (Ending): if a legal frame did not get its answer, then *)
(* somebody died or the answer was too long.                               *)
(***************************************************************************)
EXTENDS Exchange, FrameProofs

\* What e means is what it writes: one frame, or garbage, or nothing yet; or it has
\* refused a frame that is too long.
Framed(e) ==
    \/ \E f \in meant[e] : /\ f \in Header /\ meant[e] = {f}
                            /\ head[e] = Encode(f) /\ size[e] = HeaderLen + f.len
    \/ meant[e] = {} /\ e = "client" /\ head[e] \in Garbage /\ size[e] = HeaderLen
    \/ meant[e] = {} /\ size[e] = 0
    \/ at[e] = "end" /\ size[e] = 0 /\ \E f \in meant[e] : meant[e] = {f} /\ f.len \notin U32

Sending == \A e \in Ends : Framed(e)

\* The client begins with its frame, the daemon writes last.
Unwritten ==
    /\ at["client"] = "begin" => size["client"] = 0 /\ meant["client"] = {}
    /\ at["client"] \in {"head", "payload"} => size["client"] # 0 /\ wrote["client"] = size["client"]
    /\ at["daemon"] \in {"head", "payload", "handle"} => size["daemon"] = 0 /\ meant["daemon"] = {}
    /\ at["daemon"] # "begin" /\ at["client"] # "handle"
    /\ \A e \in Ends : at[e] = "write" => size[e] # 0

\* What the header that e reads says, and how long the frame is then.
Accepted(e) == Verdict(head[Peer(e)]) = "ok"
FrameLen(e) == HeaderLen + Decoded(head[Peer(e)]).len

Reading ==
    \A e \in Ends :
        /\ at[e] = "begin" \/ (e = "client" /\ at[e] = "write") => got[e] = 0 /\ took[e] = {}
        /\ at[e] = "head" => got[e] <= HeaderLen /\ took[e] = {}
        /\ at[e] = "payload" => /\ HeaderLen <= got[e] /\ got[e] <= FrameLen(e)
                                /\ Accepted(e) /\ FrameLen(e) <= HeaderLen + Limit[e]
                                /\ took[e] = {}
        /\ got[e] <= HeaderLen + Limit[e]
        /\ took[e] # {} => /\ Accepted(e) /\ took[e] = {Decoded(head[Peer(e)])}
                           /\ got[e] = FrameLen(e)

IInv == TypeOK /\ Sending /\ Unwritten /\ Reading

\* The frame of e is one that the other end takes.
Legal(e) == \E f \in meant[e] : f.len \in U32 /\ f.len <= Limit[Peer(e)]

\* An end that is not over has nothing to tell; a daemon writes when it has taken
\* a frame, and is over before its client has begun only if it died.
Going ==
    /\ \A e \in Ends : at[e] # "end" => outcome[e] = "none"
    /\ at["daemon"] \in {"handle", "write"} => took["daemon"] # {}
    /\ at["client"] = "begin" => at["daemon"] = "head" \/ outcome["daemon"] = "died"

\* A daemon that is over before the client of a legal frame has answered.
DaemonEnds ==
    at["daemon"] = "end" /\ outcome["daemon"] # "died" /\ at["client"] # "end" /\ Legal("client")
        => /\ took["daemon"] # {} /\ meant["daemon"] # {}
           /\ Legal("daemon") => wrote["daemon"] = size["daemon"]

\* The client of a legal frame is over with an answer, or it could not be given one.
ClientEnds ==
    at["client"] = "end" /\ outcome["client"] # "died" /\ Legal("client")
        => \/ took["client"] # {}
           \/ outcome["daemon"] = "died"
           \/ meant["daemon"] # {} /\ ~Legal("daemon")

Ending == Going /\ DaemonEnds /\ ClientEnds

AllInv == IInv /\ Ending

\* The bytes of an encoded header are bytes.
LEMMA EncodeType ==
    ASSUME NEW f \in Header
    PROVE  Encode(f) \in [1..HeaderLen -> Byte]
<1>1. f.kind \in FrameKind /\ f.flags \in U16 /\ f.len \in U32
    BY DEF Header
<1>2. /\ Digit(Magic, Base3) \in Byte /\ Digit(Magic, Base2) \in Byte
      /\ Digit(Magic, Base) \in Byte /\ Digit(Magic, 1) \in Byte
    BY DigitsOfU32, CodecConstantsOK DEF CodecConstantsOK
<1>3. Version \in Byte /\ KindByte[f.kind] \in Byte
    BY <1>1, KindBytes, CodecConstantsOK DEF CodecConstantsOK
<1>4. Digit(f.flags, Base) \in Byte /\ Digit(f.flags, 1) \in Byte
    BY <1>1, DigitsOfU16
<1>5. /\ Digit(f.len, Base3) \in Byte /\ Digit(f.len, Base2) \in Byte
      /\ Digit(f.len, Base) \in Byte /\ Digit(f.len, 1) \in Byte
    BY <1>1, DigitsOfU32
<1> QED BY <1>2, <1>3, <1>4, <1>5 DEF Encode, HeaderLen

\* Before the first byte nothing is known, and nothing wrong.
LEMMA InitIInv == Init => IInv
<1> SUFFICES ASSUME Init PROVE IInv
    OBVIOUS
<1>1. NoHead \in [1..HeaderLen -> Byte]
    BY Units DEF NoHead, Byte
<1>2. TypeOK
    BY <1>1, ExchangeConstantsOK DEF ExchangeConstantsOK, Init, TypeOK, Ends, Peer, InTransit
<1>3. Sending
    BY DEF Init, Sending, Framed
<1> QED BY <1>2, <1>3, ExchangeConstantsOK
        DEF ExchangeConstantsOK, Init, IInv, Unwritten, Reading, Ends, HeaderLen

\* What was begun stays as it is.
LEMMA SendingStays ==
    ASSUME Sending, UNCHANGED <<meant, head, size>>,
           \A e \in Ends : at[e] = "end" => at'[e] = "end"
    PROVE  Sending'
BY DEF Sending, Framed

\* A header that was accepted has a length.
LEMMA AcceptedLen ==
    ASSUME TypeOK, NEW e \in Ends, Accepted(e)
    PROVE  /\ Decoded(head[Peer(e)]) \in Header
           /\ FrameLen(e) \in Nat /\ FrameLen(e) >= HeaderLen
<1>1. head[Peer(e)] \in [1..HeaderLen -> Byte]
    BY DEF TypeOK, Ends, Peer
<1>2. Decoded(head[Peer(e)]) \in Header
    BY <1>1, AcceptedIsHeader DEF Accepted
<1>3. Decoded(head[Peer(e)]).len \in Nat
    BY <1>2, Units DEF Header, U32
<1> QED BY <1>2, <1>3 DEF FrameLen, HeaderLen

\* A frame is begun where nothing has been written: no reader has seen any of it.
LEMMA BeginKeepsIInv ==
    ASSUME IInv, NEW e \in Ends, NEW f \in Frames, BeginWrite(e, f),
           \/ e = "client" /\ at[e] = "begin"
           \/ e = "daemon" /\ at[e] = "handle"
    PROVE  IInv'
<1> DEFINE p == Peer(e)
<1>1. p \in Ends /\ p # e /\ Peer(p) = e /\ Ends = {e, p}
    BY DEF Ends, Peer
<1>2. size[e] = 0 /\ wrote[e] = 0 /\ got[p] = 0
    BY <1>1 DEF IInv, TypeOK, Unwritten, Ends
<1>3. took[p] = {} /\ at[p] # "payload"
    BY <1>1, <1>2, AcceptedLen DEF IInv, Reading, HeaderLen
<1>4. /\ head'[p] = head[p] /\ size'[p] = size[p] /\ at'[p] = at[p] /\ meant'[p] = meant[p]
      /\ UNCHANGED <<got, took, wrote>> /\ at'[e] \in {"write", "end"}
    BY <1>1 DEF BeginWrite, End, IInv, TypeOK
<1>5. f.len \in U32 => f \in Header
    BY DEF Frames, Header
<1>6. TypeOK'
    <2>1. CASE f.len \in U32
        <3>1. Encode(f) \in [1..HeaderLen -> Byte] /\ HeaderLen + f.len \in Nat
            BY <1>5, <2>1, EncodeType, Units DEF HeaderLen, U32
        <3> QED BY <1>1, <1>2, <2>1, <3>1, ExchangeConstantsOK
                DEF ExchangeConstantsOK, BeginWrite, IInv, TypeOK, InTransit
    <2>2. CASE f.len \notin U32
        BY <2>2 DEF BeginWrite, End, IInv, TypeOK, InTransit, Errors
    <2> QED BY <2>1, <2>2
<1>7. Sending'
    <2>1. CASE f.len \in U32
        <3>1. Framed(e)'
            BY <1>5, <2>1 DEF BeginWrite, IInv, TypeOK, Framed
        <3>2. Framed(p)'
            BY <1>1, <1>4 DEF IInv, Sending, Framed
        <3> QED BY <1>1, <3>1, <3>2 DEF Sending
    <2>2. CASE f.len \notin U32
        <3>1. Framed(e)'
            BY <1>2, <2>2 DEF BeginWrite, End, IInv, TypeOK, Framed
        <3>2. Framed(p)'
            BY <1>1, <1>4 DEF IInv, Sending, Framed
        <3> QED BY <1>1, <3>1, <3>2 DEF Sending
    <2> QED BY <2>1, <2>2
<1>8. Unwritten'
    <2>1. at'[e] = "write" => size'[e] # 0
        BY Units DEF BeginWrite, End, IInv, TypeOK, HeaderLen, U32
    <2> QED BY <1>1, <1>4, <2>1 DEF IInv, Unwritten, Ends, Peer
<1>9. Reading'
    <2>1. Accepted(e)' = Accepted(e) /\ FrameLen(e)' = FrameLen(e)
          /\ Decoded(head'[p]) = Decoded(head[p])
        BY <1>4 DEF Accepted, FrameLen
    <2>2. at[e] = "begin" => got[e] = 0 /\ took[e] = {}
        BY DEF IInv, Reading
    <2> QED BY <1>1, <1>2, <1>3, <1>4, <2>1, <2>2 DEF IInv, Reading
<1> QED BY <1>6, <1>7, <1>8, <1>9 DEF IInv

\* Garbage is no frame, and no reader takes it for one.
LEMMA GarbageKeepsIInv ==
    ASSUME IInv, SendGarbage
    PROVE  IInv'
<1>1. PICK g \in Garbage : head' = [head EXCEPT !["client"] = g]
    BY DEF SendGarbage
<1>2. size["client"] = 0 /\ wrote["client"] = 0 /\ got["daemon"] = 0
    BY DEF SendGarbage, IInv, TypeOK, Unwritten, Ends, Peer
<1>3. took["daemon"] = {} /\ at["daemon"] # "payload"
    BY <1>2, AcceptedLen DEF IInv, Reading, HeaderLen, Ends
<1>4. TypeOK'
    BY <1>1, <1>2, ExchangeConstantsOK
    DEF ExchangeConstantsOK, SendGarbage, IInv, TypeOK, InTransit, Ends, Peer, HeaderLen
<1>5. Sending'
    <2>1. meant["client"] = {}
        BY DEF SendGarbage, IInv, Unwritten
    <2>2. Framed("client")'
        BY <1>1, <2>1 DEF SendGarbage, IInv, TypeOK, Framed, Ends
    <2>3. Framed("daemon")'
        BY <1>1 DEF SendGarbage, IInv, TypeOK, Sending, Framed, Ends
    <2> QED BY <2>2, <2>3 DEF Sending, Ends
<1>6. Unwritten'
    BY DEF SendGarbage, IInv, TypeOK, Unwritten, Ends, HeaderLen
<1>7. Reading'
    BY <1>1, <1>2, <1>3
    DEF SendGarbage, IInv, TypeOK, Reading, Accepted, FrameLen, Ends, Peer
<1> QED BY <1>4, <1>5, <1>6, <1>7 DEF IInv

\* Bytes move from one end to the other; heads and sizes stay.
LEMMA PiecesKeepIInv ==
    ASSUME IInv, NEW e \in Ends, WritePiece(e) \/ ReadPiece(e)
    PROVE  IInv'
<1> DEFINE p == Peer(e)
<1>1. p \in Ends /\ p # e /\ Peer(p) = e /\ Ends = {e, p}
    BY DEF Ends, Peer
<1>2. UNCHANGED <<at, meant, head, size, took, outcome>>
    BY DEF WritePiece, ReadPiece
<1>3. Sending' /\ Unwritten'
    <2>1. at["client"] \in {"head", "payload"} => wrote'["client"] = wrote["client"]
        BY <1>1 DEF WritePiece, ReadPiece, IInv, TypeOK, Ends
    <2> QED BY <1>2, <2>1, SendingStays DEF IInv, Unwritten
<1>4. CASE WritePiece(e)
    <2>1. PICK n \in 1..Smaller(size[e] - wrote[e], Capacity - InTransit(e)) :
             wrote' = [wrote EXCEPT ![e] = @ + n]
        BY <1>4 DEF WritePiece
    <2>2. n \in Nat /\ n <= size[e] - wrote[e] /\ n <= Capacity - InTransit(e)
        BY <1>1, <2>1, ExchangeConstantsOK, SMTT(30)
        DEF ExchangeConstantsOK, Smaller, IInv, TypeOK, InTransit
    <2>3. UNCHANGED got
        BY <1>4 DEF WritePiece
    <2>4. TypeOK'
        <3>1. /\ size[e] \in Nat /\ wrote[e] \in Nat /\ got[p] \in Nat
              /\ got[p] <= wrote[e] /\ InTransit(e) = wrote[e] - got[p]
            BY <1>1, SMTT(30) DEF IInv, TypeOK, InTransit
        <3>2. wrote[e] + n \in Nat /\ wrote[e] + n <= size[e] /\ got[p] <= wrote[e] + n
              /\ wrote[e] + n - got[p] <= Capacity
            BY <2>2, <3>1, ExchangeConstantsOK, SMTT(30) DEF ExchangeConstantsOK
        <3>3. wrote' \in [Ends -> Nat] /\ wrote'[e] = wrote[e] + n /\ wrote'[p] = wrote[p]
            BY <1>1, <2>1, <3>2 DEF IInv, TypeOK
        <3> QED BY <1>1, <1>2, <2>3, <3>2, <3>3, SMTT(30) DEF IInv, TypeOK, InTransit
    <2>5. Reading'
        BY <1>2, <2>3 DEF IInv, Reading, Accepted, FrameLen
    <2> QED BY <1>3, <2>4, <2>5 DEF IInv
<1>5. CASE ReadPiece(e)
    <2>1. at[e] \in {"head", "payload"}
        BY <1>5 DEF ReadPiece
    <2>2. PICK n \in 1..Smaller(Wanted(e) - got[e], InTransit(p)) :
             got' = [got EXCEPT ![e] = @ + n]
        BY <1>5 DEF ReadPiece
    <2>3. Wanted(e) \in Nat /\ (at[e] = "payload" => Wanted(e) = FrameLen(e) /\ Accepted(e))
        BY <2>1, AcceptedLen DEF Wanted, HeaderLen, FrameLen, IInv, Reading
    <2>4. n \in Nat /\ n <= Wanted(e) - got[e] /\ n <= InTransit(p)
        BY <1>1, <2>2, <2>3 DEF Smaller, IInv, TypeOK, InTransit
    <2>5. UNCHANGED wrote
        BY <1>5 DEF ReadPiece
    <2>6. got'[e] = got[e] + n /\ got'[p] = got[p] /\ got'[e] <= Wanted(e)
        BY <1>1, <2>2, <2>3, <2>4 DEF IInv, TypeOK
    <2>7. TypeOK'
        <3>1. /\ wrote[p] \in Nat /\ got[e] \in Nat
              /\ got[e] <= wrote[p] /\ InTransit(p) = wrote[p] - got[e]
              /\ InTransit(p) <= Capacity
            BY <1>1 DEF IInv, TypeOK, InTransit
        <3>2. got[e] + n \in Nat /\ got[e] + n <= wrote[p] /\ wrote[p] - (got[e] + n) <= Capacity
            BY <2>4, <3>1, ExchangeConstantsOK DEF ExchangeConstantsOK
        <3>3. got' \in [Ends -> Nat]
            BY <2>2, <3>2 DEF IInv, TypeOK
        <3> QED BY <1>1, <1>2, <2>5, <2>6, <3>2, <3>3 DEF IInv, TypeOK, InTransit
    <2>8. Reading'
        <3>1. \A d \in Ends : Accepted(d)' = Accepted(d) /\ FrameLen(d)' = FrameLen(d)
                              /\ head'[Peer(d)] = head[Peer(d)]
            BY <1>2 DEF Accepted, FrameLen
        <3>2. CASE at[e] = "head"
            <4>1. Wanted(e) = HeaderLen
                BY <3>2 DEF Wanted
            <4>2. HeaderLen <= HeaderLen + Limit[e]
                BY ExchangeConstantsOK DEF ExchangeConstantsOK, HeaderLen
            <4>3. got'[e] <= HeaderLen + Limit[e]
                BY <2>4, <2>6, <4>1, <4>2, ExchangeConstantsOK
                DEF ExchangeConstantsOK, HeaderLen, IInv, TypeOK
            <4> QED BY <1>1, <1>2, <2>6, <3>1, <3>2, <4>1, <4>3 DEF IInv, Reading
        <3>3. CASE at[e] = "payload"
            <4>1. HeaderLen <= got'[e] /\ got'[e] <= FrameLen(e) /\ FrameLen(e) <= HeaderLen + Limit[e]
                BY <2>3, <2>4, <2>6, <3>3 DEF IInv, TypeOK, Reading, HeaderLen
            <4>2. got'[e] <= HeaderLen + Limit[e]
                BY <2>4, <2>3, <2>6, <3>3, <4>1, ExchangeConstantsOK
                DEF ExchangeConstantsOK, HeaderLen, IInv, TypeOK
            <4> QED BY <1>1, <1>2, <2>6, <3>1, <3>3, <4>1, <4>2 DEF IInv, Reading
        <3> QED BY <2>1, <3>2, <3>3
    <2> QED BY <1>3, <2>7, <2>8 DEF IInv
<1> QED BY <1>4, <1>5

\* An end goes on to read, or ends; the bytes stay where they are.
LEMMA MovesKeepIInv ==
    ASSUME IInv, NEW e \in Ends,
           EndWrite(e) \/ WriteFails(e) \/ ReadFails(e) \/ Die(e)
    PROVE  IInv'
<1>1. UNCHANGED <<meant, head, size, wrote, got, took>>
    BY DEF EndWrite, WriteFails, ReadFails, Die
<1>2. /\ \/ at' = [at EXCEPT ![e] = "end"]
         \/ e = "client" /\ at[e] = "write" /\ at' = [at EXCEPT ![e] = "head"]
      /\ outcome' \in [Ends -> Errors \union {"none", "ok"}]
    BY DEF EndWrite, WriteFails, ReadFails, Die, End, IInv, TypeOK, Errors
<1>3. TypeOK'
    BY <1>1, <1>2 DEF IInv, TypeOK, InTransit
<1>4. Sending'
    <2>1. at[e] # "end"
        BY DEF EndWrite, WriteFails, ReadFails, Die, Closed
    <2> QED BY <1>1, <1>2, <2>1, SendingStays DEF IInv, TypeOK
<1>5. Unwritten'
    <2>1. at'["client"] = "head" /\ at["client"] = "write" => wrote["client"] = size["client"]
        BY <1>2 DEF EndWrite, WriteFails, ReadFails, Die, End, IInv, TypeOK, Ends
    <2> QED BY <1>1, <1>2, <2>1 DEF IInv, Unwritten, TypeOK, Ends
<1>6. Reading'
    <2>1. \A d \in Ends : Accepted(d)' = Accepted(d) /\ FrameLen(d)' = FrameLen(d)
        BY <1>1 DEF Accepted, FrameLen
    <2> QED BY <1>1, <1>2, <2>1 DEF IInv, Reading, TypeOK, Ends, HeaderLen
<1> QED BY <1>3, <1>4, <1>5, <1>6 DEF IInv

\* A header is accepted only with a length within the limit.
LEMMA DecodeKeepsIInv ==
    ASSUME IInv, NEW e \in Ends, DecodeHead(e)
    PROVE  IInv'
<1>1. UNCHANGED <<meant, head, size, wrote, got, took>> /\ at[e] = "head" /\ got[e] = HeaderLen
    BY DEF DecodeHead
<1>2. /\ \/ at' = [at EXCEPT ![e] = "end"]
         \/ /\ at' = [at EXCEPT ![e] = "payload"]
            /\ Accepted(e) /\ ~(Decoded(head[Peer(e)]).len > Limit[e])
      /\ outcome' \in [Ends -> Errors \union {"none", "ok"}]
    BY DEF DecodeHead, Accepted, Verdict, End, IInv, TypeOK, Errors
<1>3. TypeOK'
    BY <1>1, <1>2 DEF IInv, TypeOK, InTransit
<1>4. Sending'
    BY <1>1, <1>2, SendingStays DEF IInv, TypeOK
<1>5. Unwritten'
    BY <1>1, <1>2 DEF IInv, Unwritten, TypeOK, Ends
<1>6. Reading'
    <2>1. \A d \in Ends : Accepted(d)' = Accepted(d) /\ FrameLen(d)' = FrameLen(d)
        BY <1>1 DEF Accepted, FrameLen
    <2>2. Accepted(e) /\ ~(Decoded(head[Peer(e)]).len > Limit[e])
          => HeaderLen <= FrameLen(e) /\ FrameLen(e) <= HeaderLen + Limit[e]
        BY AcceptedLen, Units, ExchangeConstantsOK
        DEF ExchangeConstantsOK, IInv, FrameLen, HeaderLen, Header, U32
    <2> QED BY <1>1, <1>2, <2>1, <2>2 DEF IInv, Reading, TypeOK
<1> QED BY <1>3, <1>4, <1>5, <1>6 DEF IInv

\* A frame is taken when all of it has come.
LEMMA TakeKeepsIInv ==
    ASSUME IInv, NEW e \in Ends, TakeFrame(e)
    PROVE  IInv'
<1>1. /\ UNCHANGED <<meant, head, size, wrote, got>>
      /\ at[e] = "payload" /\ got[e] = FrameLen(e) /\ Accepted(e)
      /\ took' = [took EXCEPT ![e] = {Decoded(head[Peer(e)])}]
    BY DEF TakeFrame, Wanted, FrameLen, IInv, Reading
<1>2. /\ \/ at' = [at EXCEPT ![e] = "end"]
         \/ at' = [at EXCEPT ![e] = "handle"] /\ e = "daemon"
      /\ outcome' \in [Ends -> Errors \union {"none", "ok"}]
    BY DEF TakeFrame, End, IInv, TypeOK
<1>3. TypeOK'
    <2>1. Decoded(head[Peer(e)]) \in Header
        BY <1>1, AcceptedLen DEF IInv
    <2>2. took' \in [Ends -> SUBSET Header]
        BY <1>1, <2>1 DEF IInv, TypeOK
    <2> QED BY <1>1, <1>2, <2>2 DEF IInv, TypeOK, InTransit
<1>4. Sending'
    BY <1>1, <1>2, SendingStays DEF IInv, TypeOK
<1>5. Unwritten'
    BY <1>1, <1>2 DEF IInv, Unwritten, TypeOK, Ends
<1>6. Reading'
    <2>1. \A d \in Ends : /\ Accepted(d)' = Accepted(d) /\ FrameLen(d)' = FrameLen(d)
                          /\ head'[Peer(d)] = head[Peer(d)]
        BY <1>1 DEF Accepted, FrameLen
    <2> QED BY <1>1, <1>2, <2>1 DEF IInv, Reading, TypeOK
<1> QED BY <1>3, <1>4, <1>5, <1>6 DEF IInv

\* The header of an answer has flags 0 and a kind of its own.
LEMMA AnswerBegins ==
    ASSUME IInv, Answer
    PROVE  \E f \in Frames : BeginWrite("daemon", f)
<1>1. PICK f \in took["daemon"], n \in AnswerLens :
        \/ BeginWrite("daemon", [kind |-> "Pong", flags |-> 0, len |-> 0])
        \/ BeginWrite("daemon", [kind |-> "ShutdownAck", flags |-> 0, len |-> 0])
        \/ BeginWrite("daemon", [kind |-> "Response", flags |-> 0, len |-> n])
        \/ BeginWrite("daemon", [kind |-> "Error", flags |-> 0, len |-> n])
    BY DEF Answer
<1>2. n \in Nat /\ 0 \in U16
    BY ExchangeConstantsOK, Units DEF ExchangeConstantsOK, U16
<1> QED BY <1>1, <1>2 DEF Frames, FrameKind

\* Every step of either end keeps the invariant.
LEMMA NextKeepsIInv == IInv /\ [Next]_vars => IInv'
<1> SUFFICES ASSUME IInv, [Next]_vars PROVE IInv'
    OBVIOUS
<1>1. CASE UNCHANGED vars
    BY <1>1 DEF vars, IInv, TypeOK, InTransit, Sending, Framed, Unwritten, Reading,
                Accepted, FrameLen
<1>2. CASE Next
    <2>1. PICK e \in Ends : Step(e) \/ Die(e)
        BY <1>2 DEF Next
    <2>2. CASE WritePiece(e) \/ ReadPiece(e)
        BY <2>2, PiecesKeepIInv
    <2>3. CASE EndWrite(e) \/ WriteFails(e) \/ ReadFails(e) \/ Die(e)
        BY <2>3, MovesKeepIInv
    <2>4. CASE DecodeHead(e)
        BY <2>4, DecodeKeepsIInv
    <2>5. CASE TakeFrame(e)
        BY <2>5, TakeKeepsIInv
    <2>6. CASE e = "client" /\ Send
        <3>1. PICK f \in Frames : BeginWrite(e, f)
            BY <2>6, ExchangeConstantsOK DEF ExchangeConstantsOK, Send, Frames
        <3>2. e = "client" /\ at[e] = "begin"
            BY <2>6 DEF Send
        <3> QED BY <3>1, <3>2, BeginKeepsIInv
    <2>7. CASE SendGarbage
        BY <2>7, GarbageKeepsIInv
    <2>8. CASE e = "daemon" /\ Answer
        <3>1. at["daemon"] = "handle"
            BY <2>8 DEF Answer
        <3> QED BY <2>8, <3>1, AnswerBegins, BeginKeepsIInv
    <2> QED BY <2>1, <2>2, <2>3, <2>4, <2>5, <2>6, <2>7, <2>8 DEF Step
<1> QED BY <1>1, <1>2

\* The invariant holds throughout the exchange.
LEMMA Invariance == Spec => []IInv
BY InitIInv, NextKeepsIInv, PTL DEF Spec

-----------------------------------------------------------------------------
(* How an exchange ends. *)

\* Whoever has read a header of a frame that its peer means has read that frame's.
LEMMA ReadsItsFrame ==
    ASSUME IInv, NEW e \in Ends, got[e] >= HeaderLen, meant[Peer(e)] # {}
    PROVE  \E f \in Header : /\ meant[Peer(e)] = {f} /\ Accepted(e)
                             /\ Decoded(head[Peer(e)]) = f /\ size[Peer(e)] = FrameLen(e)
<1> DEFINE p == Peer(e)
<1>1. p \in Ends /\ Peer(p) = e
    BY DEF Ends, Peer
<1>2. size[p] # 0
    BY <1>1 DEF IInv, TypeOK, HeaderLen
<1>3. PICK f \in Header :
         meant[p] = {f} /\ head[p] = Encode(f) /\ size[p] = HeaderLen + f.len
    BY <1>1, <1>2 DEF IInv, Sending, Framed
<1>4. Verdict(head[p]) = "ok" /\ Decoded(head[p]) = f
    BY <1>3, DecodeUndoesEncode
<1> QED BY <1>3, <1>4 DEF Accepted, FrameLen

\* What an end has taken is what the other one meant, whole.
LEMMA TakenWhole ==
    ASSUME IInv, NEW e \in Ends, took[e] # {}
    PROVE  took[e] = meant[Peer(e)] /\ got[e] = size[Peer(e)]
<1> DEFINE p == Peer(e)
<1>1. p \in Ends /\ Peer(p) = e
    BY DEF Ends, Peer
<1>2. Accepted(e) /\ took[e] = {Decoded(head[p])} /\ got[e] = FrameLen(e)
    BY DEF IInv, Reading
<1>3. got[e] >= HeaderLen
    BY <1>2, AcceptedLen DEF IInv
<1>4. meant[p] # {}
    <2>1. size[p] # 0
        BY <1>1, <1>3 DEF IInv, TypeOK, HeaderLen
    <2>2. head[p] \notin Garbage
        BY <1>2, ExchangeConstantsOK DEF ExchangeConstantsOK, Accepted
    <2> QED BY <1>1, <2>1, <2>2 DEF IInv, Sending, Framed
<1> QED BY <1>2, <1>3, <1>4, ReadsItsFrame

\* Bytes that move end nothing.
LEMMA PiecesKeepEnding ==
    ASSUME IInv, Ending, NEW e \in Ends, WritePiece(e) \/ ReadPiece(e)
    PROVE  Ending'
<1>1. UNCHANGED <<at, meant, head, size, took, outcome>>
    BY DEF WritePiece, ReadPiece
<1>2. at["daemon"] = "end" => wrote'["daemon"] = wrote["daemon"]
    BY DEF WritePiece, ReadPiece, IInv, TypeOK, Ends
<1>3. \A d \in Ends : Legal(d)' <=> Legal(d)
    BY <1>1 DEF Legal
<1> QED BY <1>1, <1>2, <1>3 DEF Ending, Going, DaemonEnds, ClientEnds, Ends

\* A death excuses everything.
LEMMA DeathKeepsEnding ==
    ASSUME IInv, Ending, NEW e \in Ends, Die(e)
    PROVE  Ending'
<1>1. /\ at' = [at EXCEPT ![e] = "end"] /\ outcome' = [outcome EXCEPT ![e] = "died"]
      /\ UNCHANGED <<meant, head, size, wrote, got, took>>
    BY DEF Die, End
<1>2. \A d \in Ends : Legal(d)' <=> Legal(d)
    BY <1>1 DEF Legal
<1>3. Going' /\ DaemonEnds' /\ ClientEnds'
    BY <1>1, <1>2 DEF IInv, TypeOK, Ending, Going, DaemonEnds, ClientEnds, Ends
<1> QED BY <1>3 DEF Ending

\* A write ends with all of its bytes, or because nobody reads them: then the daemon
\* is over, but it is not before it has taken them.
LEMMA WritesKeepEnding ==
    ASSUME IInv, Ending, NEW e \in Ends, EndWrite(e) \/ WriteFails(e)
    PROVE  Ending'
<1>1. at[e] = "write" /\ UNCHANGED <<meant, head, size, wrote, got, took>>
    BY DEF EndWrite, WriteFails
<1>2. \A d \in Ends : Legal(d)' <=> Legal(d)
    BY <1>1 DEF Legal
<1>3. CASE e = "client" /\ EndWrite(e)
    <2>1. at' = [at EXCEPT !["client"] = "head"] /\ outcome' = outcome
        BY <1>3 DEF EndWrite
    <2> QED BY <1>1, <1>2, <1>3, <2>1 DEF IInv, TypeOK, Ending, Going, DaemonEnds, ClientEnds, Ends
<1>4. CASE e = "client" /\ WriteFails(e)
    <2>1. /\ at' = [at EXCEPT !["client"] = "end"] /\ outcome' = [outcome EXCEPT !["client"] = "Io"]
          /\ at["daemon"] = "end" /\ wrote["client"] < size["client"]
        BY <1>4 DEF WriteFails, End, Closed, Peer
    <2>2. took["daemon"] = {}
        <3>1. got["daemon"] <= wrote["client"] /\ got["daemon"] \in Nat
              /\ wrote["client"] \in Nat /\ size["client"] \in Nat
            BY DEF IInv, TypeOK, Ends, Peer
        <3> QED BY <2>1, <3>1, TakenWhole DEF Ends, Peer
    <2>3. Legal("client") => outcome["daemon"] = "died"
        BY <1>1, <1>4, <2>1, <2>2 DEF Ending, DaemonEnds
    <2> QED BY <1>1, <1>2, <1>4, <2>1, <2>3
            DEF IInv, TypeOK, Ending, Going, DaemonEnds, ClientEnds, Ends
<1>5. CASE e = "daemon"
    <2>1. /\ at' = [at EXCEPT !["daemon"] = "end"]
          /\ \E o \in {"ok", "Io"} : outcome' = [outcome EXCEPT !["daemon"] = o]
          /\ at["client"] = "end" \/ wrote["daemon"] = size["daemon"]
        BY <1>5 DEF EndWrite, WriteFails, End, Closed, Peer
    <2>2. took["daemon"] # {} /\ outcome["daemon"] = "none" /\ at["client"] # "begin"
        BY <1>1, <1>5 DEF Ending, Going, Ends
    <2>3. meant["daemon"] # {}
        BY <1>1, <1>5 DEF IInv, Unwritten, Sending, Framed
    <2>4. Going'
        BY <1>1, <2>1, <2>2 DEF IInv, TypeOK, Ending, Going, Ends
    <2>5. DaemonEnds'
        BY <1>1, <1>2, <2>1, <2>2, <2>3 DEF IInv, TypeOK, DaemonEnds, Ends
    <2>6. ClientEnds'
        BY <1>1, <1>2, <2>1, <2>2 DEF IInv, TypeOK, Ending, ClientEnds, Ends
    <2> QED BY <2>4, <2>5, <2>6 DEF Ending
<1> QED BY <1>3, <1>4, <1>5 DEF Ends

\* A read fails when the peer is over: the daemon's client wants no answer, and a
\* client has all of an answer that was legal before it sees the end of the stream.
LEMMA ReadFailsKeepsEnding ==
    ASSUME IInv, Ending, NEW e \in Ends, ReadFails(e)
    PROVE  Ending'
<1>1. /\ at[e] \in {"head", "payload"} /\ got[e] < Wanted(e)
      /\ at[Peer(e)] = "end" /\ InTransit(Peer(e)) = 0
      /\ UNCHANGED <<meant, head, size, wrote, got, took>>
      /\ at' = [at EXCEPT ![e] = "end"] /\ outcome' = [outcome EXCEPT ![e] = "Io"]
    BY DEF ReadFails, End, Closed
<1>2. \A d \in Ends : Legal(d)' <=> Legal(d)
    BY <1>1 DEF Legal
<1>3. CASE e = "daemon"
    BY <1>1, <1>2, <1>3 DEF IInv, TypeOK, Ending, Going, DaemonEnds, ClientEnds, Ends, Peer
<1>4. CASE e = "client"
    <2>1. ASSUME Legal("client"), outcome["daemon"] # "died", Legal("daemon") PROVE FALSE
        <3>1. meant["daemon"] # {} /\ wrote["daemon"] = size["daemon"]
            BY <1>1, <1>4, <2>1 DEF Ending, DaemonEnds, Peer
        <3>2. got["client"] = size["daemon"]
            BY <1>1, <1>4, <3>1 DEF InTransit, Peer, IInv, TypeOK, Ends
        <3>3. size["daemon"] >= HeaderLen
            <4>1. PICK f \in meant["daemon"] : f.len \in U32
                BY <2>1 DEF Legal
            <4>2. PICK g \in Header : meant["daemon"] = {g} /\ size["daemon"] = HeaderLen + g.len
                BY <4>1 DEF IInv, Sending, Framed, Ends
            <4> QED BY <4>2, Units DEF Header, U32, HeaderLen
        <3>4. size["daemon"] = FrameLen("client")
            BY <3>1, <3>2, <3>3, ReadsItsFrame DEF Ends, Peer
        <3>5. Wanted("client") = HeaderLen \/ Wanted("client") = FrameLen("client")
            BY DEF Wanted, FrameLen
        <3> QED BY <1>1, <1>4, <3>2, <3>3, <3>4, <3>5 DEF IInv, TypeOK, HeaderLen, Ends
    <2>2. Legal("client") /\ outcome["daemon"] # "died" => meant["daemon"] # {}
        BY <1>1, <1>4 DEF Ending, DaemonEnds, Peer
    <2> QED BY <1>1, <1>2, <1>4, <2>1, <2>2
            DEF IInv, TypeOK, Ending, Going, DaemonEnds, ClientEnds, Ends, Peer
<1> QED BY <1>3, <1>4 DEF Ends

\* A header is refused only if it is not that of a legal frame.
LEMMA DecodeKeepsEnding ==
    ASSUME IInv, Ending, NEW e \in Ends, DecodeHead(e)
    PROVE  Ending'
<1>1. /\ at[e] = "head" /\ got[e] = HeaderLen
      /\ UNCHANGED <<meant, head, size, wrote, got, took>>
    BY DEF DecodeHead
<1>2. \A d \in Ends : Legal(d)' <=> Legal(d)
    BY <1>1 DEF Legal
<1>3. \/ at' = [at EXCEPT ![e] = "payload"] /\ outcome' = outcome
      \/ /\ at' = [at EXCEPT ![e] = "end"]
         /\ \E o \in Errors \ {"died"} : outcome' = [outcome EXCEPT ![e] = o]
         /\ Accepted(e) => ~(Decoded(head[Peer(e)]).len <= Limit[e])
    <2> DEFINE buf == head[Peer(e)]
    <2>1. \/ Verdict(buf) # "ok" /\ End(e, Verdict(buf))
          \/ Verdict(buf) = "ok" /\ Decoded(buf).len > Limit[e] /\ End(e, "PayloadTooLarge")
          \/ at' = [at EXCEPT ![e] = "payload"] /\ outcome' = outcome
        BY DEF DecodeHead
    <2>2. Verdict(buf) # "ok" => Verdict(buf) \in Errors \ {"died"}
        BY DEF Verdict, Errors
    <2>3. Verdict(buf) = "ok" /\ Decoded(buf).len > Limit[e] => ~(Decoded(buf).len <= Limit[e])
        BY AcceptedLen, Units, ExchangeConstantsOK
        DEF ExchangeConstantsOK, IInv, Accepted, Header, U32
    <2> HIDE DEF buf
    <2> QED BY <2>1, <2>2, <2>3 DEF End, Errors, Accepted, buf
<1>4. at'[e] = "end" => meant[Peer(e)] = {} \/ ~Legal(Peer(e))
    <2> SUFFICES ASSUME at'[e] = "end", meant[Peer(e)] # {}, Legal(Peer(e)) PROVE FALSE
        OBVIOUS
    <2>1. PICK f \in Header : meant[Peer(e)] = {f} /\ Accepted(e) /\ Decoded(head[Peer(e)]) = f
        BY <1>1, ReadsItsFrame DEF HeaderLen
    <2>2. ~(f.len <= Limit[e])
        BY <1>3, <2>1 DEF IInv, TypeOK
    <2> QED BY <2>1, <2>2 DEF Legal, Peer, Ends
<1>5. e = "daemon" => at["client"] # "begin"
    BY <1>1 DEF IInv, TypeOK, Unwritten, Ends, Peer, HeaderLen
<1>6. Going'
    BY <1>1, <1>3, <1>5 DEF IInv, TypeOK, Ending, Going, Ends, Errors
<1>7. DaemonEnds'
    <2>1. CASE e = "daemon"
        BY <1>1, <1>2, <1>3, <1>4, <2>1 DEF IInv, TypeOK, DaemonEnds, Ends, Peer, Legal
    <2>2. CASE e = "client"
        BY <1>1, <1>2, <1>3, <2>2 DEF IInv, TypeOK, Ending, DaemonEnds, Ends
    <2> QED BY <2>1, <2>2 DEF Ends
<1>8. ClientEnds'
    <2>1. CASE e = "daemon"
        <3>1. outcome["daemon"] # "died"
            BY <1>1, <2>1 DEF Ending, Going, Ends
        <3> QED BY <1>1, <1>2, <1>3, <2>1, <3>1 DEF IInv, TypeOK, Ending, ClientEnds, Ends
    <2>2. CASE e = "client"
        <3>1. at'["client"] = "end" => meant["daemon"] # {}
            \* twelve bytes have come from the daemon, so it has begun to write
            BY <1>1, <2>2 DEF IInv, TypeOK, Sending, Framed, Ends, Peer, HeaderLen
        <3> QED BY <1>1, <1>2, <1>3, <1>4, <2>2, <3>1 DEF IInv, TypeOK, ClientEnds, Peer, Ends
    <2> QED BY <2>1, <2>2 DEF Ends
<1> QED BY <1>6, <1>7, <1>8 DEF Ending

\* With a frame taken the client has its answer, and the daemon what it answers.
LEMMA TakeKeepsEnding ==
    ASSUME IInv, Ending, NEW e \in Ends, TakeFrame(e)
    PROVE  Ending'
<1>1. /\ at[e] = "payload" /\ UNCHANGED <<meant, head, size, wrote, got>>
      /\ \E h \in Header : took' = [took EXCEPT ![e] = {h}]
      /\ \/ e = "daemon" /\ at' = [at EXCEPT ![e] = "handle"] /\ outcome' = outcome
         \/ /\ e = "client" /\ at' = [at EXCEPT ![e] = "end"]
            /\ outcome' = [outcome EXCEPT ![e] = "ok"]
    BY AcceptedLen DEF TakeFrame, End, IInv, Reading, Ends
<1>2. \A d \in Ends : Legal(d)' <=> Legal(d)
    BY <1>1 DEF Legal
<1>3. took'[e] # {} /\ \A d \in Ends \ {e} : took'[d] = took[d]
    BY <1>1 DEF IInv, TypeOK
<1>4. Going'
    BY <1>1, <1>3 DEF IInv, TypeOK, Ending, Going, Ends
<1>5. DaemonEnds'
    BY <1>1, <1>2, <1>3 DEF IInv, TypeOK, Ending, DaemonEnds, Ends
<1>6. ClientEnds'
    BY <1>1, <1>2, <1>3 DEF IInv, TypeOK, Ending, ClientEnds, Ends
<1> QED BY <1>4, <1>5, <1>6 DEF Ending

\* Who begins to write ends only with a frame that is too long to be legal.
LEMMA BeginKeepsEnding ==
    ASSUME IInv, Ending, NEW e \in Ends, NEW f \in Frames, BeginWrite(e, f),
           \/ e = "client" /\ at[e] = "begin"
           \/ e = "daemon" /\ at[e] = "handle"
    PROVE  Ending'
<1>1. /\ meant' = [meant EXCEPT ![e] = {f}] /\ UNCHANGED <<wrote, got, took>>
      /\ \/ at' = [at EXCEPT ![e] = "write"] /\ outcome' = outcome
         \/ /\ at' = [at EXCEPT ![e] = "end"] /\ f.len \notin U32
            /\ outcome' = [outcome EXCEPT ![e] = "PayloadTooLarge"]
    BY DEF BeginWrite, End
<1>2. meant'[e] = {f} /\ \A d \in Ends \ {e} : meant'[d] = meant[d]
    BY <1>1 DEF IInv, TypeOK
<1>3. /\ at'[e] = "end" => ~Legal(e)'
      /\ \A d \in Ends \ {e} : Legal(d)' <=> Legal(d)
    BY <1>1, <1>2 DEF Legal, IInv, TypeOK
<1>4. CASE e = "client"
    <2>1. at["daemon"] = "end" => outcome["daemon"] = "died"
        BY <1>4 DEF Ending, Going
    <2>2. Going'
        BY <1>1, <1>4 DEF IInv, TypeOK, Ending, Going, Ends
    <2>3. DaemonEnds' /\ ClientEnds'
        BY <1>1, <1>3, <1>4, <2>1 DEF IInv, TypeOK, DaemonEnds, ClientEnds, Ends
    <2> QED BY <2>2, <2>3 DEF Ending
<1>5. CASE e = "daemon"
    <2>1. took["daemon"] # {} /\ outcome["daemon"] = "none" /\ at["client"] # "begin"
          /\ meant["daemon"] = {}
        BY <1>5 DEF IInv, Unwritten, Ending, Going, Ends
    <2>2. Going'
        BY <1>1, <1>5, <2>1 DEF IInv, TypeOK, Ending, Going, Ends
    <2>3. DaemonEnds'
        BY <1>1, <1>2, <1>3, <1>5, <2>1 DEF IInv, TypeOK, DaemonEnds, Ends
    <2>4. at["client"] = "end" /\ outcome["client"] # "died" /\ Legal("client") => took["client"] # {}
        BY <2>1 DEF Ending, ClientEnds
    <2>5. ClientEnds'
        BY <1>1, <1>3, <1>5, <2>4 DEF IInv, TypeOK, ClientEnds, Ends
    <2> QED BY <2>2, <2>3, <2>5 DEF Ending
<1> QED BY <1>4, <1>5

\* Garbage means nothing.
LEMMA GarbageKeepsEnding ==
    ASSUME IInv, Ending, SendGarbage
    PROVE  Ending'
<1>1. /\ at["client"] = "begin" /\ at' = [at EXCEPT !["client"] = "write"]
      /\ UNCHANGED <<meant, wrote, got, took, outcome>>
    BY DEF SendGarbage
<1>2. ~Legal("client")'
    BY <1>1 DEF IInv, Unwritten, Legal
<1> QED BY <1>1, <1>2 DEF IInv, TypeOK, Ending, Going, DaemonEnds, ClientEnds, Ends

\* Nobody has begun, nobody is over.
LEMMA InitAllInv == Init => AllInv
BY InitIInv DEF AllInv, Init, Ending, Going, DaemonEnds, ClientEnds, Ends

\* Every step of either end.
LEMMA NextKeepsAllInv == AllInv /\ [Next]_vars => AllInv'
<1> SUFFICES ASSUME AllInv, [Next]_vars PROVE AllInv'
    OBVIOUS
<1>1. IInv'
    BY NextKeepsIInv DEF AllInv
<1>2. CASE UNCHANGED vars
    BY <1>1, <1>2 DEF vars, AllInv, Ending, Going, DaemonEnds, ClientEnds, Legal
<1>3. CASE Next
    <2>1. PICK e \in Ends : Step(e) \/ Die(e)
        BY <1>3 DEF Next
    <2>2. IInv /\ Ending
        BY DEF AllInv
    <2>3. CASE e = "client" /\ Send
        <3>1. PICK f \in Frames : BeginWrite(e, f)
            BY <2>3, ExchangeConstantsOK DEF ExchangeConstantsOK, Send, Frames
        <3>2. at[e] = "begin"
            BY <2>3 DEF Send
        <3> QED BY <1>1, <2>2, <2>3, <3>1, <3>2, BeginKeepsEnding DEF AllInv
    <2>4. CASE e = "daemon" /\ Answer
        <3>1. PICK f \in Frames : BeginWrite(e, f)
            BY <2>2, <2>4, AnswerBegins
        <3>2. at[e] = "handle"
            BY <2>4 DEF Answer
        <3> QED BY <1>1, <2>2, <2>4, <3>1, <3>2, BeginKeepsEnding DEF AllInv
    <2>5. CASE WritePiece(e) \/ ReadPiece(e) \/ EndWrite(e) \/ WriteFails(e) \/ ReadFails(e)
        BY <1>1, <2>2, <2>5, PiecesKeepEnding, WritesKeepEnding, ReadFailsKeepsEnding DEF AllInv
    <2>6. CASE DecodeHead(e) \/ TakeFrame(e) \/ Die(e) \/ SendGarbage
        BY <1>1, <2>2, <2>6, DecodeKeepsEnding, TakeKeepsEnding, DeathKeepsEnding, GarbageKeepsEnding
        DEF AllInv
    <2> QED BY <2>1, <2>3, <2>4, <2>5, <2>6 DEF Step
<1> QED BY <1>2, <1>3

LEMMA AllInvariance == Spec => []AllInv
BY InitAllInv, NextKeepsAllInv, PTL DEF Spec

-----------------------------------------------------------------------------
(* Theorems. *)

\* No end reads what was not written, writes more than its frame, or overfills a
\* socket (frame.rs:98-147).
THEOREM TypeCorrect == Spec => []TypeOK
<1>1. IInv => TypeOK
    BY DEF IInv
<1> QED BY <1>1, Invariance, PTL

\* A frame that read_frame returns (frame.rs:98-120) is the one that write_frame
\* was given at the other end, whole, and nothing of it is left.
THEOREM WholeFramesArrive == Spec => []FrameArrives
<1>1. IInv => FrameArrives
    BY TakenWhole DEF FrameArrives
<1> QED BY <1>1, Invariance, PTL

\* read_frame never takes more than a header and the limit of its own end
\* (frame.rs:103-111), whatever the header says.
THEOREM LimitIsKept == Spec => []WithinLimit
<1>1. IInv => WithinLimit
    BY DEF IInv, Reading, WithinLimit
<1> QED BY <1>1, Invariance, PTL

\* If both frames are legal for their readers and nobody dies, the client has the
\* answer when it is over (frame.rs:98-147, daemon.rs:269-299), in whatever pieces
\* the bytes came and also if the daemon had closed before the client read them.
THEOREM LegalSucceeds == Spec => []LegalExchangeSucceeds
<1>1. AllInv => LegalExchangeSucceeds
    <2> SUFFICES ASSUME AllInv, at["client"] = "end", outcome["client"] # "died", Legal("client"),
                        outcome["daemon"] # "died", meant["daemon"] = {} \/ Legal("daemon")
                 PROVE  took["client"] = meant["daemon"] /\ took["client"] # {}
        BY DEF LegalExchangeSucceeds, Legal
    <2>1. took["client"] # {}
        BY DEF AllInv, Ending, ClientEnds
    <2> QED BY <2>1, TakenWhole DEF AllInv, Ends, Peer
<1> QED BY <1>1, AllInvariance, PTL

\* The ends never wait for each other, whatever the sockets hold and however long
\* the frames are (frame.rs:98-147, daemon.rs:269-299).
THEOREM NoDeadlock == Spec => []NeverBothWait
<1>1. ASSUME AllInv, Waits("client"), Waits("daemon") PROVE FALSE
    <2>1. /\ got["daemon"] \in Nat /\ wrote["client"] \in Nat /\ size["client"] \in Nat
          /\ InTransit("client") = wrote["client"] - got["daemon"]
          /\ wrote["client"] <= size["client"] /\ got["daemon"] <= wrote["client"]
        BY <1>1 DEF AllInv, IInv, TypeOK, InTransit, Ends, Peer
    <2>2. at["daemon"] # "write"
        \* else it has taken the client's frame, the client reads, and there is
        \* something to read
        <3> SUFFICES ASSUME at["daemon"] = "write" PROVE FALSE
            OBVIOUS
        <3>1. wrote["client"] = size["client"]
            BY <1>1, <2>1, TakenWhole DEF AllInv, Ending, Going, Ends, Peer
        <3>2. at["client"] \in {"head", "payload"} /\ InTransit("daemon") = 0
            BY <1>1, <2>1, <3>1 DEF Waits, Peer
        <3> QED BY <1>1, <3>2, ExchangeConstantsOK DEF ExchangeConstantsOK, Waits, Peer
    <2>3. at["daemon"] \in {"head", "payload"} /\ InTransit("client") = 0 /\ got["daemon"] < Wanted("daemon")
        BY <1>1, <2>2 DEF Waits, Peer
    <2>4. at["client"] \in {"head", "payload"}
        BY <1>1, <2>3, ExchangeConstantsOK DEF ExchangeConstantsOK, Waits
    <2>5. got["daemon"] = size["client"] /\ size["client"] # 0
        BY <1>1, <2>1, <2>3, <2>4 DEF AllInv, IInv, Unwritten
    <2>6. size["client"] >= HeaderLen
        BY <1>1, <2>5, Units DEF AllInv, IInv, TypeOK, Sending, Framed, Ends, Header, U32, HeaderLen
    <2>7. at["daemon"] = "payload"
        BY <2>1, <2>3, <2>5, <2>6 DEF Wanted, HeaderLen
    <2>8. size["client"] = FrameLen("daemon")
        <3>1. Accepted("daemon")
            BY <1>1, <2>7 DEF AllInv, IInv, Reading, Ends
        <3>2. meant["client"] # {}
            BY <1>1, <2>5, <3>1, ExchangeConstantsOK
            DEF ExchangeConstantsOK, AllInv, IInv, Sending, Framed, Accepted, Ends, Peer
        <3> QED BY <1>1, <2>5, <2>6, <3>2, ReadsItsFrame DEF AllInv, Ends, Peer
    <2> QED BY <2>1, <2>3, <2>5, <2>7, <2>8 DEF Wanted, FrameLen
<1>2. AllInv => NeverBothWait
    BY <1>1 DEF NeverBothWait, Ends
<1> QED BY <1>2, AllInvariance, PTL
=============================================================================
