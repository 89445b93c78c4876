------------------------------- MODULE Frame -------------------------------
(***************************************************************************)
(* src/frame.rs: the header of a frame as twelve bytes, big-endian, and    *)
(* back.  Exchange sends it over a connection; FrameProofs proves that     *)
(* decode is the inverse of encode.                                        *)
(*                                                                         *)
(* A byte has Base values, 256 in the code.  TLC takes a small Base, so    *)
(* that the limits of u16 and u32 come within its reach.                   *)
(***************************************************************************)
EXTENDS Naturals

CONSTANTS
    Base,       \* the values of a byte
    Magic,      \* 0x534f434b, a u32
    Version     \* 1, a u8

Base2 == Base * Base
Base3 == Base2 * Base
Base4 == Base3 * Base

Byte == 0..(Base - 1)
U16  == 0..(Base2 - 1)
U32  == 0..(Base4 - 1)

ASSUME CodecConstantsOK ==
    /\ Base \in Nat /\ Base > 7
    /\ Magic \in U32
    /\ Version \in Byte

\* FrameKind as u8
KindByte == [Request |-> 1, Response |-> 2, Ping |-> 3, Pong |-> 4,
             Error |-> 5, Shutdown |-> 6, ShutdownAck |-> 7]

FrameKind == {"Request", "Response", "Ping", "Pong", "Error", "Shutdown", "ShutdownAck"}

Header == [kind : FrameKind, flags : U16, len : U32]

HeaderLen == 12

\* The byte of n that counts units, as in n.to_be_bytes(): higher ones are lost.
Digit(n, unit) == (n \div unit) % Base

\* Header::encode, of a frame whose length may not fit (payload.len() as u32)
Encode(h) ==
    << Digit(Magic, Base3), Digit(Magic, Base2), Digit(Magic, Base), Digit(Magic, 1),
       Version, KindByte[h.kind],
       Digit(h.flags, Base), Digit(h.flags, 1),
       Digit(h.len, Base3), Digit(h.len, Base2), Digit(h.len, Base), Digit(h.len, 1) >>

\* u32::from_be_bytes, u16::from_be_bytes
ToU32(a, b, c, d) == a * Base3 + b * Base2 + c * Base + d
ToU16(a, b)       == a * Base + b

\* Header::decode: the first check that fails, or "ok"
Verdict(buf) ==
    IF ToU32(buf[1], buf[2], buf[3], buf[4]) # Magic THEN "InvalidFrameMagic"
    ELSE IF buf[5] # Version                         THEN "UnsupportedFrameVersion"
    ELSE IF \A k \in FrameKind : KindByte[k] # buf[6] THEN "UnknownFrameKind"
    ELSE "ok"

\* Mutant: flags in the byte order of the machine.
DecodedLittleEndian(buf) ==
    [ kind  |-> CHOOSE k \in FrameKind : KindByte[k] = buf[6],
      flags |-> ToU16(buf[8], buf[7]),
      len   |-> ToU32(buf[9], buf[10], buf[11], buf[12]) ]

\* Header::decode: the header, if the verdict is "ok"
Decoded(buf) ==
    [ kind  |-> CHOOSE k \in FrameKind : KindByte[k] = buf[6],
      flags |-> ToU16(buf[7], buf[8]),
      len   |-> ToU32(buf[9], buf[10], buf[11], buf[12]) ]
=============================================================================
