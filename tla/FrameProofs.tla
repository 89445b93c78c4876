----------------------------- MODULE FrameProofs -----------------------------
(***************************************************************************)
(* The header of a frame: decode undoes encode and encode undoes decode,   *)
(* for bytes of any size, any magic number and every length that fits.     *)
(* The numbers of the header are split into digits by division: DigitsOf   *)
(* puts them together again, and Digits...Unique shows that no other       *)
(* digits give the same number.                                            *)
(***************************************************************************)
EXTENDS Frame, TLAPS

-----------------------------------------------------------------------------
(* Division. *)

\* A quotient and a remainder determine each other.
LEMMA DivisionIsUnique ==
    ASSUME NEW m \in Nat, NEW d \in Nat \ {0}, NEW q \in Nat, NEW r \in 0..(d - 1),
           m = d * q + r
    PROVE  m \div d = q
<1> DEFINE k == m \div d
           s == m % d
<1>1. k \in Nat /\ s \in 0..(d - 1) /\ m = d * k + s
    OBVIOUS
<1> HIDE DEF k, s
<1>2. d * k + s = d * q + r
    BY <1>1
<1>3. ~(k < q)
    <2> SUFFICES ASSUME k + 1 <= q PROVE FALSE
        BY <1>1
    <2>1. d * (k + 1) <= d * q
        BY <1>1
    <2>2. d * (k + 1) = d * k + d
        BY <1>1
    <2>3. d * k \in Nat /\ d * q \in Nat
        BY <1>1
    <2> QED BY <1>1, <1>2, <2>1, <2>2, <2>3
<1>4. ~(q < k)
    <2> SUFFICES ASSUME q + 1 <= k PROVE FALSE
        BY <1>1
    <2>1. d * (q + 1) <= d * k
        BY <1>1
    <2>2. d * (q + 1) = d * q + d
        BY <1>1
    <2>3. d * k \in Nat /\ d * q \in Nat
        BY <1>1
    <2> QED BY <1>1, <1>2, <2>1, <2>2, <2>3
<1> QED BY <1>1, <1>3, <1>4 DEF k

\* Dividing by u and then by b is dividing by their product.
LEMMA DivisionInSteps ==
    ASSUME NEW n \in Nat, NEW u \in Nat \ {0}, NEW b \in Nat \ {0}
    PROVE  n \div (u * b) = (n \div u) \div b
<1> DEFINE q == n \div u
           r == n % u
           p == q \div b
           t == q % b
<1>1. q \in Nat /\ r \in 0..(u - 1) /\ n = u * q + r
    OBVIOUS
<1> HIDE DEF q, r
<1>2. p \in Nat /\ t \in 0..(b - 1) /\ q = b * p + t
    BY <1>1
<1> HIDE DEF p, t
<1>3. n = u * b * p + (u * t + r)
    <2>1. u * (b * p + t) = u * (b * p) + u * t
        BY <1>2
    <2>2. u * (b * p) = u * b * p
        BY <1>2
    <2> QED BY <1>1, <1>2, <2>1, <2>2
<1>4. u * t + r \in 0..(u * b - 1)
    <2>1. u * t <= u * (b - 1)
        BY <1>2
    <2>2. u * (b - 1) = u * b - u
        OBVIOUS
    <2>3. u * t \in Nat /\ u * b \in Nat
        BY <1>2
    <2> QED BY <1>1, <2>1, <2>2, <2>3
<1>5. u * b \in Nat \ {0}
    OBVIOUS
<1> DEFINE d == u * b
           rest == u * t + r
<1>6. d \in Nat \ {0} /\ rest \in 0..(d - 1) /\ n = d * p + rest
    BY <1>3, <1>4, <1>5
<1> HIDE DEF d, rest
<1>7. n \div d = p
    BY <1>2, <1>6, DivisionIsUnique
<1> QED BY <1>7 DEF d, p, q

-----------------------------------------------------------------------------
(* Digits. *)

\* Every unit is a positive number, and each is Base times the one below.
LEMMA Units ==
    /\ Base \in Nat \ {0} /\ Base > 7
    /\ Base2 \in Nat \ {0} /\ Base3 \in Nat \ {0} /\ Base4 \in Nat \ {0}
<1>1. Base \in Nat /\ Base > 7
    BY CodecConstantsOK DEF CodecConstantsOK
<1>2. Base2 \in Nat \ {0}
    BY <1>1 DEF Base2
<1>3. Base3 \in Nat \ {0}
    BY <1>1, <1>2 DEF Base3
<1>4. Base4 \in Nat \ {0}
    BY <1>1, <1>3 DEF Base4
<1> QED BY <1>1, <1>2, <1>3, <1>4

\* A number is the quotient by Base and its last digit.
LEMMA LastDigit ==
    ASSUME NEW n \in Nat, NEW u \in Nat \ {0}
    PROVE  /\ Digit(n, u) \in Byte /\ n \div u \in Nat
           /\ n \div u = Base * (n \div (u * Base)) + Digit(n, u)
<1> DEFINE q == n \div u
<1>1. q \in Nat
    OBVIOUS
<1>2. n \div (u * Base) = q \div Base
    BY DivisionInSteps, Units
<1> HIDE DEF q
<1>3. q = Base * (q \div Base) + (q % Base) /\ q % Base \in 0..(Base - 1)
    BY <1>1, Units
<1>4. Digit(n, u) = q % Base
    BY DEF Digit, q
<1>5. n \div u = q
    BY DEF q
<1> QED BY <1>1, <1>2, <1>3, <1>4, <1>5 DEF Byte

\* A quotient is 0 if the number is below the divisor.
LEMMA NothingAbove ==
    ASSUME NEW d \in Nat \ {0}, NEW n \in 0..(d - 1)
    PROVE  n \div d = 0
BY DivisionIsUnique

\* The two bytes of a u16 give it back (frame.rs:72, 90).
LEMMA DigitsOfU16 ==
    ASSUME NEW n \in U16
    PROVE  /\ Digit(n, Base) \in Byte /\ Digit(n, 1) \in Byte
           /\ ToU16(Digit(n, Base), Digit(n, 1)) = n
<1>1. n \in Nat /\ n \in 0..(Base2 - 1)
    BY Units DEF U16
<1>2. n \div Base2 = 0
    BY <1>1, Units, NothingAbove
<1>3. /\ Digit(n, Base) \in Byte
      /\ n \div Base = Base * (n \div Base2) + Digit(n, Base)
    BY <1>1, Units, LastDigit DEF Base2
<1>4. /\ Digit(n, 1) \in Byte
      /\ n = Base * (n \div Base) + Digit(n, 1)
    <2>1. n \div 1 = n /\ 1 * Base = Base
        BY <1>1, Units
    <2> QED BY <1>1, <2>1, LastDigit
<1>5. n \div Base = Digit(n, Base)
    BY <1>2, <1>3, Units DEF Byte
<1>6. Base * Digit(n, Base) = Digit(n, Base) * Base
    BY <1>3, Units DEF Byte
<1> QED BY <1>3, <1>4, <1>5, <1>6 DEF ToU16

\* The four bytes of a u32 give it back (frame.rs:69, 73, 78, 91).
LEMMA DigitsOfU32 ==
    ASSUME NEW n \in U32
    PROVE  /\ Digit(n, Base3) \in Byte /\ Digit(n, Base2) \in Byte
           /\ Digit(n, Base) \in Byte /\ Digit(n, 1) \in Byte
           /\ ToU32(Digit(n, Base3), Digit(n, Base2), Digit(n, Base), Digit(n, 1)) = n
<1> DEFINE d3 == Digit(n, Base3)
           d2 == Digit(n, Base2)
           d1 == Digit(n, Base)
           d0 == Digit(n, 1)
<1>1. n \in Nat /\ n \in 0..(Base4 - 1)
    BY Units DEF U32
<1>2. n \div Base4 = 0
    BY <1>1, Units, NothingAbove
<1>3. d3 \in Byte /\ n \div Base3 = Base * (n \div Base4) + d3
    BY <1>1, Units, LastDigit DEF Base4
<1>4. d2 \in Byte /\ n \div Base2 = Base * (n \div Base3) + d2
    BY <1>1, Units, LastDigit DEF Base3
<1>5. d1 \in Byte /\ n \div Base = Base * (n \div Base2) + d1
    BY <1>1, Units, LastDigit DEF Base2
<1>6. d0 \in Byte /\ n = Base * (n \div Base) + d0
    <2>1. n \div 1 = n /\ 1 * Base = Base
        BY <1>1, Units
    <2> QED BY <1>1, <2>1, LastDigit
<1> HIDE DEF d3, d2, d1, d0
<1>7. n \div Base3 = d3
    BY <1>2, <1>3, Units DEF Byte
<1>8. n = Base * (Base * (Base * d3 + d2) + d1) + d0
    BY <1>4, <1>5, <1>6, <1>7
<1>9. Base * (Base * (Base * d3 + d2) + d1) + d0 = ToU32(d3, d2, d1, d0)
    BY <1>3, <1>4, <1>5, <1>6, Units DEF Byte, ToU32, Base3, Base2
<1> QED BY <1>3, <1>4, <1>5, <1>6, <1>8, <1>9 DEF d3, d2, d1, d0

\* The last digit and the rest of a number determine it, and it them.
LEMMA LastDigitIsUnique ==
    ASSUME NEW x \in Nat, NEW y \in Nat, NEW r \in Byte, NEW s \in Byte,
           Base * x + r = Base * y + s
    PROVE  x = y /\ r = s
<1> DEFINE n == Base * x + r
<1>1. n \in Nat /\ n = Base * x + r /\ n = Base * y + s
    BY Units DEF Byte
<1>2. r \in 0..(Base - 1) /\ s \in 0..(Base - 1)
    BY DEF Byte
<1> HIDE DEF n
<1>3. n \div Base = x
    BY <1>1, <1>2, Units, DivisionIsUnique
<1>4. n \div Base = y
    BY <1>1, <1>2, Units, DivisionIsUnique
<1>5. x = y
    BY <1>3, <1>4
<1>6. Base * x \in Nat
    BY Units
<1> QED BY <1>1, <1>2, <1>5, <1>6

\* A u16 has one pair of bytes only.
LEMMA DigitsOfU16Unique ==
    ASSUME NEW a \in Byte, NEW b \in Byte, NEW x \in Byte, NEW y \in Byte,
           ToU16(a, b) = ToU16(x, y)
    PROVE  a = x /\ b = y
<1>1. a \in Nat /\ x \in Nat
    BY Units DEF Byte
<1>2. Base * a + b = Base * x + y
    BY <1>1, Units DEF ToU16
<1> QED BY <1>1, <1>2, LastDigitIsUnique

\* Four bytes of a u32 are its digits: it has no others.
LEMMA DigitsOfU32Unique ==
    ASSUME NEW n \in U32, NEW w \in Byte, NEW x \in Byte, NEW y \in Byte, NEW z \in Byte,
           ToU32(w, x, y, z) = n
    PROVE  Digit(n, Base3) = w /\ Digit(n, Base2) = x /\ Digit(n, Base) = y /\ Digit(n, 1) = z
<1> DEFINE a == Digit(n, Base3)
           b == Digit(n, Base2)
           c == Digit(n, Base)
           d == Digit(n, 1)
<1>1. a \in Byte /\ b \in Byte /\ c \in Byte /\ d \in Byte /\ ToU32(a, b, c, d) = n
    BY DigitsOfU32
<1> HIDE DEF a, b, c, d
<1>2. /\ a \in Nat /\ b \in Nat /\ c \in Nat /\ d \in Nat
      /\ w \in Nat /\ x \in Nat /\ y \in Nat /\ z \in Nat /\ Base \in Nat
    BY <1>1, Units DEF Byte
<1>3. n = Base * (Base * (Base * a + b) + c) + d
    BY <1>1, <1>2 DEF ToU32, Base3, Base2
<1>4. n = Base * (Base * (Base * w + x) + y) + z
    BY <1>2 DEF ToU32, Base3, Base2
<1> DEFINE ab  == Base * a + b
           wx  == Base * w + x
<1>5. ab \in Nat /\ wx \in Nat
    BY <1>2
<1> HIDE DEF ab, wx
<1> DEFINE abc == Base * ab + c
           wxy == Base * wx + y
<1>6. abc \in Nat /\ wxy \in Nat
    BY <1>2, <1>5
<1> HIDE DEF abc, wxy
<1>7. abc = wxy /\ d = z
    <2>1. Base * abc + d = Base * wxy + z
        BY <1>3, <1>4 DEF ab, wx, abc, wxy
    <2> QED BY <1>1, <1>6, <2>1, LastDigitIsUnique
<1>8. ab = wx /\ c = y
    <2>1. Base * ab + c = Base * wx + y
        BY <1>7 DEF abc, wxy
    <2> QED BY <1>1, <1>5, <2>1, LastDigitIsUnique
<1>9. a = w /\ b = x
    <2>1. Base * a + b = Base * w + x
        BY <1>8 DEF ab, wx
    <2>2. a \in Nat /\ w \in Nat /\ b \in Byte /\ x \in Byte
        BY <1>1, <1>2
    <2> QED BY <2>1, <2>2, LastDigitIsUnique
<1> QED BY <1>7, <1>8, <1>9 DEF a, b, c, d

-----------------------------------------------------------------------------
(* Headers. *)

\* The kinds have bytes that differ (frame.rs:11-19) and that a byte can hold.
LEMMA KindBytes ==
    /\ \A k \in FrameKind : KindByte[k] \in Byte
    /\ \A j, k \in FrameKind : KindByte[j] = KindByte[k] => j = k
BY Units DEF FrameKind, KindByte, Byte

\* decode(encode(h)) is h (frame.rs:66-95): whatever header is written, the reader
\* accepts it and has kind, flags and length as they were.
THEOREM DecodeUndoesEncode ==
    ASSUME NEW h \in Header
    PROVE  Verdict(Encode(h)) = "ok" /\ Decoded(Encode(h)) = h
<1> DEFINE e == Encode(h)
<1>1. h.kind \in FrameKind /\ h.flags \in U16 /\ h.len \in U32
      /\ h = [kind |-> h.kind, flags |-> h.flags, len |-> h.len]
    BY DEF Header
<1>2. /\ e[1] = Digit(Magic, Base3) /\ e[2] = Digit(Magic, Base2)
      /\ e[3] = Digit(Magic, Base) /\ e[4] = Digit(Magic, 1)
      /\ e[5] = Version /\ e[6] = KindByte[h.kind]
      /\ e[7] = Digit(h.flags, Base) /\ e[8] = Digit(h.flags, 1)
      /\ e[9] = Digit(h.len, Base3) /\ e[10] = Digit(h.len, Base2)
      /\ e[11] = Digit(h.len, Base) /\ e[12] = Digit(h.len, 1)
    BY DEF Encode
<1> HIDE DEF e
<1>3. ToU32(e[1], e[2], e[3], e[4]) = Magic
    BY <1>2, DigitsOfU32, CodecConstantsOK DEF CodecConstantsOK
<1>4. ToU16(e[7], e[8]) = h.flags
    BY <1>1, <1>2, DigitsOfU16
<1>5. ToU32(e[9], e[10], e[11], e[12]) = h.len
    BY <1>1, <1>2, DigitsOfU32
<1>6. (CHOOSE k \in FrameKind : KindByte[k] = e[6]) = h.kind
    BY <1>1, <1>2, KindBytes
<1>7. Verdict(e) = "ok"
    BY <1>1, <1>2, <1>3 DEF Verdict
<1>8. Decoded(e) = h
    BY <1>1, <1>4, <1>5, <1>6 DEF Decoded
<1> QED BY <1>7, <1>8 DEF e

\* Two headers never have the same bytes: a reader cannot take one for another.
THEOREM EncodeIsInjective ==
    ASSUME NEW g \in Header, NEW h \in Header, Encode(g) = Encode(h)
    PROVE  g = h
<1>1. Decoded(Encode(g)) = g /\ Decoded(Encode(h)) = h
    BY DecodeUndoesEncode
<1> QED BY <1>1

\* encode(decode(buf)) is buf (frame.rs:66-95): twelve bytes that decode accepts are
\* those of a header, the one it returns, and of no other (EncodeIsInjective).
THEOREM AcceptedIsHeader ==
    ASSUME NEW buf \in [1..HeaderLen -> Byte], Verdict(buf) = "ok"
    PROVE  Decoded(buf) \in Header /\ Encode(Decoded(buf)) = buf
<1>1. \A i \in 1..12 : buf[i] \in 0..(Base - 1)
    BY DEF HeaderLen, Byte
<1>2. ToU16(buf[7], buf[8]) \in U16
    <2> DEFINE a == buf[7]
               b == buf[8]
    <2>1. a \in 0..(Base - 1) /\ b \in 0..(Base - 1)
        BY <1>1
    <2> HIDE DEF a, b
    <2>2. a * Base \in 0..((Base - 1) * Base) /\ (Base - 1) * Base = Base2 - Base
        BY <2>1, Units DEF Base2
    <2>3. a * Base + b \in 0..(Base2 - 1)
        BY <2>1, <2>2, Units
    <2> QED BY <2>3 DEF ToU16, U16, a, b
<1>3. ToU32(buf[9], buf[10], buf[11], buf[12]) \in U32
    <2> DEFINE a == buf[9]
               b == buf[10]
               c == buf[11]
               d == buf[12]
    <2>1. a \in 0..(Base - 1) /\ b \in 0..(Base - 1) /\ c \in 0..(Base - 1)
          /\ d \in 0..(Base - 1)
        BY <1>1
    <2> HIDE DEF a, b, c, d
    <2>2. a * Base3 \in 0..((Base - 1) * Base3) /\ (Base - 1) * Base3 = Base4 - Base3
        BY <2>1, Units DEF Base4
    <2>3. b * Base2 \in 0..((Base - 1) * Base2) /\ (Base - 1) * Base2 = Base3 - Base2
        BY <2>1, Units DEF Base3
    <2>4. c * Base \in 0..((Base - 1) * Base) /\ (Base - 1) * Base = Base2 - Base
        BY <2>1, Units DEF Base2
    <2>5. a * Base3 + b * Base2 + c * Base + d \in 0..(Base4 - 1)
        BY <2>1, <2>2, <2>3, <2>4, Units
    <2> QED BY <2>5 DEF ToU32, U32, a, b, c, d
<1>4. (CHOOSE k \in FrameKind : KindByte[k] = buf[6]) \in FrameKind
    <2>1. \E k \in FrameKind : KindByte[k] = buf[6]
        BY DEF Verdict
    <2> QED BY <2>1
<1> DEFINE h == Decoded(buf)
<1>5. /\ h \in Header
      /\ h.flags = ToU16(buf[7], buf[8])
      /\ h.len = ToU32(buf[9], buf[10], buf[11], buf[12])
    BY <1>2, <1>3, <1>4 DEF Decoded, Header
<1>6. KindByte[h.kind] = buf[6]
    <2>1. \E k \in FrameKind : KindByte[k] = buf[6]
        BY DEF Verdict
    <2> QED BY <2>1 DEF Decoded
<1>7. h.flags \in U16 /\ h.len \in U32
    BY <1>5 DEF Header
<1>8. ToU32(buf[1], buf[2], buf[3], buf[4]) = Magic /\ buf[5] = Version
    BY DEF Verdict
<1>9. \A i \in 1..12 : buf[i] \in Byte
    BY DEF HeaderLen
<1> HIDE DEF h
<1>10. /\ Digit(Magic, Base3) = buf[1] /\ Digit(Magic, Base2) = buf[2]
       /\ Digit(Magic, Base) = buf[3] /\ Digit(Magic, 1) = buf[4]
    <2>1. Magic \in U32
        BY CodecConstantsOK DEF CodecConstantsOK
    <2>2. buf[1] \in Byte /\ buf[2] \in Byte /\ buf[3] \in Byte /\ buf[4] \in Byte
        BY <1>9
    <2> QED BY <1>8, <2>1, <2>2, DigitsOfU32Unique
<1>11. Digit(h.flags, Base) = buf[7] /\ Digit(h.flags, 1) = buf[8]
    BY <1>5, <1>7, <1>9, DigitsOfU16, DigitsOfU16Unique
<1>12. /\ Digit(h.len, Base3) = buf[9] /\ Digit(h.len, Base2) = buf[10]
       /\ Digit(h.len, Base) = buf[11] /\ Digit(h.len, 1) = buf[12]
    <2>1. buf[9] \in Byte /\ buf[10] \in Byte /\ buf[11] \in Byte /\ buf[12] \in Byte
        BY <1>9
    <2> QED BY <1>5, <1>7, <2>1, DigitsOfU32Unique
<1>13. Encode(h) = << buf[1], buf[2], buf[3], buf[4], buf[5], buf[6],
                      buf[7], buf[8], buf[9], buf[10], buf[11], buf[12] >>
    BY <1>6, <1>8, <1>10, <1>11, <1>12 DEF Encode
<1>14. buf = << buf[1], buf[2], buf[3], buf[4], buf[5], buf[6],
                buf[7], buf[8], buf[9], buf[10], buf[11], buf[12] >>
    BY DEF HeaderLen
<1> QED BY <1>5, <1>13, <1>14 DEF h
=============================================================================
