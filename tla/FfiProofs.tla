----------------------------- MODULE FfiProofs -----------------------------
(***************************************************************************)
(* What the C interface guarantees, for any number of threads, any texts,  *)
(* lengths and messages.                                                   *)
(*                                                                         *)
(* The argument: a caller holds at most one allocation, and only between   *)
(* the return of a call and the release of what it returned (Outputs); a   *)
(* configuration, and every client built from one, has the arguments of    *)
(* its own program (Paired).                                               *)
(* The text of a message has a NUL at its end and nowhere else, so that    *)
(* strlen + 1 is the size of its allocation (Stored).                      *)
(***************************************************************************)
EXTENDS Ffi, FiniteSetTheorems, TLAPS

Calls == Operations \union {"none", "new", "set"}

Types ==
    /\ at \in [Callers -> Operations \union {"idle", "returned"}]
    /\ client \in [Callers -> Config \union {Null}]
    /\ ret \in [Callers -> [call : Calls, code : Codes, wantsError : BOOLEAN]]
    /\ err \in [Callers -> Addresses \union {Null}]
    /\ buf \in [Callers -> [ptr : Addresses \union {Null, Dangling}, len : Nat]]
    \* between its begin and its end a call has its client
    /\ \A c \in Callers : IF at[c] \in Operations THEN client[c] \in Config ELSE client[c] = Null

\* What c holds, by where it is and by the code that it got.
Outputs(c) ==
    /\ buf[c].len > 0 => buf[c].ptr \in Addresses
    /\ buf[c].len = 0 => buf[c].ptr \in {Null, Dangling}
    /\ at[c] = "returned" =>
           /\ err[c] # Null <=> ret[c].code # "OK" /\ ret[c].wantsError
           /\ buf[c].ptr # Null <=> ret[c].code = "OK" /\ ret[c].call = "request"
    /\ at[c] # "returned" => err[c] = Null /\ buf[c] = NoBuffer

\* A client has the arguments of its own program.
Paired(cfg) == cfg # Null /\ cfg.program # Null => cfg.args = ArgsOf[cfg.program]

Pairs == Paired(config) /\ \A c \in Callers : Paired(client[c])

\* A string of C: its first NUL is its last byte, where its allocation ends.
IsString(a) ==
    /\ a.bytes \in Seq({0, 1}) /\ a.size \in Nat \ {0} /\ a.size = Len(a.bytes)
    /\ \A i \in 1..a.size : a.bytes[i] = 0 <=> i = a.size

\* What is on the heap is what its owner takes it for.
Stored ==
    /\ \A a \in DOMAIN heap : heap[a] \in [bytes : Seq({0, 1}), size : Nat \ {0}]
    /\ \A c \in Strings : IsString(heap[err[c]])
    /\ \A c \in Buffers : heap[buf[c].ptr].size = buf[c].len

\* What a call keeps beside the configuration.
CallsOK == Types /\ (\A c \in Callers : Outputs(c)) /\ HeapOwned /\ Stored

IInv == CallsOK /\ config \in Config \union {Null} /\ Pairs

-----------------------------------------------------------------------------
(* The heap. *)

\* The allocator has an address for a caller that holds nothing.
LEMMA FreshIsFree ==
    ASSUME Types, \A c \in Callers : Outputs(c), HeapOwned,
           NEW c \in Callers, at[c] # "returned"
    PROVE  Fresh \in Addresses /\ Fresh \notin DOMAIN heap
<1> DEFINE held == [d \in Callers |-> IF err[d] # Null THEN err[d]
                                      ELSE IF buf[d].len > 0 THEN buf[d].ptr ELSE Null]
<1>1. ASSUME NEW d \in Callers
      PROVE  /\ err[d] \in Addresses \union {Null}
             /\ buf[d].len > 0 => buf[d].ptr \in Addresses
             /\ err[d] # Null => ~(buf[d].len > 0)
    BY FfiConstantsOK DEF FfiConstantsOK, Types, Outputs, NoBuffer
<1>2. held \in [Callers -> Addresses \union {Null}] /\ held[c] = Null
    BY <1>1 DEF Outputs, NoBuffer
<1>3. PICK a \in Addresses : \A d \in Callers : held[d] # a
    BY <1>2, FfiConstantsOK DEF FfiConstantsOK
<1>4. a \notin DOMAIN heap
    BY <1>1, <1>3 DEF HeapOwned, Strings, Buffers
<1> QED BY <1>3, <1>4 DEF Fresh

\* Nobody has that address, as a string or as a buffer.
LEMMA FreshIsNobodys ==
    ASSUME Types, \A c \in Callers : Outputs(c), HeapOwned,
           NEW c \in Callers, at[c] # "returned", NEW d \in Callers
    PROVE  err[d] # Fresh /\ buf[d].ptr # Fresh
<1>1. Fresh \in Addresses /\ Fresh \notin DOMAIN heap /\ Fresh \notin {Null, Dangling}
    BY FreshIsFree, FfiConstantsOK DEF FfiConstantsOK
<1>2. err[d] # Fresh /\ (buf[d].len > 0 => buf[d].ptr # Fresh)
    BY <1>1 DEF HeapOwned, Strings, Buffers
<1>3. buf[d].len \in Nat /\ (buf[d].len = 0 => buf[d].ptr \in {Null, Dangling})
    BY DEF Types, Outputs
<1> QED BY <1>1, <1>2, <1>3

\* An error string: one more allocation, and c has it (write_error, ffi.rs:346-357).
LEMMA StringKeepsOwned ==
    ASSUME Types, \A c \in Callers : Outputs(c), HeapOwned,
           NEW c \in Callers, at[c] # "returned", NEW bytes, NEW size,
           heap' = With(bytes, size), err' = [err EXCEPT ![c] = Fresh], buf' = buf
    PROVE  HeapOwned'
<1>1. Fresh \in Addresses /\ Fresh \notin DOMAIN heap /\ Fresh # Null
    BY FreshIsFree, FfiConstantsOK DEF FfiConstantsOK
<1>2. DOMAIN heap' = DOMAIN heap \union {Fresh}
    BY DEF With
<1>3. err'[c] = Fresh /\ \A d \in Callers \ {c} : err'[d] = err[d]
    BY DEF Types
<1>4. err[c] = Null /\ buf[c].len = 0 /\ buf[c].ptr = Null
    BY DEF Outputs, NoBuffer
<1>5. DOMAIN heap' = {err'[d] : d \in Strings'} \union {buf'[d].ptr : d \in Buffers'}
    <2>1. Strings' = Strings \union {c} /\ Buffers' = Buffers /\ c \notin Strings
        BY <1>1, <1>3, <1>4 DEF Strings, Buffers
    <2>2. {err'[d] : d \in Strings'} = {err[d] : d \in Strings} \union {Fresh}
        BY <1>3, <2>1 DEF Strings
    <2> QED BY <1>2, <2>1, <2>2 DEF HeapOwned
<1>6. ASSUME NEW d \in Callers, NEW e \in Callers, d # e
      PROVE  /\ err'[d] = err'[e] => err'[d] = Null
             /\ err'[d] # buf'[e].ptr \/ err'[d] = Null
             /\ buf'[d].ptr = buf'[e].ptr => buf'[d].len = 0
    BY <1>3, <1>6, FreshIsNobodys DEF HeapOwned
<1> QED BY <1>5, <1>6 DEF HeapOwned

\* A response: one more allocation, and c has it (sockd_client_request,
\* ffi.rs:176-203).
LEMMA BufferKeepsOwned ==
    ASSUME Types, \A c \in Callers : Outputs(c), HeapOwned,
           NEW c \in Callers, at[c] # "returned", NEW bytes, NEW size, NEW n \in Nat \ {0},
           heap' = With(bytes, size), err' = err, buf' = [buf EXCEPT ![c] = [ptr |-> Fresh, len |-> n]]
    PROVE  HeapOwned'
<1>1. Fresh \in Addresses /\ Fresh \notin DOMAIN heap /\ Fresh # Null
    BY FreshIsFree, FfiConstantsOK DEF FfiConstantsOK
<1>2. DOMAIN heap' = DOMAIN heap \union {Fresh}
    BY DEF With
<1>3. buf'[c].ptr = Fresh /\ buf'[c].len = n /\ \A d \in Callers \ {c} : buf'[d] = buf[d]
    BY DEF Types
<1>4. err[c] = Null /\ buf[c].len = 0 /\ buf[c].ptr = Null
    BY DEF Outputs, NoBuffer
<1>5. DOMAIN heap' = {err'[d] : d \in Strings'} \union {buf'[d].ptr : d \in Buffers'}
    <2>1. Strings' = Strings /\ Buffers' = Buffers \union {c} /\ c \notin Buffers
        BY <1>3, <1>4 DEF Strings, Buffers
    <2>2. {buf'[d].ptr : d \in Buffers'} = {buf[d].ptr : d \in Buffers} \union {Fresh}
        BY <1>3, <2>1 DEF Buffers
    <2> QED BY <1>2, <2>1, <2>2 DEF HeapOwned
<1>6. ASSUME NEW d \in Callers, NEW e \in Callers, d # e
      PROVE  /\ err'[d] = err'[e] => err'[d] = Null
             /\ err'[d] # buf'[e].ptr \/ err'[d] = Null
             /\ buf'[d].ptr = buf'[e].ptr => buf'[d].len = 0
    BY <1>3, <1>6, FreshIsNobodys DEF HeapOwned
<1> QED BY <1>5, <1>6 DEF HeapOwned

\* What c gives back was its own (sockd_string_free, sockd_buffer_free).
LEMMA ReleaseKeepsOwned ==
    ASSUME Types, \A c \in Callers : Outputs(c), HeapOwned, NEW c \in Callers, Release(c)
    PROVE  HeapOwned'
<1>1. DOMAIN heap' = DOMAIN heap \ {err[c], buf[c].ptr}
    BY DEF Release, Without
<1>2. /\ err'[c] = Null /\ buf'[c].ptr = Null /\ buf'[c].len = 0
      /\ \A d \in Callers \ {c} : err'[d] = err[d] /\ buf'[d] = buf[d]
    BY DEF Release, Types, NoBuffer
<1>3. Strings' = Strings \ {c} /\ Buffers' = Buffers \ {c}
    BY <1>2 DEF Strings, Buffers
<1>4. ASSUME NEW d \in Callers \ {c}
      PROVE  /\ err[d] # Null => err[d] \notin {err[c], buf[c].ptr}
             /\ buf[d].len > 0 => buf[d].ptr \notin {err[c], buf[c].ptr}
    <2>1. /\ err[d] = err[c] => err[d] = Null
          /\ err[d] # buf[c].ptr \/ err[d] = Null
          /\ err[c] # buf[d].ptr \/ err[c] = Null
          /\ buf[d].ptr = buf[c].ptr => buf[d].len = 0
        BY DEF HeapOwned
    <2>2. buf[d].len > 0 => buf[d].ptr # Null
        BY FfiConstantsOK DEF FfiConstantsOK, Outputs
    <2>3. buf[d].len \in Nat
        BY DEF Types
    <2> QED BY <2>1, <2>2, <2>3
<1>5. DOMAIN heap' = {err'[d] : d \in Strings'} \union {buf'[d].ptr : d \in Buffers'}
    BY <1>1, <1>2, <1>3, <1>4 DEF HeapOwned, Strings, Buffers
<1>6. ASSUME NEW d \in Callers, NEW e \in Callers, d # e
      PROVE  /\ err'[d] = err'[e] => err'[d] = Null
             /\ err'[d] # buf'[e].ptr \/ err'[d] = Null
             /\ buf'[d].ptr = buf'[e].ptr => buf'[d].len = 0
    <2>1. /\ err[d] = err[e] => err[d] = Null
          /\ err[d] # buf[e].ptr \/ err[d] = Null
          /\ buf[d].ptr = buf[e].ptr => buf[d].len = 0
        BY <1>6 DEF HeapOwned
    <2>2. buf[d].ptr = Null => buf[d].len = 0
        BY FfiConstantsOK DEF FfiConstantsOK, Outputs, Types
    <2> QED BY <1>2, <1>6, <2>1, <2>2
<1> QED BY <1>5, <1>6 DEF HeapOwned

-----------------------------------------------------------------------------
(* What is on the heap. *)

\* The text of a message is a string (write_error, ffi.rs:346-357).
LEMMA TextIsString ==
    ASSUME NEW m \in Seq({0, 1})
    PROVE  IsString([bytes |-> Text(m), size |-> Len(Text(m))])
<1> DEFINE kept == {j \in DOMAIN m : m[j] # 0}
           k    == Cardinality(kept)
           ones == [i \in 1..k |-> 1]
<1>1. k \in Nat
    <2>1. DOMAIN m = 1..Len(m) /\ Len(m) \in Nat
        OBVIOUS
    <2>2. IsFiniteSet(1..Len(m)) /\ kept \in SUBSET (1..Len(m))
        BY <2>1, FS_Interval
    <2> QED BY <2>2, FS_Subset, FS_CardinalityType
<1> HIDE DEF kept, k
<1>2. ones \in Seq({0, 1}) /\ Len(ones) = k
    BY <1>1
<1>3. Text(m) = Append(ones, 0)
    BY DEF Text, k, kept
<1> HIDE DEF ones
<1>4. Text(m) \in Seq({0, 1}) /\ Len(Text(m)) = k + 1 /\ Text(m)[k + 1] = 0
    BY <1>1, <1>2, <1>3
<1>5. ASSUME NEW i \in 1..k PROVE Text(m)[i] = 1
    <2>1. Text(m)[i] = ones[i]
        BY <1>1, <1>2, <1>3
    <2> QED BY <2>1 DEF ones
<1> QED BY <1>1, <1>4, <1>5 DEF IsString

\* strlen finds the end of a string (sockd_string_free, ffi.rs:338).
LEMMA StrlenIsSize ==
    ASSUME NEW a, IsString(a)
    PROVE  Strlen(a.bytes) + 1 = a.size
<1> DEFINE Ends0(n) == a.bytes[n + 1] = 0 /\ \A i \in 1..n : a.bytes[i] # 0
<1>1. a.size \in Nat \ {0} /\ Len(a.bytes) = a.size
      /\ \A i \in 1..a.size : a.bytes[i] = 0 <=> i = a.size
    BY DEF IsString
<1>2. a.size - 1 \in 0..Len(a.bytes) /\ Ends0(a.size - 1)
    BY <1>1
<1>3. ASSUME NEW n \in 0..Len(a.bytes), Ends0(n) PROVE n = a.size - 1
    <2>1. ~(n + 1 < a.size)
        BY <1>1, <1>3
    <2>2. ~(a.size <= n)
        BY <1>1, <1>3
    <2> QED BY <1>1, <2>1, <2>2
<1>4. Strlen(a.bytes) = CHOOSE n \in 0..Len(a.bytes) : Ends0(n)
    BY DEF Strlen
<1> HIDE DEF Ends0
<1>5. Strlen(a.bytes) = a.size - 1
    BY <1>2, <1>3, <1>4
<1> QED BY <1>1, <1>5

\* A new allocation holds what was put into it, and the others what they held.
LEMMA WithStores ==
    ASSUME Types, \A c \in Callers : Outputs(c), HeapOwned, Stored,
           NEW c \in Callers, at[c] # "returned",
           NEW bytes \in Seq({0, 1}), NEW size \in Nat \ {0}, heap' = With(bytes, size)
    PROVE  /\ \A a \in DOMAIN heap' : heap'[a] \in [bytes : Seq({0, 1}), size : Nat \ {0}]
           /\ heap'[Fresh] = [bytes |-> bytes, size |-> size]
           /\ \A d \in Strings : heap'[err[d]] = heap[err[d]]
           /\ \A d \in Buffers : heap'[buf[d].ptr] = heap[buf[d].ptr]
<1>1. Fresh \notin DOMAIN heap
    BY FreshIsFree
<1>2. /\ DOMAIN heap' = DOMAIN heap \union {Fresh}
      /\ heap'[Fresh] = [bytes |-> bytes, size |-> size]
      /\ \A a \in DOMAIN heap : heap'[a] = heap[a]
    BY <1>1 DEF With
<1>3. \A d \in Strings : err[d] \in DOMAIN heap
    BY DEF HeapOwned
<1>4. \A d \in Buffers : buf[d].ptr \in DOMAIN heap
    BY DEF HeapOwned
<1> QED BY <1>2, <1>3, <1>4 DEF Stored

\* An error string is stored as a string (write_error, ffi.rs:346-357).
LEMMA StringIsStored ==
    ASSUME Types, \A c \in Callers : Outputs(c), HeapOwned, Stored,
           NEW c \in Callers, at[c] # "returned", NEW m \in Seq({0, 1}),
           heap' = With(Text(m), Len(Text(m))), err' = [err EXCEPT ![c] = Fresh], buf' = buf
    PROVE  Stored'
<1> DEFINE s == [bytes |-> Text(m), size |-> Len(Text(m))]
<1>1. IsString(s) /\ Text(m) \in Seq({0, 1}) /\ Len(Text(m)) \in Nat \ {0}
    BY TextIsString DEF IsString
<1>2. /\ \A a \in DOMAIN heap' : heap'[a] \in [bytes : Seq({0, 1}), size : Nat \ {0}]
      /\ heap'[Fresh] = s
      /\ \A d \in Strings : heap'[err[d]] = heap[err[d]]
      /\ \A d \in Buffers : heap'[buf[d].ptr] = heap[buf[d].ptr]
    BY <1>1, WithStores
<1> HIDE DEF s
<1>3. err'[c] = Fresh /\ \A d \in Callers \ {c} : err'[d] = err[d]
    BY DEF Types
<1>4. Buffers' = Buffers /\ \A d \in Strings' : d = c \/ d \in Strings
    BY <1>3 DEF Strings, Buffers
<1>5. ASSUME NEW d \in Strings' PROVE IsString(heap'[err'[d]])
    <2>1. CASE d = c
        BY <1>1, <1>2, <1>3, <2>1
    <2>2. CASE d # c
        <3>1. d \in Strings /\ err'[d] = err[d]
            BY <1>3, <1>4, <2>2 DEF Strings
        <3> QED BY <1>2, <3>1 DEF Stored
    <2> QED BY <2>1, <2>2
<1> QED BY <1>2, <1>4, <1>5 DEF Stored

\* A response is stored with its own length (sockd_client_request, ffi.rs:191-201).
LEMMA BufferIsStored ==
    ASSUME Types, \A c \in Callers : Outputs(c), HeapOwned, Stored,
           NEW c \in Callers, at[c] # "returned", NEW n \in Nat \ {0},
           heap' = With(<< >>, n), err' = err, buf' = [buf EXCEPT ![c] = [ptr |-> Fresh, len |-> n]]
    PROVE  Stored'
<1>1. << >> \in Seq({0, 1})
    OBVIOUS
<1>2. /\ \A a \in DOMAIN heap' : heap'[a] \in [bytes : Seq({0, 1}), size : Nat \ {0}]
      /\ heap'[Fresh] = [bytes |-> << >>, size |-> n]
      /\ \A d \in Strings : heap'[err[d]] = heap[err[d]]
      /\ \A d \in Buffers : heap'[buf[d].ptr] = heap[buf[d].ptr]
    BY <1>1, WithStores
<1>3. buf'[c] = [ptr |-> Fresh, len |-> n] /\ \A d \in Callers \ {c} : buf'[d] = buf[d]
    BY DEF Types
<1>4. Strings' = Strings /\ \A d \in Buffers' : d = c \/ d \in Buffers
    BY <1>3 DEF Strings, Buffers
<1>5. ASSUME NEW d \in Buffers' PROVE heap'[buf'[d].ptr].size = buf'[d].len
    <2>1. CASE d = c
        BY <1>2, <1>3, <2>1
    <2>2. CASE d # c
        <3>1. d \in Buffers /\ buf'[d] = buf[d]
            BY <1>3, <1>4, <2>2 DEF Buffers
        <3> QED BY <1>2, <3>1 DEF Stored
    <2> QED BY <2>1, <2>2
<1> QED BY <1>2, <1>4, <1>5 DEF Stored

\* A step that touches neither the heap nor an output.
LEMMA SameIsStored == ASSUME Stored, heap' = heap, err' = err, buf' = buf PROVE Stored'
BY DEF Stored, Strings, Buffers, IsString

\* What the others hold stays when c gives back what it held.
LEMMA ReleaseKeepsStored ==
    ASSUME Types, \A c \in Callers : Outputs(c), HeapOwned, Stored, NEW c \in Callers, Release(c)
    PROVE  Stored'
<1>1. /\ DOMAIN heap' = DOMAIN heap \ {err[c], buf[c].ptr}
      /\ \A a \in DOMAIN heap' : heap'[a] = heap[a]
    BY DEF Release, Without
<1>2. /\ err'[c] = Null /\ buf'[c].len = 0
      /\ \A d \in Callers \ {c} : err'[d] = err[d] /\ buf'[d] = buf[d]
    BY DEF Release, Types, NoBuffer
<1>3. HeapOwned'
    BY ReleaseKeepsOwned
<1>4. ASSUME NEW d \in Strings' PROVE IsString(heap'[err'[d]])
    <2>1. d \in Strings /\ err'[d] = err[d]
        BY <1>2 DEF Strings
    <2>2. err'[d] \in DOMAIN heap'
        BY <1>3 DEF HeapOwned
    <2> QED BY <1>1, <2>1, <2>2 DEF Stored
<1>5. ASSUME NEW d \in Buffers' PROVE heap'[buf'[d].ptr].size = buf'[d].len
    <2>1. d \in Buffers /\ buf'[d] = buf[d]
        BY <1>2 DEF Buffers
    <2>2. buf'[d].ptr \in DOMAIN heap'
        BY <1>3 DEF HeapOwned
    <2> QED BY <1>1, <2>1, <2>2 DEF Stored
<1> QED BY <1>1, <1>4, <1>5 DEF Stored

-----------------------------------------------------------------------------
(* The ways a call ends. *)

\* A step of c leaves alone what the other callers have.
OthersSame(c) == \A d \in Callers \ {c} :
    at'[d] = at[d] /\ client'[d] = client[d] /\ ret'[d] = ret[d] /\ err'[d] = err[d] /\ buf'[d] = buf[d]

\* A step that touches no call.
LEMMA SameCalls ==
    ASSUME CallsOK, UNCHANGED <<heap, at, client, ret, err, buf>>
    PROVE  CallsOK'
<1>1. Stored'
    BY SameIsStored DEF CallsOK
<1>2. Types' /\ HeapOwned'
    BY DEF CallsOK, Types, HeapOwned, Strings, Buffers
<1>3. \A c \in Callers : Outputs(c)'
    BY DEF CallsOK, Outputs
<1> QED BY <1>1, <1>2, <1>3 DEF CallsOK

\* A call that fails leaves a string if its caller asked for one.
LEMMA FailKeepsCalls ==
    ASSUME CallsOK, NEW c \in Callers, at[c] # "returned",
           NEW call \in Calls, NEW eo \in BOOLEAN, NEW m \in Seq({0, 1}), NEW code \in Codes \ {"OK"},
           Fail(c, call, eo, m, code)
    PROVE  CallsOK' /\ OthersSame(c) /\ ret'[c].code # "OK" /\ client'[c] = Null
<1>1. /\ at' = [at EXCEPT ![c] = "returned"] /\ client' = [client EXCEPT ![c] = Null]
      /\ ret' = [ret EXCEPT ![c] = [call |-> call, code |-> code, wantsError |-> eo]]
      /\ buf' = buf
    BY DEF Fail, Returned
<1>2. err[c] = Null /\ buf[c] = NoBuffer
    BY DEF CallsOK, Types, Outputs
<1>3. Fresh \in Addresses /\ Fresh # Null
    BY FreshIsFree, FfiConstantsOK DEF CallsOK, FfiConstantsOK
<1>4. err' = IF eo THEN [err EXCEPT ![c] = Fresh] ELSE err
    BY DEF Fail
<1>5. HeapOwned'
    <2>1. CASE eo
        <3>1. \E bytes, size : heap' = With(bytes, size)
            BY <2>1 DEF Fail
        <3> QED BY <1>1, <1>4, <2>1, <3>1, StringKeepsOwned DEF CallsOK
    <2>2. CASE ~eo
        BY <1>1, <1>4, <2>2 DEF Fail, CallsOK, HeapOwned, Strings, Buffers
    <2> QED BY <2>1, <2>2
<1>6. OthersSame(c)
    BY <1>1, <1>4 DEF CallsOK, Types, OthersSame
<1>7. \A d \in Callers \ {c} : Outputs(d)'
    BY <1>6 DEF OthersSame, CallsOK, Types, Outputs, NoBuffer
<1>8. Outputs(c)'
    BY <1>1, <1>2, <1>3, <1>4 DEF CallsOK, Types, Outputs, NoBuffer
<1>9. ASSUME NEW d \in Callers
      PROVE  IF at'[d] \in Operations THEN client'[d] \in Config ELSE client'[d] = Null
    BY <1>1 DEF CallsOK, Types, Operations
<1>10. Stored'
    <2>1. CASE eo
        <3>1. heap' = With(Text(m), Len(Text(m)))
            BY <2>1 DEF Fail
        <3> QED BY <1>1, <1>4, <2>1, <3>1, StringIsStored DEF CallsOK
    <2>2. CASE ~eo
        BY <1>1, <1>4, <2>2, SameIsStored DEF Fail, CallsOK
    <2> QED BY <2>1, <2>2
<1> QED BY <1>1, <1>3, <1>4, <1>5, <1>6, <1>7, <1>8, <1>9, <1>10 DEF CallsOK, Types

\* A call that succeeds, and is no request, leaves nothing.
LEMMA SucceedKeepsCalls ==
    ASSUME CallsOK, NEW c \in Callers, at[c] # "returned",
           NEW call \in Calls \ {"request"}, NEW eo \in BOOLEAN, Succeed(c, call, eo)
    PROVE  CallsOK' /\ OthersSame(c) /\ ret'[c].code = "OK" /\ client'[c] = Null
<1>1. /\ at' = [at EXCEPT ![c] = "returned"] /\ client' = [client EXCEPT ![c] = Null]
      /\ ret' = [ret EXCEPT ![c] = [call |-> call, code |-> "OK", wantsError |-> eo]]
      /\ buf' = buf /\ err' = err /\ heap' = heap
    BY DEF Succeed, Returned
<1>2. err[c] = Null /\ buf[c] = NoBuffer
    BY DEF CallsOK, Types, Outputs
<1>3. HeapOwned'
    BY <1>1 DEF CallsOK, HeapOwned, Strings, Buffers
<1>4. OthersSame(c)
    BY <1>1 DEF CallsOK, Types, OthersSame
<1>5. \A d \in Callers \ {c} : Outputs(d)'
    BY <1>4 DEF OthersSame, CallsOK, Types, Outputs, NoBuffer
<1>6. Outputs(c)'
    BY <1>1, <1>2 DEF CallsOK, Types, Outputs, NoBuffer
<1>9. ASSUME NEW d \in Callers
      PROVE  IF at'[d] \in Operations THEN client'[d] \in Config ELSE client'[d] = Null
    BY <1>1 DEF CallsOK, Types, Operations
<1>10. Stored'
    BY <1>1, SameIsStored DEF CallsOK
<1> QED BY <1>1, <1>3, <1>4, <1>5, <1>6, <1>9, <1>10 DEF CallsOK, Types, Codes

\* A request that succeeds leaves its response.
LEMMA RequestKeepsCalls ==
    ASSUME CallsOK, NEW c \in Callers, RequestSucceeds(c)
    PROVE  CallsOK' /\ OthersSame(c) /\ ret'[c].code = "OK" /\ client'[c] = Null
<1>1. PICK n \in Nat :
          /\ heap' = IF n = 0 THEN heap ELSE With(<< >>, n)
          /\ buf' = [buf EXCEPT ![c] = [ptr |-> IF n = 0 THEN Dangling ELSE Fresh, len |-> n]]
    BY FfiConstantsOK DEF FfiConstantsOK, RequestSucceeds
<1>2. /\ at[c] = "request" /\ at' = [at EXCEPT ![c] = "returned"] /\ client' = [client EXCEPT ![c] = Null]
      /\ \E eo \in BOOLEAN :
            ret' = [ret EXCEPT ![c] = [call |-> "request", code |-> "OK", wantsError |-> eo]]
      /\ err' = err
    BY DEF RequestSucceeds, Returned, CallsOK, Types
<1>3. err[c] = Null /\ buf[c] = NoBuffer
    BY <1>2 DEF CallsOK, Types, Outputs
<1>4. Fresh \in Addresses /\ Fresh # Null /\ Dangling # Null
    BY <1>2, FreshIsFree, FfiConstantsOK DEF CallsOK, FfiConstantsOK
<1>5. HeapOwned'
    <2>1. CASE n # 0
        <3>1. heap' = With(<< >>, n) /\ buf' = [buf EXCEPT ![c] = [ptr |-> Fresh, len |-> n]]
            BY <1>1, <2>1
        <3>2. n \in Nat \ {0} /\ at[c] # "returned"
            BY <1>2, <2>1
        <3> QED BY <1>2, <3>1, <3>2, BufferKeepsOwned DEF CallsOK
    <2>2. CASE n = 0
        <3>1. /\ heap' = heap /\ buf'[c].len = 0 /\ buf'[c].ptr = Dangling
              /\ \A d \in Callers \ {c} : buf'[d] = buf[d]
            BY <1>1, <2>2 DEF CallsOK, Types
        <3>2. Strings' = Strings /\ Buffers' = Buffers
            BY <1>2, <1>3, <3>1 DEF Strings, Buffers, NoBuffer
        <3>3. DOMAIN heap' = {err'[d] : d \in Strings'} \union {buf'[d].ptr : d \in Buffers'}
            <4>1. c \notin Buffers
                BY <1>3 DEF Buffers, NoBuffer
            <4>2. \A d \in Buffers : buf'[d].ptr = buf[d].ptr
                BY <3>1, <4>1 DEF Buffers
            <4> QED BY <1>2, <3>1, <3>2, <4>2 DEF CallsOK, HeapOwned
        <3>4. ASSUME NEW d \in Callers PROVE err[d] # Dangling \/ err[d] = Null
            BY FfiConstantsOK DEF FfiConstantsOK, CallsOK, Types
        <3>5. ASSUME NEW d \in Callers PROVE buf[d].ptr = Dangling => buf[d].len = 0
            BY FfiConstantsOK DEF FfiConstantsOK, CallsOK, Types, Outputs
        <3>6. ASSUME NEW d \in Callers, NEW e \in Callers, d # e
              PROVE  /\ err'[d] = err'[e] => err'[d] = Null
                     /\ err'[d] # buf'[e].ptr \/ err'[d] = Null
                     /\ buf'[d].ptr = buf'[e].ptr => buf'[d].len = 0
            BY <1>2, <1>3, <3>1, <3>4, <3>5, <3>6 DEF CallsOK, HeapOwned
        <3> QED BY <3>3, <3>6 DEF HeapOwned
    <2> QED BY <2>1, <2>2
<1>6. OthersSame(c)
    BY <1>1, <1>2 DEF CallsOK, Types, OthersSame
<1>7. \A d \in Callers \ {c} : Outputs(d)'
    BY <1>6 DEF OthersSame, CallsOK, Types, Outputs, NoBuffer
<1>8. Outputs(c)'
    BY <1>1, <1>2, <1>3, <1>4 DEF CallsOK, Types, Outputs, NoBuffer
<1>9. Stored'
    <2>1. CASE n # 0
        BY <1>1, <1>2, <2>1, BufferIsStored DEF CallsOK
    <2>2. CASE n = 0
        <3>1. heap' = heap /\ \A d \in Callers : buf'[d] # buf[d] => buf'[d].len = 0
            BY <1>1, <2>2 DEF CallsOK, Types
        <3>2. Strings' = Strings /\ \A d \in Buffers' : d \in Buffers /\ buf'[d] = buf[d]
            BY <1>2, <3>1 DEF Strings, Buffers
        <3> QED BY <1>2, <3>1, <3>2 DEF CallsOK, Stored, IsString
    <2> QED BY <2>1, <2>2
<1>10. Types'
    BY <1>1, <1>2, <1>4 DEF CallsOK, Types, Calls, Operations, Codes
<1> QED BY <1>2, <1>5, <1>6, <1>7, <1>8, <1>9, <1>10 DEF CallsOK, Types

-----------------------------------------------------------------------------
(* The functions. *)

\* What is claimed of a step of c.
Kept(c) ==
    /\ CallsOK' /\ OthersSame(c)
    /\ config' \in Config \union {Null} /\ Paired(config')
    /\ Paired(client'[c])
    /\ ret'[c] # ret[c] /\ ret'[c].code # "OK" => config' = config

LEMMA FixedIsBytes == Fixed \in Seq({0, 1})
BY DEF Fixed

\* Every function that fails leaves the configuration as it was.
LEMMA FailIsKept ==
    ASSUME IInv, NEW c \in Callers, at[c] # "returned",
           NEW call \in Calls, NEW eo \in BOOLEAN, NEW m \in Seq({0, 1}), NEW code \in Codes \ {"OK"},
           Fail(c, call, eo, m, code), config' = config
    PROVE  Kept(c)
<1>1. CallsOK' /\ OthersSame(c) /\ client'[c] = Null
    BY FailKeepsCalls DEF IInv
<1> QED BY <1>1 DEF Kept, IInv, Pairs, Paired

\* A function that succeeds may change it, to one that is as good.
LEMMA SuccessIsKept ==
    ASSUME IInv, NEW c \in Callers, at[c] # "returned",
           NEW call \in Calls \ {"request"}, NEW eo \in BOOLEAN, Succeed(c, call, eo),
           config' \in Config \union {Null}, Paired(config')
    PROVE  Kept(c)
<1>1. CallsOK' /\ OthersSame(c) /\ client'[c] = Null /\ ret'[c].code = "OK"
    BY SucceedKeepsCalls DEF IInv
<1> QED BY <1>1 DEF Kept, Paired

\* sockd_client_config_new and the setters of one value (ffi.rs:39-95, 111-143).
LEMMA SettersAreKept ==
    ASSUME IInv, NEW c \in Callers, NEW eo \in BOOLEAN,
           \/ \E path \in Texts \union {Null, BadUtf8} : ConfigNew(c, path) \/ SetPidFile(c, eo, path)
           \/ \E n \in Numbers : SetMaxPayloadLen(c, eo, n)
           \/ \E t \in Millis : SetShutdownTimeout(c, eo, t)
    PROVE  Kept(c)
<1> USE FfiConstantsOK DEF FfiConstantsOK
<1>0. {"new", "set"} \subseteq Calls \ {"request"} /\ "UTF8" \in Codes \ {"OK"} /\ FALSE \in BOOLEAN
    BY DEF Calls, Codes, Operations
<1>1. ASSUME NEW path, ConfigNew(c, path) PROVE Kept(c)
    <2>1. PICK n \in Nat, t \in Nat :
              config' = [pidFile |-> Null, program |-> Null, args |-> << >>, maxLen |-> n, timeout |-> t]
        BY <1>1 DEF ConfigNew
    <2>2. << >> \in Seq(Texts)
        OBVIOUS
    <2>3. config' \in Config /\ config'.program = Null
        BY <2>1, <2>2 DEF Config
    <2> QED BY <1>0, <1>1, <2>3, SuccessIsKept DEF ConfigNew, Paired
<1>2. ASSUME NEW path, SetPidFile(c, eo, path) PROVE Kept(c)
    <2>1. config \in Config /\ at[c] # "returned"
        BY <1>2 DEF SetPidFile, IInv
    <2>2. CASE CString(path)
        <3>1. config' \in Config /\ config'.program = config.program /\ config'.args = config.args
            BY <1>2, <2>1, <2>2 DEF SetPidFile, Config, CString
        <3>2. Paired(config')
            BY <1>2, <3>1 DEF SetPidFile, IInv, Pairs, Paired
        <3> QED BY <1>0, <1>2, <2>1, <2>2, <3>1, <3>2, SuccessIsKept DEF SetPidFile
    <2>3. CASE ~CString(path)
        BY <1>0, <1>2, <2>1, <2>3, FixedIsBytes, FailIsKept DEF SetPidFile
    <2> QED BY <2>2, <2>3
<1>3. ASSUME NEW n \in Numbers, SetMaxPayloadLen(c, eo, n) PROVE Kept(c)
    <2>1. config \in Config /\ at[c] # "returned"
        BY <1>3 DEF SetMaxPayloadLen, IInv
    <2>2. config' \in Config /\ config'.program = config.program /\ config'.args = config.args
        BY <1>3, <2>1 DEF SetMaxPayloadLen, Config
    <2>3. Paired(config')
        BY <1>3, <2>2 DEF SetMaxPayloadLen, IInv, Pairs, Paired
    <2> QED BY <1>0, <1>3, <2>1, <2>2, <2>3, SuccessIsKept DEF SetMaxPayloadLen
<1>4. ASSUME NEW t \in Millis, SetShutdownTimeout(c, eo, t) PROVE Kept(c)
    <2>1. config \in Config /\ at[c] # "returned"
        BY <1>4 DEF SetShutdownTimeout, IInv
    <2>2. config' \in Config /\ config'.program = config.program /\ config'.args = config.args
        BY <1>4, <2>1 DEF SetShutdownTimeout, Config
    <2>3. Paired(config')
        BY <1>4, <2>2 DEF SetShutdownTimeout, IInv, Pairs, Paired
    <2> QED BY <1>0, <1>4, <2>1, <2>2, <2>3, SuccessIsKept DEF SetShutdownTimeout
<1> QED BY <1>1, <1>2, <1>3, <1>4

\* sockd_client_config_set_auto_start: the program changes with its arguments, or
\* neither does (ffi.rs:85-109).
LEMMA AutoStartIsKept ==
    ASSUME IInv, NEW c \in Callers, NEW eo \in BOOLEAN, NEW p \in Texts, NEW bad \in {Null, BadUtf8},
           \/ SetAutoStart(c, eo, p, ArgsOf[p]) \/ SetAutoStart(c, eo, bad, ArgsOf[p])
           \/ SetAutoStart(c, eo, p, Append(ArgsOf[p], bad)) \/ SetAutoStart(c, eo, p, Null)
    PROVE  Kept(c)
<1>0. "set" \in Calls \ {"request"} /\ "UTF8" \in Codes \ {"OK"}
    BY DEF Calls, Codes, Operations
<1>1. at[c] # "returned" /\ config \in Config /\ config # Null
    BY DEF SetAutoStart, IInv
<1>2. ArgsOf[p] \in Seq(Texts) /\ ~CString(bad)
    BY FfiConstantsOK DEF FfiConstantsOK, CString
<1>3. ASSUME NEW program, NEW argv, SetAutoStart(c, eo, program, argv),
             ~CString(program) \/ argv = Null \/ \E i \in DOMAIN argv : ~CString(argv[i])
      PROVE  Kept(c)
    BY <1>0, <1>1, <1>3, FixedIsBytes, FailIsKept DEF SetAutoStart
<1>4. CASE SetAutoStart(c, eo, p, Append(ArgsOf[p], bad))
    <2>1. /\ Len(ArgsOf[p]) + 1 \in DOMAIN Append(ArgsOf[p], bad)
          /\ Append(ArgsOf[p], bad)[Len(ArgsOf[p]) + 1] = bad
        BY <1>2
    <2> QED BY <1>2, <1>3, <1>4, <2>1
<1>5. CASE SetAutoStart(c, eo, p, ArgsOf[p])
    <2> DEFINE wrong == ~CString(p) \/ ArgsOf[p] = Null \/ \E i \in DOMAIN ArgsOf[p] : ~CString(ArgsOf[p][i])
    <2>1. CASE wrong
        BY <1>3, <1>5, <2>1
    <2>2. CASE ~wrong
        <3>1. config' = [config EXCEPT !.program = p, !.args = ArgsOf[p]] /\ Succeed(c, "set", eo)
            BY <1>5, <2>2 DEF SetAutoStart
        <3>2. config' \in Config /\ Paired(config')
            BY <1>1, <1>2, <3>1 DEF Config, Paired
        <3> QED BY <1>0, <1>1, <3>1, <3>2, SuccessIsKept
    <2> QED BY <2>1, <2>2
<1> QED BY <1>2, <1>3, <1>4, <1>5

\* sockd_client_config_free, and the begin of a call: no output changes hands
\* (ffi.rs:55-63, 145-230, 300-316).
LEMMA BeginIsKept ==
    ASSUME IInv, NEW c \in Callers,
           ConfigFree(c) \/ \E call \in Operations, eo \in BOOLEAN : BeginCall(c, call, eo)
    PROVE  Kept(c)
<1>1. CASE ConfigFree(c)
    <2>1. config' = Null /\ UNCHANGED <<heap, at, client, ret, err, buf>>
        BY <1>1 DEF ConfigFree
    <2>2. CallsOK'
        BY <2>1, SameCalls DEF IInv
    <2> QED BY <2>1, <2>2 DEF Kept, IInv, Pairs, Paired, OthersSame
<1>2. ASSUME NEW call \in Operations, NEW eo \in BOOLEAN, BeginCall(c, call, eo) PROVE Kept(c)
    <2>1. config \in Config /\ BuildClient(config) \in Config /\ Paired(BuildClient(config))
        <3>1. config \in Config /\ Paired(config) /\ << >> \in Seq(Texts)
            BY <1>2 DEF BeginCall, IInv, Pairs
        <3>2. CASE config.program = Null
            <4>1. BuildClient(config).program = Null
                BY <3>1, <3>2 DEF BuildClient, Config
            <4> QED BY <3>1, <3>2, <4>1 DEF BuildClient, Config, Paired
        <3>3. CASE config.program # Null
            BY <3>1, <3>3 DEF BuildClient
        <3> QED BY <3>1, <3>2, <3>3
    <2>2. /\ at[c] = "idle" /\ at' = [at EXCEPT ![c] = call]
          /\ client' = [client EXCEPT ![c] = BuildClient(config)]
          /\ ret' = [ret EXCEPT ![c] = [call |-> call, code |-> "OK", wantsError |-> eo]]
          /\ UNCHANGED <<config, heap, err, buf>>
        BY <1>2 DEF BeginCall
    <2>3. Types' /\ OthersSame(c) /\ client'[c] = BuildClient(config) /\ ret'[c].code = "OK"
        BY <2>1, <2>2 DEF IInv, CallsOK, Types, OthersSame, Calls, Codes
    <2>4. HeapOwned'
        BY <2>2 DEF IInv, CallsOK, HeapOwned, Strings, Buffers
    <2>5. ASSUME NEW d \in Callers PROVE Outputs(d)'
        BY <2>2 DEF IInv, CallsOK, Types, Outputs, NoBuffer, Operations
    <2>6. Stored'
        BY <2>2, SameIsStored DEF IInv, CallsOK
    <2> QED BY <2>1, <2>2, <2>3, <2>4, <2>5, <2>6 DEF Kept, CallsOK, IInv, Pairs
<1> QED BY <1>1, <1>2

\* The ends of a call, and the release of what it returned.
LEMMA EndIsKept ==
    ASSUME IInv, NEW c \in Callers,
           CallFails(c) \/ CallSucceeds(c) \/ RequestSucceeds(c) \/ Release(c)
    PROVE  Kept(c)
<1>0. ret[c].wantsError \in BOOLEAN /\ Operations \subseteq Calls /\ "OPERATION" \in Codes \ {"OK"}
    BY DEF IInv, CallsOK, Types, Calls, Codes
<1>1. CASE CallFails(c)
    <2>1. PICK m \in Messages : Fail(c, at[c], ret[c].wantsError, m, "OPERATION") /\ config' = config
        BY <1>1 DEF CallFails
    <2>2. m \in Seq({0, 1}) /\ at[c] \in Calls /\ at[c] # "returned"
        BY <1>0, <1>1, FfiConstantsOK DEF FfiConstantsOK, CallFails, Operations
    <2> QED BY <1>0, <2>1, <2>2, FailIsKept
<1>2. CASE CallSucceeds(c)
    <2>1. at[c] \in Calls \ {"request"} /\ at[c] # "returned"
        BY <1>2 DEF CallSucceeds, Calls, Operations
    <2>2. Succeed(c, at[c], ret[c].wantsError) /\ config' = config
        BY <1>2 DEF CallSucceeds
    <2> QED BY <1>0, <2>1, <2>2, SuccessIsKept DEF IInv, Pairs
<1>3. CASE RequestSucceeds(c)
    <2>1. CallsOK' /\ OthersSame(c) /\ ret'[c].code = "OK" /\ client'[c] = Null
        BY <1>3, RequestKeepsCalls DEF IInv
    <2>2. config' = config
        BY <1>3 DEF RequestSucceeds
    <2> QED BY <2>1, <2>2 DEF Kept, IInv, Pairs, Paired
<1>4. CASE Release(c)
    <2>1. HeapOwned'
        BY <1>4, ReleaseKeepsOwned DEF IInv, CallsOK
    <2>2. /\ at' = [at EXCEPT ![c] = "idle"] /\ err' = [err EXCEPT ![c] = Null]
          /\ buf' = [buf EXCEPT ![c] = NoBuffer] /\ ret' = [ret EXCEPT ![c] = NoReturn]
          /\ UNCHANGED <<config, client>>
        BY <1>4 DEF Release
    <2>3. ASSUME NEW d \in Callers
          PROVE  IF at'[d] \in Operations THEN client'[d] \in Config ELSE client'[d] = Null
        BY <1>4, <2>2 DEF IInv, CallsOK, Types, Operations, Release
    <2>4. Types' /\ OthersSame(c) /\ ret'[c].code = "OK"
        BY <2>2, <2>3 DEF IInv, CallsOK, Types, OthersSame, NoBuffer, NoReturn, Calls, Codes
    <2>5. ASSUME NEW d \in Callers PROVE Outputs(d)'
        BY <2>2 DEF IInv, CallsOK, Types, Outputs, NoBuffer
    <2>6. Stored'
        BY <1>4, ReleaseKeepsStored DEF IInv, CallsOK
    <2>7. Paired(client'[c])
        BY <2>2 DEF IInv, Pairs
    <2> QED BY <2>1, <2>2, <2>4, <2>5, <2>6, <2>7 DEF Kept, CallsOK, IInv, Pairs
<1> QED BY <1>1, <1>2, <1>3, <1>4

\* Every step of a caller.
LEMMA NextIsKept == ASSUME IInv, Next PROVE \E c \in Callers : Kept(c)
<1>1. PICK c \in Callers :
    \/ ConfigFree(c) \/ CallFails(c) \/ CallSucceeds(c) \/ RequestSucceeds(c) \/ Release(c)
    \/ \E path \in Texts \union {Null, BadUtf8} : ConfigNew(c, path)
    \/ \E eo \in BOOLEAN :
          \/ \E call \in Operations \union {"set"} : NullConfig(c, call, eo)
          \/ \E call \in Operations : BeginCall(c, call, eo) \/ NullArgument(c, call, eo)
          \/ \E path \in Texts \union {Null, BadUtf8} : SetPidFile(c, eo, path)
          \/ \E p \in Texts, bad \in {Null, BadUtf8} :
                \/ SetAutoStart(c, eo, p, ArgsOf[p])
                \/ SetAutoStart(c, eo, bad, ArgsOf[p])
                \/ SetAutoStart(c, eo, p, Append(ArgsOf[p], bad))
                \/ SetAutoStart(c, eo, p, Null)
          \/ \E n \in Numbers : SetMaxPayloadLen(c, eo, n)
          \/ \E t \in Millis : SetShutdownTimeout(c, eo, t)
    BY DEF Next
<1>2. ASSUME NEW call \in Operations \union {"set"}, NEW eo \in BOOLEAN,
             NullConfig(c, call, eo) \/ NullArgument(c, call, eo)
      PROVE  Kept(c)
    <2>1. call \in Calls /\ "NULL" \in Codes \ {"OK"} /\ at[c] # "returned"
        BY <1>2 DEF Calls, Codes, NullConfig, NullArgument
    <2> QED BY <1>2, <2>1, FixedIsBytes, FailIsKept DEF NullConfig, NullArgument
<1> QED BY <1>1, <1>2, BeginIsKept, EndIsKept, SettersAreKept, AutoStartIsKept

\* The invariant is inductive.
LEMMA NextKeepsIInv == IInv /\ [Next]_vars => IInv'
<1> SUFFICES ASSUME IInv, [Next]_vars PROVE IInv'
    OBVIOUS
<1>1. CASE UNCHANGED vars
    BY <1>1, SameCalls DEF vars, IInv, Pairs, Paired
<1>2. CASE Next
    <2>1. PICK c \in Callers : Kept(c)
        BY <1>2, NextIsKept
    <2>2. ASSUME NEW d \in Callers PROVE Paired(client'[d])
        BY <2>1 DEF Kept, OthersSame, IInv, Pairs
    <2> QED BY <2>1, <2>2 DEF Kept, IInv, Pairs, Paired
<1> QED BY <1>1, <1>2

\* Before the first call nothing is on the heap.
LEMMA InitIInv == Init => IInv
BY FfiConstantsOK
DEF FfiConstantsOK, Init, IInv, CallsOK, Types, Outputs, HeapOwned, Strings, Buffers, Pairs, Paired,
    NoBuffer, NoReturn, Calls, Codes, Operations, Stored

\* The invariant holds throughout.
LEMMA Invariance == Spec => []IInv
BY InitIInv, NextKeepsIInv, PTL DEF Spec

-----------------------------------------------------------------------------
(* What follows. *)

\* Every variable of every caller has its type (ffi.rs:13-31, 145-203).
THEOREM TypeCorrect == Spec => []TypeOK
<1>1. IInv => TypeOK
    <2> SUFFICES ASSUME IInv PROVE TypeOK
        OBVIOUS
    <2>1. DOMAIN heap \subseteq Addresses
        <3>1. \A c \in Strings : err[c] \in Addresses
            BY DEF IInv, CallsOK, Types, Strings
        <3>2. \A c \in Buffers : buf[c].ptr \in Addresses
            BY DEF IInv, CallsOK, Outputs, Buffers
        <3> QED BY <3>1, <3>2 DEF IInv, CallsOK, HeapOwned
    <2> QED BY <2>1 DEF TypeOK, IInv, CallsOK, Types, Stored, Calls
<1> QED BY <1>1, Invariance, PTL

\* Nothing is lost on the heap and nothing has two owners, however the calls of
\* the threads fall; and what the free functions compute, strlen + 1 and the length
\* of the response, is the size of what they free, whatever bytes a daemon put into
\* its error texts (ffi.rs:187-203, 326-357).
THEOREM HeapIsOwned == Spec => []OwnedOnce
<1>1. IInv => OwnedOnce
    <2>1. ASSUME IInv, NEW c \in Strings PROVE Strlen(heap[err[c]].bytes) + 1 = heap[err[c]].size
        BY <2>1, StrlenIsSize DEF IInv, CallsOK, Stored
    <2> QED BY <2>1 DEF OwnedOnce, IInv, CallsOK, Stored
<1> QED BY <1>1, Invariance, PTL

\* The code of a call tells what its caller must give back (ffi.rs:145-230).
THEOREM CodesAreTrue == Spec => []CodeTellsOutputs
<1>1. IInv => CodeTellsOutputs
    BY DEF IInv, CallsOK, Outputs, CodeTellsOutputs
<1> QED BY <1>1, Invariance, PTL

\* A client starts each program with its own arguments (ffi.rs:85-109, 304-310).
THEOREM ArgumentsArePaired == Spec => []AutoStartPaired
<1>1. IInv => AutoStartPaired
    <2> SUFFICES ASSUME IInv, NEW c \in Callers, at[c] \in Operations, client[c].program # Null
                 PROVE  client[c].args = ArgsOf[client[c].program]
        BY DEF AutoStartPaired
    <2>1. Paired(client[c]) /\ client[c] # Null
        BY FfiConstantsOK DEF FfiConstantsOK, IInv, CallsOK, Types, Pairs
    <2> QED BY <2>1 DEF Paired
<1> QED BY <1>1, Invariance, PTL

\* A call that fails changes no configuration (ffi.rs:65-143).
THEOREM FailuresChangeNothing == Spec => FailedCallKeepsConfig
<1>1. IInv /\ [Next]_vars =>
          [\A c \in Callers : ret'[c] # ret[c] /\ ret'[c].code # "OK" => config' = config]_vars
    <2> SUFFICES ASSUME IInv, Next, NEW d \in Callers, ret'[d] # ret[d], ret'[d].code # "OK"
                 PROVE  config' = config
        OBVIOUS
    <2>1. PICK c \in Callers : Kept(c)
        BY NextIsKept
    <2> QED BY <2>1 DEF Kept, OthersSame
<1> QED BY <1>1, Invariance, PTL DEF Spec, FailedCallKeepsConfig
=============================================================================
