-------------------------------- MODULE Ffi --------------------------------
(***************************************************************************)
(* src/ffi.rs: the C interface.  Threads of a C program share one client   *)
(* configuration; what the calls hand out, error strings and response      *)
(* buffers, is on the heap until the caller gives it back.  A call of the  *)
(* client is two steps, and between them other threads may change or free  *)
(* the configuration.  (Two threads inside the setters at once would be a  *)
(* data race of the C program: setters and build_client are one step.)     *)
(*                                                                         *)
(* The callers keep to the ownership rules of include/sockd.h: each looks  *)
(* at what a call returned, gives it back, and only then calls again.      *)
(***************************************************************************)
EXTENDS Naturals, Sequences, FiniteSets

CONSTANTS
    Callers,        \* threads of the C program
    Texts,          \* strings in UTF-8
    ArgsOf,         \* the arguments with which the C program starts a program
    Numbers,        \* values for max_payload_len and the lengths of buffers
    Millis,         \* values for shutdown_timeout_ms
    Messages,       \* texts of errors, each a sequence of bytes: 0 or another
    Addresses,      \* where the allocator puts things
    Null, BadUtf8   \* what a char pointer may be instead of a text

Dangling == "dangling"      \* the pointer of a Vec without capacity

\* SockdClientConfig, without the path of the socket
Config == [pidFile : Texts \union {Null}, program : Texts \union {Null},
           args : Seq(Texts), maxLen : Nat, timeout : Nat]

ASSUME FfiConstantsOK ==
    /\ ArgsOf \in [Texts -> Seq(Texts)]
    /\ Numbers \subseteq Nat /\ Millis \subseteq Nat
    /\ Messages \subseteq Seq({0, 1})
    /\ Null \notin Texts \union Addresses \union Config /\ BadUtf8 \notin Texts
    \* no allocation is at the address of a Vec without one
    /\ Dangling \notin Addresses \union {Null}
    \* an allocation succeeds (or the process ends): there is an address left for
    \* a caller that holds nothing, whatever the others hold
    /\ \A held \in [Callers -> Addresses \union {Null}] :
          (\E c \in Callers : held[c] = Null) =>
              \E a \in Addresses : \A c \in Callers : held[c] # a

VARIABLES
    config,     \* the shared configuration, or Null
    heap,       \* live allocations: address -> [bytes, size]
    at,         \* at[c]: the function that c is in, "idle" or "returned"
    client,     \* client[c]: the settings of the client that the call has built
    ret,        \* ret[c]: the call that c is in or looks at, and its code
    err,        \* err[c]: the string in c's error variable
    buf         \* buf[c]: response pointer and length of c

vars == <<config, heap, at, client, ret, err, buf>>

Operations == {"ping", "request", "shutdown"}
Codes == {"OK", "NULL", "UTF8", "OPERATION"}

TypeOK ==
    /\ config = Null \/ config \in Config
    /\ DOMAIN heap \subseteq Addresses
    /\ \A a \in DOMAIN heap : heap[a] \in [bytes : Seq({0, 1}), size : Nat \ {0}]
    /\ at \in [Callers -> Operations \union {"idle", "returned"}]
    /\ \A c \in Callers : IF at[c] \in Operations THEN client[c] \in Config ELSE client[c] = Null
    /\ ret \in [Callers -> [call : Operations \union {"none", "new", "set"},
                            code : Codes, wantsError : BOOLEAN]]
    /\ err \in [Callers -> Addresses \union {Null}]
    /\ buf \in [Callers -> [ptr : Addresses \union {Null, Dangling}, len : Nat]]

NoBuffer == [ptr |-> Null, len |-> 0]
NoReturn == [call |-> "none", code |-> "OK", wantsError |-> FALSE]

Init ==
    /\ config = Null
    /\ heap = << >>
    /\ at = [c \in Callers |-> "idle"]
    /\ client = [c \in Callers |-> Null]
    /\ ret = [c \in Callers |-> NoReturn]
    /\ err = [c \in Callers |-> Null]
    /\ buf = [c \in Callers |-> NoBuffer]

-----------------------------------------------------------------------------
(* Strings, buffers and the ways a call ends. *)

Fresh == CHOOSE a \in Addresses : a \notin DOMAIN heap

\* The heap with bytes in a new allocation of the given size, and without some.
With(bytes, size) ==
    [a \in DOMAIN heap \union {Fresh} |->
        IF a = Fresh THEN [bytes |-> bytes, size |-> size] ELSE heap[a]]
Without(as) == [a \in DOMAIN heap \ as |-> heap[a]]

\* Mutant: every pointer that is not null is taken for a text.
CStringUnchecked(input) == input # Null

\* c_string: the input can be had as a String
CString(input) == input \in Texts

\* The call ends; the client that it had built is dropped.
Returned(c, call, code, eo) ==
    /\ at' = [at EXCEPT ![c] = "returned"]
    /\ client' = [client EXCEPT ![c] = Null]
    /\ ret' = [ret EXCEPT ![c] = [call |-> call, code |-> code, wantsError |-> eo]]

\* write_error: what is left of a message without its NULs, and the NUL at the end
Text(message) ==
    Append([i \in 1..Cardinality({j \in DOMAIN message : message[j] # 0}) |-> 1], 0)

\* Mutant: the message as it is, with the NULs that a daemon put into it.
FailUnfiltered(c, call, eo, message, code) ==
    LET text == Append(message, 0)
    IN /\ Returned(c, call, code, eo)
       /\ IF eo THEN /\ heap' = With(text, Len(text))
                     /\ err' = [err EXCEPT ![c] = Fresh]
                ELSE UNCHANGED <<heap, err>>
       /\ UNCHANGED buf

\* Mutant: an error without a text leaves error_out alone.
FailSilent(c, call, eo, message, code) ==
    LET text == Text(message)
    IN /\ Returned(c, call, code, eo)
       /\ IF eo /\ Len(text) > 1
             THEN heap' = With(text, Len(text)) /\ err' = [err EXCEPT ![c] = Fresh]
             ELSE UNCHANGED <<heap, err>>
       /\ UNCHANGED buf

\* write_error: if there is an error_out, it gets the message without NULs
Fail(c, call, eo, message, code) ==
    /\ Returned(c, call, code, eo)
    /\ IF eo THEN /\ heap' = With(Text(message), Len(Text(message)))
                  /\ err' = [err EXCEPT ![c] = Fresh]
             ELSE UNCHANGED <<heap, err>>
    /\ UNCHANGED buf

\* strlen, with which sockd_string_free finds the size of what it drops
Strlen(bytes) == CHOOSE n \in 0..Len(bytes) :
    bytes[n + 1] = 0 /\ \A i \in 1..n : bytes[i] # 0

Succeed(c, call, eo) == Returned(c, call, "OK", eo) /\ UNCHANGED <<heap, err, buf>>

Fixed == <<1>>      \* the message of a failed check

-----------------------------------------------------------------------------
(* Functions that only touch the configuration. *)

\* sockd_client_config_new; the error is told by a null pointer
ConfigNew(c, path) ==
    /\ at[c] = "idle" /\ config = Null
    /\ CString(path)
    /\ \E n \in Numbers, t \in Millis :     \* the defaults
          config' = [pidFile |-> Null, program |-> Null, args |-> << >>,
                     maxLen |-> n, timeout |-> t]
    /\ Succeed(c, "new", FALSE)

\* sockd_client_config_free, perhaps while another thread is in a call
ConfigFree(c) ==
    /\ at[c] = "idle" /\ config # Null
    /\ config' = Null
    /\ UNCHANGED <<heap, at, client, ret, err, buf>>

\* config_mut, config_ref: the pointer to the configuration is null
NullConfig(c, call, eo) ==
    /\ at[c] = "idle"
    /\ Fail(c, call, eo, Fixed, "NULL")
    /\ UNCHANGED config

SetPidFile(c, eo, path) ==
    /\ at[c] = "idle" /\ config # Null
    /\ IF CString(path)
         THEN config' = [config EXCEPT !.pidFile = path] /\ Succeed(c, "set", eo)
         ELSE UNCHANGED config /\ Fail(c, "set", eo, Fixed, "UTF8")

\* Mutant: the program is stored before the arguments are looked at.
SetAutoStartEarly(c, eo, program, argv) ==
    /\ at[c] = "idle" /\ config # Null
    /\ IF ~CString(program)
         THEN UNCHANGED config /\ Fail(c, "set", eo, Fixed, "UTF8")
         ELSE IF argv = Null \/ \E i \in DOMAIN argv : ~CString(argv[i])
         THEN /\ config' = [config EXCEPT !.program = program]
              /\ Fail(c, "set", eo, Fixed, "UTF8")
         ELSE /\ config' = [config EXCEPT !.program = program, !.args = argv]
              /\ Succeed(c, "set", eo)

\* sockd_client_config_set_auto_start; argv is null, or its strings may be bad
SetAutoStart(c, eo, program, argv) ==
    /\ at[c] = "idle" /\ config # Null
    /\ IF ~CString(program) \/ argv = Null \/ \E i \in DOMAIN argv : ~CString(argv[i])
         THEN UNCHANGED config /\ Fail(c, "set", eo, Fixed, "UTF8")
         ELSE /\ config' = [config EXCEPT !.program = program, !.args = argv]
              /\ Succeed(c, "set", eo)

SetMaxPayloadLen(c, eo, n) ==
    /\ at[c] = "idle" /\ config # Null
    /\ config' = [config EXCEPT !.maxLen = n]
    /\ Succeed(c, "set", eo)

SetShutdownTimeout(c, eo, t) ==
    /\ at[c] = "idle" /\ config # Null
    /\ config' = [config EXCEPT !.timeout = t]
    /\ Succeed(c, "set", eo)

-----------------------------------------------------------------------------
(* ping, request, shutdown. *)

\* Mutant: the arguments are forgotten.
BuildClientBare(cfg) == [cfg EXCEPT !.args = << >>]

\* build_client: arguments matter only with a program
BuildClient(cfg) == IF cfg.program = Null THEN [cfg EXCEPT !.args = << >>] ELSE cfg

\* The checks have passed; the call works on a client of its own.
BeginCall(c, call, eo) ==
    /\ at[c] = "idle" /\ config # Null
    /\ at' = [at EXCEPT ![c] = call]
    /\ client' = [client EXCEPT ![c] = BuildClient(config)]
    /\ ret' = [ret EXCEPT ![c] = [call |-> call, code |-> "OK", wantsError |-> eo]]
    /\ UNCHANGED <<config, heap, err, buf>>

\* An output pointer is null, or the request is while its length is not 0.
NullArgument(c, call, eo) ==
    /\ at[c] = "idle" /\ config # Null /\ call # "ping"
    /\ Fail(c, call, eo, Fixed, "NULL")
    /\ UNCHANGED config

\* The client's method fails; a daemon's error text is part of the message.
CallFails(c) ==
    /\ at[c] \in Operations
    /\ \E m \in Messages : Fail(c, at[c], ret[c].wantsError, m, "OPERATION")
    /\ UNCHANGED config

\* ping and shutdown succeed
CallSucceeds(c) ==
    /\ at[c] \in {"ping", "shutdown"}
    /\ Succeed(c, at[c], ret[c].wantsError)
    /\ UNCHANGED config

\* Mutant: the buffer has room for the longest response.
RequestSucceedsRoomy(c) ==
    /\ at[c] = "request"
    /\ \E n \in Numbers :
          /\ n > 0 /\ n <= client[c].maxLen
          /\ heap' = With(<< >>, client[c].maxLen)
          /\ buf' = [buf EXCEPT ![c] = [ptr |-> Fresh, len |-> n]]
    /\ Returned(c, "request", "OK", ret[c].wantsError)
    /\ UNCHANGED <<config, err>>

\* request succeeds: a Vec of exactly its length changes hands
RequestSucceeds(c) ==
    /\ at[c] = "request"
    /\ \E n \in Numbers :
          /\ n <= client[c].maxLen
          /\ heap' = IF n = 0 THEN heap ELSE With(<< >>, n)
          /\ buf' = [buf EXCEPT ![c] = [ptr |-> IF n = 0 THEN Dangling ELSE Fresh, len |-> n]]
    /\ Returned(c, "request", "OK", ret[c].wantsError)
    /\ UNCHANGED <<config, err>>

\* The caller has seen what it got: sockd_string_free, sockd_buffer_free
Release(c) ==
    /\ at[c] = "returned"
    /\ heap' = Without({err[c], buf[c].ptr})
    /\ err' = [err EXCEPT ![c] = Null]
    /\ buf' = [buf EXCEPT ![c] = NoBuffer]
    /\ at' = [at EXCEPT ![c] = "idle"]
    /\ ret' = [ret EXCEPT ![c] = NoReturn]
    /\ UNCHANGED <<config, client>>

Next == \E c \in Callers :
    \/ ConfigFree(c) \/ CallFails(c) \/ CallSucceeds(c) \/ RequestSucceeds(c) \/ Release(c)
    \/ \E path \in Texts \union {Null, BadUtf8} : ConfigNew(c, path)
    \/ \E eo \in BOOLEAN :
          \/ \E call \in Operations \union {"set"} : NullConfig(c, call, eo)
          \/ \E call \in Operations : BeginCall(c, call, eo) \/ NullArgument(c, call, eo)
          \/ \E path \in Texts \union {Null, BadUtf8} : SetPidFile(c, eo, path)
          \/ \E p \in Texts, bad \in {Null, BadUtf8} :
                \/ SetAutoStart(c, eo, p, ArgsOf[p])
                \/ SetAutoStart(c, eo, bad, ArgsOf[p])
                \/ SetAutoStart(c, eo, p, Append(ArgsOf[p], bad))
                \/ SetAutoStart(c, eo, p, Null)
          \/ \E n \in Numbers : SetMaxPayloadLen(c, eo, n)
          \/ \E t \in Millis : SetShutdownTimeout(c, eo, t)

Spec == Init /\ [][Next]_vars

-----------------------------------------------------------------------------
(* What the interface promises. *)

Strings == {c \in Callers : err[c] # Null}
Buffers == {c \in Callers : buf[c].len > 0}

\* Everything on the heap belongs to one variable of one caller.
HeapOwned ==
    /\ DOMAIN heap = {err[c] : c \in Strings} \union {buf[c].ptr : c \in Buffers}
    /\ \A c, d \in Callers : c # d =>
          /\ err[c] = err[d] => err[c] = Null
          /\ err[c] # buf[d].ptr \/ err[c] = Null
          /\ buf[c].ptr = buf[d].ptr => buf[c].len = 0

\* Everything on the heap belongs to one variable of one caller, and what the free
\* functions compute from it, strlen + 1 (ffi.rs:338) and the length that the
\* caller got (ffi.rs:334), is the size of the allocation: nothing is lost, freed
\* twice, or freed with another size.
OwnedOnce ==
    /\ HeapOwned
    /\ \A c \in Strings : Strlen(heap[err[c]].bytes) + 1 = heap[err[c]].size
    /\ \A c \in Buffers : buf[c].len = heap[buf[c].ptr].size

\* After a call the code tells the caller what it holds (ffi.rs:191-203, 346-357):
\* a string after every error if it asked for one, a buffer after a request that
\* succeeded, and nothing else.
CodeTellsOutputs ==
    \A c \in Callers : at[c] = "returned" =>
        /\ err[c] # Null <=> ret[c].code # "OK" /\ ret[c].wantsError
        /\ buf[c].ptr # Null <=> ret[c].code = "OK" /\ ret[c].call = "request"

\* A client that starts a daemon gives each program its own arguments, however the
\* calls of other threads fell (ffi.rs:33-36, 107-108).
AutoStartPaired ==
    \A c \in Callers : at[c] \in Operations /\ client[c].program # Null =>
        client[c].args = ArgsOf[client[c].program]

\* A call that fails changes nothing in the configuration, also when only the last
\* of several arguments is bad (ffi.rs:97-108).
FailedCallKeepsConfig ==
    [][\A c \in Callers : ret'[c] # ret[c] /\ ret'[c].code # "OK" => config' = config]_vars
=============================================================================
