----------------------------- MODULE MCExchange -----------------------------
(* Values for the TLC run of Exchange: bytes of eight values. *)
EXTENDS Exchange

\* Payloads that are empty, small, at and above the limits, and beyond u32.
Lens == {0, 1, 2, 3, Base4}

Limits == [e \in Ends |-> IF e = "client" THEN 1 ELSE 2]

SomeRequests ==
    [kind : {"Request"}, flags : {0, 11}, len : Lens]
        \union [kind : {"Ping", "Shutdown", "Pong"}, flags : {0}, len : {0}]

\* A header with one byte wrong, or that claims a payload that never comes.
Ping == Encode([kind |-> "Ping", flags |-> 0, len |-> 0])
SomeGarbage == {[Ping EXCEPT ![i] = 0] : i \in {1, 5, 6}}
=============================================================================
