------------------------------- MODULE MCFfi -------------------------------
(* Values for the TLC run of Ffi. *)
EXTENDS Ffi

\* Two programs, one of them with an argument.
Arguments == [t \in Texts |-> IF t = "router" THEN << >> ELSE <<"router">>]

\* Errors whose text is empty, plain, or has NULs at its end or inside.
SomeMessages == {<< >>, <<1>>, <<1, 0>>, <<1, 0, 1>>}

\* Text filters: with bytes that are 0 or 1 it is enough to count what stays.
ASSUME TextFilters ==
    \A m \in SomeMessages : Text(m) = Append(SelectSeq(m, LAMBDA b : b # 0), 0)
=============================================================================
