---------------------------- MODULE MCEventLoop ----------------------------
(* Model values for the TLC runs of EventLoop; the bounds are in the cfgs. *)
EXTENDS EventLoop

CONSTANTS c1, c2    \* connections
=============================================================================
