------------------------------ MODULE MCSockd ------------------------------
(* Model values for the TLC runs of Sockd. *)
EXTENDS Sockd, TLC

\* Every daemon is configured with the PID file.
AllWithPidFile == {Daemons}

\* One daemon is started by hand, or none; the others by clients.
One         == {{d} : d \in Daemons}
NobodyOrOne == {{}} \union One

\* Nothing is left of earlier runs; or a PID file, readable or not.
NoLeftover  == {"no file"}
AnyLeftover == {"pid of an old process", "bytes that are not UTF-8"}
NoOldSocket == {"nothing"}

Symmetry == Permutations(Daemons) \union Permutations(Clients)
=============================================================================
