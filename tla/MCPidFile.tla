----------------------------- MODULE MCPidFile -----------------------------
(* Model values and symmetry for the TLC runs of PidFile. *)
EXTENDS PidFile, TLC

\* Daemons are interchangeable: no formula names a particular one.
Symmetry == Permutations(Daemons)

\* What earlier runs leave at the path, without the pid of a daemon to come.
ForeignLeftovers == {NoFile, OldPid, Garbage, NotUtf8}
AnyLeftover      == ForeignLeftovers \union Daemons
OnlyNoFile       == {NoFile}
=============================================================================
