---------------------------- MODULE MCDaemonRun ----------------------------
(* Model values for the TLC runs of DaemonRun. *)
EXTENDS DaemonRun

\* Every daemon is configured with the PID file, or none is.
NoPidFile   == {{}}
AllOrNobody == {{}, Daemons}

\* An earlier run left a PID file of a dead process, or nothing.
FewLeftovers == {"no file", "pid of an old process"}
NoLeftover   == {"no file"}

\* An earlier run left its socket, or somebody a file at its path.
AnyOldSocket == 
    {"nothing", "a file that is no socket", "socket file of a process that is gone"}
NoOldSocket  == {"nothing"}
=============================================================================
