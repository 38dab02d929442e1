----------------------------- MODULE ThriftDrain -----------------------------
(***************************************************************************)
(* What Stop of simple_server.go promises: connections are taken on while  *)
(* the server is open, from the moment it begins to stop none is taken on  *)
(* any more, and it has stopped only when the last of them has ended.      *)
(***************************************************************************)
CONSTANT Conns

VARIABLES
    phase,      \* open, draining or stopped
    sessions    \* the connections that goroutines of the server work for

dvars == <<phase, sessions>>

DInit == phase = "open" /\ sessions = {}

Begin(c) == phase = "open" /\ sessions' = sessions \cup {c} /\ UNCHANGED phase

End(c) == sessions' = sessions \ {c} /\ UNCHANGED phase

StartDraining == phase = "open" /\ phase' = "draining" /\ UNCHANGED sessions

Finish ==
    /\ phase = "draining" /\ sessions = {}
    /\ phase' = "stopped" /\ UNCHANGED sessions

DNext == (\E c \in Conns : Begin(c) \/ End(c)) \/ StartDraining \/ Finish

DSpec == DInit /\ [][DNext]_dvars
==============================================================================
