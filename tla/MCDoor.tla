------------------------------- MODULE MCDoor -------------------------------
(* Two daemons, each of which may be started again once it has left: one     *)
(* that leaves while the other one has its file open.                        *)
EXTENDS DaemonDoor
=============================================================================
