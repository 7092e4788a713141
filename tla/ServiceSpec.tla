---------------------------- MODULE ServiceSpec ----------------------------
(* One run of a service as the rest of the system sees it: a specification  *)
(* whose only steps are the ones that ServiceContract allows.               *)
EXTENDS ServiceContract

VARIABLE run

Init == run = Fresh

Next == Step(run, run')

Spec == Init /\ [][Next]_run
=============================================================================
