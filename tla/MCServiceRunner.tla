-------------------------- MODULE MCServiceRunner --------------------------
EXTENDS ServiceRunner

CONSTANTS Requested, Terminated

\* Every policy with every use of the health check; an unlimited budget and
\* one that a single restart spends.
MCServices == [restart : Policies, maxRestarts : {0, 1},
               onUnhealthy : {"none", "ignore", "restart"}]
MCReasons == {Requested, Terminated}
=============================================================================
