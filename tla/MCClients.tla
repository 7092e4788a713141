------------------------------ MODULE MCClients ------------------------------
(* One connection to give; a subscriber without logs, a start that may need two    *)
(* connections at a time, a command of another user, and a program.                *)
EXTENDS DaemonClients

CONSTANTS ev, w1, w2, sudo, prog

Cast(conns, past, more, names) ==
    [conns |-> conns, past |-> past, events |-> more, names |-> names]

MCCasts ==
    {Cast({ev}, <<>>, 3, <<>>),
     Cast({sudo, prog}, <<"Starting", "Running", "Exited">>, 0, <<>>),
     Cast({w1, w2}, <<"Starting", "Running", "Unhealthy", "Backoff", "Starting">>, 2, <<>>),
     Cast({w1, w2}, <<"Starting", "Running", "Healthy", "Stopping", "Failed">>, 1, <<>>),
     Cast({w1, w2}, <<"Starting", "Running", "Unhealthy", "Exited">>, 1, <<"service">>),
     Cast({w1, w2}, <<"Starting", "Running", "Exited">>, 1, <<"other", "service">>)}
=============================================================================
