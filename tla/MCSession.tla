----------------------------- MODULE MCSession -----------------------------
EXTENDS DaemonSession, TLC

CONSTANTS db, api, c1, c2

Ver(d, a) == [s \in {db, api} |-> IF s = db THEN d ELSE a]

\* api depends on db, which is unless-stopped.
Both == [plan |-> <<db, api>>, declared |-> {db, api}, unless |-> {db},
         deps |-> [s \in {db, api} |-> IF s = api THEN {db} ELSE {}], ver |-> Ver(1, 1)]
\* A file that drops api and changes db.
DbOnly == [Both EXCEPT !.plan = <<db>>, !.declared = {db}, !.ver = Ver(2, 1)]

MCConfigs == {Both, DbOnly}
MCSymmetry == Permutations({c1, c2})
=============================================================================
