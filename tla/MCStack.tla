------------------------------ MODULE MCStack ------------------------------
EXTENDS StackSupervisor

CONSTANTS db, api, log

On(d, cond) == [on |-> d, cond |-> cond]
Def(ver, deps) == [ver |-> ver, deps |-> deps]
Alone == Def(0, <<>>)
Config(plan, dbDef, apiDef) ==
  [plan |-> plan,
   svc |-> [s \in Services |-> CASE s = db -> dbDef [] s = api -> apiDef [] OTHER -> Alone]]

\* The dependent, its dependency, and a service of which nothing depends.  A reload
\* may change the dependency's definition, drop the dependent, the dependency or
\* both, and go back.
Pair(cond) == Config(<<db, api>>, Alone, Def(0, <<On(db, cond)>>))
All(cond) == Config(<<db, api, log>>, Alone, Def(0, <<On(db, cond)>>))
DbChanged(cond) == Config(<<db, api, log>>, Def(1, <<>>), Def(0, <<On(db, cond)>>))
DbOnly == Config(<<db, log>>, Alone, Alone)
ApiOnly == Config(<<api, log>>, Alone, Alone)
LogOnly == Config(<<log>>, Alone, Alone)

Daemon(cfg, held) ==
  [mode |-> [keepRunning |-> TRUE, abortOnFailure |-> FALSE], config |-> cfg, held |-> held]
Up(cfg) ==
  [mode |-> [keepRunning |-> FALSE, abortOnFailure |-> TRUE], config |-> cfg, held |-> {}]

\* The dependent waits for a healthy dependency.  The daemon leaves the third
\* service stopped, and the dependent with it or not.
MCStarts == {Up(Pair("healthy")), Daemon(All("healthy"), {log}),
             Daemon(All("healthy"), {api, log})}
MCNext == {All("healthy"), DbChanged("healthy"), DbOnly, ApiOnly, LogOnly}
MCExits == [s \in Services |-> IF s = db THEN {"unhealthy"} ELSE {"code"}]

\* Liveness: the dependent waits for one that has only to start, and that a reload
\* drops while it waits.
MCStartsLive == {Up(Pair("started")), Daemon(Pair("started"), {})}
MCNextLive == {Config(<<api>>, Alone, Alone)}
MCExitsLive == [s \in Services |-> {"code"}]
=============================================================================
