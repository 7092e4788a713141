--------------------------- MODULE DaemonSession ---------------------------
(***************************************************************************)
(* A project's daemon across its runs: server.rs and stopped.rs of          *)
(* servicrab-cli/src/daemon, with the status registry of                    *)
(* servicrab-core/src/runtime/status.rs.                                    *)
(*                                                                          *)
(* Every client has a connection task.  Commands and reloads travel to the  *)
(* stack over one channel, the acknowledgement comes back over another, and *)
(* after it the task still has work to do: to remember or forget a stop in  *)
(* a file that outlives the daemon, or to settle what a reload changed.     *)
(* The stack is StackContract's.                                            *)
(*                                                                          *)
(* Abstracted: a request that is answered on the spot (unknown name, invalid*)
(* configuration) or comes while the stack is stopping, and is refused, is  *)
(* no step; a service's state is that it announced nothing yet, is up, or is*)
(* down; the configuration may be edited at any time, so a start or a reload*)
(* reads any.                                                               *)
(***************************************************************************)
EXTENDS Naturals, Sequences, SequencesExt, FiniteSets

CONSTANTS
  Services,
  Clients,
  Configs,    \* [plan, declared, unless, deps, ver]: the files an operator may write
  Watched,    \* the services that declare a watch
  Nobody,
  EventBound  \* events that may wait for the collector

ASSUME ConfigsAssumption ==
  \A cfg \in Configs : /\ cfg.plan \in Seq(Services)
                       /\ Range(cfg.plan) \subseteq cfg.declared /\ cfg.declared \subseteq Services

\* A client is neither the watcher nor nobody.
ASSUME ClientsAssumption == Clients \cap {"watcher", "none", Nobody} = {}

Stack == INSTANCE StackContract

VARIABLES
  phase,      \* down; serving; closing: the stack has ended
  slots,      \* the stack's slots; pending is the client that waits
  task,       \* what the task of a slot has announced: "none" without a task,
              \* "fresh" nothing, "up", "over" its end
  control,    \* the control channel
  events,     \* the event channel
  registry,   \* StatusRegistry, "absent" without an entry
  names,      \* Session::names
  watching,   \* the services with a file watcher in Session::watchers
  doing,      \* the connection tasks
  reloading,  \* who holds Session::reloading, and the names before
  file,       \* the file of services stopped by hand
  writing,    \* who holds WRITING
  word        \* history: the last command a client gave for a service is a stop,
              \* which was answered and could be written, and no daemon has
              \* started the service by its own policy since; a write of an
              \* earlier daemon takes back the word on all of them

vars == <<phase, slots, task, control, events, registry, names, watching,
          doing, reloading, file, writing, word>>

Planned(cfg) == Range(cfg.plan)

Idle == [at |-> "idle", what |-> "none", svc |-> Nobody, cfg |-> Nobody, ok |-> FALSE,
         read |-> {}]
NoReload == [by |-> Nobody, previous |-> {}]

\* Those of the connection tasks that wait for the stack.
Waits(c) == doing[c].at \in {"queued", "taken"}
-----------------------------------------------------------------------------
(* Start: reconcile, held_back, and the initial state of everything else.   *)

\* Names the configuration no longer declares are forgotten.
Reconciled(cfg) == file \cap cfg.declared

\* Mutant: what depends on a held back service is started.
HeldBackAlone(cfg, remembered) == remembered \cap Planned(cfg) \cap cfg.unless

\* One turn of with_dependents: a service joins those it depends on.
Joined(cfg, s, held) == IF cfg.deps[s] \cap held # {} THEN held \cup {s} ELSE held

\* with_dependents: one pass in start order.
WithDependents(cfg, seeds) ==
  LET held[n \in 0..Len(cfg.plan)] ==
        IF n = 0 THEN seeds ELSE Joined(cfg, cfg.plan[n], held[n - 1])
  IN  held[Len(cfg.plan)]

HeldBack(cfg, remembered) ==
  WithDependents(cfg, remembered \cap Planned(cfg) \cap cfg.unless)

DownState ==
  /\ slots = [s \in Services |-> Stack!NoSlot]
  /\ task = [s \in Services |-> "none"]
  /\ control = <<>> /\ events = <<>>
  /\ registry = [s \in Services |-> "absent"] /\ names = {} /\ watching = {}
  /\ doing = [c \in Clients |-> Idle]
  /\ reloading = NoReload /\ writing = Nobody

Init ==
  /\ phase = "down" /\ DownState
  /\ file = {} /\ word = [s \in Services |-> FALSE]

\* Failing to tidy the file is no reason not to start.
Start(cfg) ==
  /\ phase = "down" /\ phase' = "serving"
  /\ file' \in {file, Reconciled(cfg)}
  /\ LET held == HeldBack(cfg, file')
     IN  /\ slots' = [s \in Services |->
                        CASE s \notin Planned(cfg) -> Stack!NoSlot
                          [] s \in held -> Stack!Inserted(cfg.ver[s])
                          [] OTHER -> Stack!Spawned(Stack!Inserted(cfg.ver[s]))]
         /\ task' = [s \in Services |-> IF s \in Planned(cfg) \ held THEN "fresh" ELSE "none"]
         /\ events' = [i \in 1..Cardinality(held) |->
                         [svc |-> SelectSeq(cfg.plan, LAMBDA s : s \in held)[i], state |-> "down"]]
         /\ word' = [s \in Services |-> word[s] /\ s \in cfg.declared /\ task'[s] = "none"]
  /\ registry' = [s \in Services |-> IF s \in Planned(cfg) THEN "pending" ELSE "absent"]
  /\ names' = Planned(cfg) /\ watching' = Watched \cap Planned(cfg)
  /\ UNCHANGED <<control, doing, reloading, writing>>
-----------------------------------------------------------------------------
(* The stack, its services and the collector.                               *)

UnchangedBySession == UNCHANGED <<names, watching, reloading, file, writing>>

Send(s, state) == /\ Len(events) < EventBound
                  /\ events' = Append(events, [svc |-> s, state |-> state])

Announces(s) ==
  /\ phase = "serving"
  /\ \/ /\ task[s] = "fresh" /\ task' = [task EXCEPT ![s] = "up"] /\ Send(s, "up")
     \/ /\ task[s] \in {"fresh", "up"} /\ task' = [task EXCEPT ![s] = "over"] /\ Send(s, "down")
  /\ UNCHANGED <<phase, slots, control, registry, doing, word>> /\ UnchangedBySession

\* A connection task that has the stack's answer.  A refused command ends with
\* it; a refused reload and an accepted request have more to do.
Answered(job, ok) ==
  IF ~ok /\ job.what # "reload" THEN Idle ELSE [job EXCEPT !.at = "answered", !.ok = ok]

\* The stack's answer to a client, if it was one that asked.
Answer(who, ok) ==
  doing' = [c \in Clients |-> IF c = who THEN Answered(doing[c], ok) ELSE doing[c]]

TakeReport(s) ==
  /\ phase = "serving" /\ task[s] = "over"
  /\ slots' = [slots EXCEPT ![s] = Stack!Reported(@)]
  /\ task' = [task EXCEPT ![s] = IF slots'[s].held THEN "fresh" ELSE "none"]
  /\ Answer(slots[s].pending, TRUE)
  /\ UNCHANGED <<phase, control, events, registry, word>> /\ UnchangedBySession

Spawn(s) == /\ slots' = [slots EXCEPT ![s] = Stack!Spawned(@)]
            /\ task' = [task EXCEPT ![s] = "fresh"]

\* A stop or a restart of a running service is answered when it has ended.
Await(who, slot) ==
  /\ slots' = slot /\ UNCHANGED task
  /\ doing' = [c \in Clients |-> IF c = who THEN [doing[c] EXCEPT !.at = "taken"] ELSE doing[c]]

\* handle_control for one service.
TakeCommand(who, what, s) ==
  \/ ~Stack!Free(slots[s]) /\ Answer(who, FALSE) /\ UNCHANGED <<slots, task>>
  \/ /\ Stack!Free(slots[s]) /\ what = "start"
     /\ IF slots[s].held THEN Answer(who, FALSE) /\ UNCHANGED <<slots, task>>
        ELSE Answer(who, TRUE) /\ Spawn(s)
  \/ /\ Stack!Free(slots[s]) /\ what = "stop"
     /\ IF slots[s].held THEN Await(who, [slots EXCEPT ![s] = Stack!Stopping(@, who)])
        ELSE Answer(who, TRUE) /\ UNCHANGED <<slots, task>>
  \/ /\ Stack!Free(slots[s]) /\ what = "restart"
     /\ IF slots[s].held THEN Await(who, [slots EXCEPT ![s] = Stack!Restarting(@, who)])
        ELSE Answer(who, TRUE) /\ Spawn(s)

TakeReload(who, cfg) ==
  \/ /\ \E s \in Services : slots[s].pending # "none"
     /\ Answer(who, FALSE) /\ UNCHANGED <<slots, task>>
  \/ /\ \A s \in Services : slots[s].pending = "none"
     /\ slots' = [s \in Services |-> Stack!Reloaded(slots[s], s \in Planned(cfg), cfg.ver[s])]
     /\ task' = [s \in Services |-> IF slots'[s].held /\ ~slots[s].held THEN "fresh" ELSE task[s]]
     /\ Answer(who, TRUE)

TakeControl ==
  /\ phase = "serving" /\ control # <<>>
  /\ control' = Tail(control)
  /\ LET msg == Head(control)
     IN  IF msg.what = "reload" THEN TakeReload(msg.who, msg.cfg)
         ELSE TakeCommand(msg.who, msg.what, msg.svc)
  /\ UNCHANGED <<phase, events, registry, word>> /\ UnchangedBySession

\* StatusRegistry::apply: an event of a service without an entry is dropped.
Applied(entry, event) == IF entry = "absent" THEN entry ELSE event.state

Collect ==
  /\ phase = "serving" /\ events # <<>>
  /\ events' = Tail(events)
  /\ registry' = [registry EXCEPT ![Head(events).svc] = Applied(@, Head(events))]
  /\ UNCHANGED <<phase, slots, task, control, doing, word>> /\ UnchangedBySession
-----------------------------------------------------------------------------
(* The connection tasks.                                                    *)

Post(msg) == control' = Append(control, msg)

\* command(), up to the acknowledgement.
Ask(c, what, s) ==
  /\ phase = "serving" /\ doing[c].at = "idle" /\ s \in names
  /\ doing' = [doing EXCEPT ![c] = [Idle EXCEPT !.at = "queued", !.what = what, !.svc = s]]
  /\ Post([who |-> c, what |-> what, svc |-> s, cfg |-> Nobody])
  /\ word' = [word EXCEPT ![s] = @ /\ what = "stop"]
  /\ UNCHANGED <<phase, slots, task, events, registry>> /\ UnchangedBySession

\* StatusRegistry::sync: an entry that is still planned keeps its state.
Synced(plan) == [s \in Services |->
                   IF s \notin plan THEN "absent"
                   ELSE IF registry[s] = "absent" THEN "pending" ELSE registry[s]]

\* A write that outlived its daemon's lock.
Late(c) == doing[c].at = "recording" /\ writing # c

\* Bound: while there is one, the next daemon has no reloads and no watcher's restarts,
\* which read and write nothing of the file.
NoneLate == \A c \in Clients : ~Late(c)

\* Mutant: two clients may reload at once.
AskReloadUnlocked(c, cfg) ==
  /\ phase = "serving" /\ doing[c].at = "idle"
  /\ reloading' = [by |-> c, previous |-> names]
  /\ registry' = Synced(Planned(cfg)) /\ names' = Planned(cfg)
  /\ doing' = [doing EXCEPT ![c] = [Idle EXCEPT !.at = "queued", !.what = "reload", !.cfg = cfg]]
  /\ Post([who |-> c, what |-> "reload", svc |-> Nobody, cfg |-> cfg])
  /\ UNCHANGED <<phase, slots, task, events, watching, file, writing, word>>

\* reload() up to the acknowledgement.  Nobody else looks at what it changes
\* between the two steps but the collector, which could as well have waited.
AskReload(c, cfg) ==
  /\ phase = "serving" /\ doing[c].at = "idle" /\ reloading.by = Nobody /\ NoneLate
  /\ reloading' = [by |-> c, previous |-> names]
  /\ registry' = Synced(Planned(cfg)) /\ names' = Planned(cfg)
  /\ doing' = [doing EXCEPT ![c] = [Idle EXCEPT !.at = "queued", !.what = "reload", !.cfg = cfg]]
  /\ Post([who |-> c, what |-> "reload", svc |-> Nobody, cfg |-> cfg])
  /\ UNCHANGED <<phase, slots, task, events, watching, file, writing, word>>

\* A refused reload undoes what it did to the session.
HearRefusal(c) ==
  /\ doing[c].at = "answered" /\ ~doing[c].ok
  /\ doing' = [doing EXCEPT ![c] = Idle]
  /\ registry' = Synced(reloading.previous) /\ names' = reloading.previous
  /\ reloading' = NoReload
  /\ UNCHANGED <<phase, slots, task, control, events, watching, file, writing, word>>

\* respawn_watchers, which does nothing once the session has been shut down.
HearReloaded(c) ==
  /\ doing[c].at = "answered" /\ doing[c].ok /\ doing[c].what = "reload"
  /\ watching' = IF phase = "serving" THEN Watched \cap Planned(doing[c].cfg) ELSE {}
  /\ doing' = [doing EXCEPT ![c] = Idle] /\ reloading' = NoReload
  /\ UNCHANGED <<phase, slots, task, control, events, registry, names, file,
                 writing, word>>

\* record() up to the rename: the lock, and the names the file holds.
Remember(c) ==
  /\ doing[c].at = "answered" /\ doing[c].ok /\ doing[c].what # "reload"
  /\ writing = Nobody /\ writing' = c
  /\ doing' = [doing EXCEPT ![c].at = "recording", ![c].read = file]
  /\ UNCHANGED <<phase, slots, task, control, events, registry, names, watching,
                 reloading, file, word>>

\* What record() makes of the names it read.
Recorded(c) == IF doing[c].what = "stop" THEN doing[c].read \cup {doing[c].svc}
               ELSE doing[c].read \ {doing[c].svc}

\* For the history: another client has asked for the service meanwhile, and may yet record that.
TakenBack(c) == \E d \in Clients \ {c} :
                  doing[d].svc = doing[c].svc /\ doing[d].what \in {"start", "restart"}

\* The rename, or the write that fails and is only logged, and the response to
\* the client, unless the daemon has let go of its connections meanwhile.
Respond(c) ==
  /\ doing[c].at = "recording"
  /\ doing' = [doing EXCEPT ![c] = Idle]
  /\ writing' = IF writing = c THEN Nobody ELSE writing
  /\ \/ /\ file' = IF Recorded(c) = doing[c].read THEN file ELSE Recorded(c)
        /\ word' = IF Late(c) THEN [s \in Services |-> FALSE]
                   ELSE [word EXCEPT ![doing[c].svc] =
                           doing[c].what = "stop"
                             /\ (@ \/ (~TakenBack(c) /\ doing[c].read = file))]
     \/ /\ UNCHANGED file
        /\ word' = [word EXCEPT ![doing[c].svc] = FALSE]
  /\ UNCHANGED <<phase, slots, task, control, events, registry, names, watching, reloading>>

\* A file watcher asks for a restart and waits for the answer before the next.
WatcherAsks(s) ==
  /\ phase = "serving" /\ s \in watching /\ slots[s].pending # "watcher" /\ NoneLate
  /\ \A i \in DOMAIN control : control[i].who = "watcher" => control[i].svc # s
  /\ Post([who |-> "watcher", what |-> "restart", svc |-> s, cfg |-> Nobody])
  /\ UNCHANGED <<phase, slots, task, events, registry, doing, word>>
  /\ UnchangedBySession
-----------------------------------------------------------------------------
(* The end of a daemon.                                                     *)

Released ==
  /\ slots' = [s \in Services |-> Stack!NoSlot] /\ task' = [s \in Services |-> "none"]
  /\ control' = <<>> /\ events' = <<>>

\* Request::Shutdown or a signal: stop_all, the return of run(), and the end of
\* the collector.  The stack takes nothing from its channels any more, and who
\* still waits for it finds his own closed; meanwhile the connection tasks go on.
Shutdown ==
  /\ phase = "serving" /\ phase' = "closing" /\ Released
  /\ doing' = [c \in Clients |-> IF Waits(c) THEN Answered(doing[c], FALSE) ELSE doing[c]]
  /\ watching' = {}
  /\ UNCHANGED <<registry, names, reloading, file, writing, word>>

Gone ==
  /\ phase' = "down" /\ Released
  /\ registry' = [s \in Services |-> "absent"] /\ names' = {} /\ watching' = {}
  /\ reloading' = NoReload /\ writing' = Nobody
  /\ UNCHANGED <<file, word>>

\* serve() drops the lock and only then the runtime, which cancels the connection
\* tasks and waits for a write under way: the next daemon may start before it.
Exit ==
  /\ phase = "closing" /\ Gone
  /\ doing' = [c \in Clients |-> IF doing[c].at = "recording" THEN doing[c] ELSE Idle]

\* SIGKILL or a power cut, at any point: what was renamed into place stays.
Crash == /\ phase # "down" /\ Gone
         /\ doing' = [c \in Clients |-> IF Late(c) THEN doing[c] ELSE Idle]
-----------------------------------------------------------------------------
Connection(c) == \/ \E what \in {"start", "stop", "restart"}, s \in Services : Ask(c, what, s)
                 \/ \E cfg \in Configs : AskReload(c, cfg)
                 \/ HearRefusal(c) \/ HearReloaded(c) \/ Remember(c) \/ Respond(c)

Next == \/ \E cfg \in Configs : Start(cfg)
        \/ \E s \in Services : Announces(s) \/ TakeReport(s) \/ WatcherAsks(s)
        \/ TakeControl \/ Collect \/ Shutdown \/ Exit \/ Crash
        \/ \E c \in Clients : Connection(c)

Spec == Init /\ [][Next]_vars
-----------------------------------------------------------------------------
TypeOK ==
  /\ phase \in {"down", "serving", "closing"}
  /\ \A s \in Services :
       /\ slots[s].pending \in Clients \cup {"none", "watcher"}
       /\ slots[s].held <=> task[s] # "none"
       /\ registry[s] \in {"absent", "pending", "up", "down"}
  /\ \A c \in Clients : doing[c].at \in {"idle", "queued", "taken", "answered", "recording"}
  /\ names \in SUBSET Services /\ file \in SUBSET Services
  /\ reloading.by \in Clients \cup {Nobody} /\ writing \in Clients \cup {Nobody}

\* Session::names and the registry name the services the stack plans, whenever no
\* reload is under way: after any number of reloads of several clients, refused,
\* overtaken by a shutdown or applied.
SessionFollowsStack ==
  (phase = "serving" /\ reloading.by = Nobody) =>
    /\ names = {s \in Services : slots[s].here /\ ~slots[s].retired}
    /\ names = {s \in Services : registry[s] # "absent"}

\* A stop outlives its daemon: no later one starts the service while it is
\* unless-stopped, nor what depends on it, however the daemons before it ended.  The
\* exception is the code's: serve() drops the lock before the runtime, so a daemon that
\* has gone may yet replace the file of the next one.
StopOutlivesDaemon ==
  [][\A cfg \in Configs, s, t \in Services :
       (Start(cfg) /\ word[s] /\ s \in cfg.unless \cap Planned(cfg)
          /\ (t = s \/ s \in cfg.deps[t]))
         => task'[t] = "none"]_vars

\* "A hand-stopped service stays stopped for as long as that daemon lives."
HandStoppedStaysStopped ==
  [][\A s \in Services :
       (phase = "serving" /\ slots[s].here /\ word[s] /\ task[s] = "none")
         => task'[s] = "none"]_vars
=============================================================================
