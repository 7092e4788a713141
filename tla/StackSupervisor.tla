-------------------------- MODULE StackSupervisor --------------------------
(***************************************************************************)
(* StackSupervisor of servicrab-core/src/runtime/stack.rs: one supervision  *)
(* task per service, driven by operator commands, reloads, the reports of   *)
(* the tasks and a shutdown.                                                *)
(*                                                                          *)
(* A task waits for its dependencies and then runs its service; the run is  *)
(* ServiceContract's, which ServiceRunner is proved to implement.           *)
(*                                                                          *)
(* Abstracted: a command is sent and taken in one step, for a command that  *)
(* waits in the channel changes nothing, and one that is refused, or        *)
(* answered on the spot because there is nothing to do, is no step at all.  *)
(* The relay between a run's events and its status is immediate (HealthRelay*)
(* models its lag), a service definition is a version and its edges, and    *)
(* configurations are validated: the plan is topologically ordered and      *)
(* closed under dependencies.                                               *)
(***************************************************************************)
EXTENDS Readiness, Sequences, SequencesExt, FiniteSets

CONSTANTS
  Services,
  Starts,        \* how the stack may be started: [mode, config, held], the mode being
                 \* [keepRunning, abortOnFailure], the daemon's or up's options, and
                 \* `held' the services a daemon's start leaves stopped
  NextConfigs,   \* the configurations a reload may bring
  Commanded,     \* the services commands name
  Exits          \* how each service's processes may end: "success", "code" and,
                 \* for a service with a health check, "unhealthy"

Modes == [keepRunning : BOOLEAN, abortOnFailure : BOOLEAN]

Configs == {start.config : start \in Starts} \cup NextConfigs

ASSUME StartsAssumption ==
  \A start \in Starts : start.mode \in Modes /\ (start.mode.keepRunning \/ start.held = {})

ASSUME ExitsAssumption ==
  Exits \in [Services -> SUBSET {"success", "code", "unhealthy"}]

ASSUME ServicesAssumption == IsFiniteSet(Services) /\ Commanded \subseteq Services

Contract == INSTANCE ServiceContract

Planned(cfg) == Range(cfg.plan)

\* What validation and the planner leave of a configuration: the plan names
\* services, and a service after the services it depends on, all of them.
ASSUME ConfigsAssumption ==
  \A cfg \in Configs :
    /\ cfg.plan \in Seq(Services)
    /\ \A j \in 1..Len(cfg.plan) : \A i \in 1..Len(cfg.svc[cfg.plan[j]].deps) :
         \E k \in 1..(j - 1) : cfg.plan[k] = cfg.svc[cfg.plan[j]].deps[i].on

NoSlot == [here |-> FALSE, def |-> [ver |-> 0, deps |-> <<>>], deps |-> <<>>,
           held |-> FALSE, restart |-> FALSE, retired |-> FALSE, pending |-> "none"]

NoTask == [at |-> "none", todo |-> <<>>, closed |-> {}, run |-> Contract!Fresh,
           failed |-> FALSE]

VARIABLES
  mode,      \* StackOptions
  phase,     \* run: the select loop; stopping: stop_all; over: run() returned
  config,    \* RunState::config and RunState::plan
  slots,     \* RunState::slots; `held' while a stop channel and a handle are,
             \* `pending' the command whose acknowledgement is owed
  status,    \* the DependencyStatus behind each slot's readiness channel
  tasks,     \* the supervision tasks
  running,   \* the counter of live tasks
  asked,     \* a reason stands in the stack's own shutdown channel
  queue,     \* the services stop_all has still to stop
  awaited    \* the service stop_all is waiting for

vars == <<mode, phase, config, slots, status, tasks, running, asked, queue, awaited>>

Here == {s \in Services : slots[s].here}
-----------------------------------------------------------------------------
(* Slot::spawn and insert_slot, as functions of the slot.                   *)
Spawned(slot) == [slot EXCEPT !.held = TRUE]
TaskOf(slot) == [NoTask EXCEPT !.at = "live", !.todo = slot.deps]
Inserted(def) == [NoSlot EXCEPT !.here = TRUE, !.def = def]

\* The edges rewire_dependencies gives a service of the configuration.
Wired(cfg, s, present) ==
  SelectSeq(cfg.svc[s].deps, LAMBDA e : e.on \in Planned(cfg) \cap present)

\* Sending on a slot's stop channel: a task that has ended has no receiver left.
\* Further requests make the run escalate, which is the runner's business.
Sent(task) == IF task.at = "live" THEN [task EXCEPT !.run.asked = TRUE] ELSE task

\* The services dropped here close the readiness channels they own: a task
\* still waiting on one keeps the last verdict if it was a favourable one.
Closing(task, dropped) ==
  [task EXCEPT
     !.closed = @ \cup (dropped \cap {task.todo[i].on : i \in DOMAIN task.todo}),
     !.todo = SelectSeq(@, LAMBDA e : ~(e.on \in dropped
                                        /\ ReadinessOf(status[e.on], e.cond) = "ready"))]

Init ==
  /\ phase = "run"
  /\ \E start \in Starts :
       /\ mode = start.mode /\ config = start.config
       /\ slots = [s \in Services |->
                     IF s \notin Planned(config) THEN NoSlot
                     ELSE [Inserted(config.svc[s]) EXCEPT
                             !.deps = Wired(config, s, Planned(config)),
                             !.held = s \notin start.held]]
       /\ status = [s \in Services |->
                      IF s \in Planned(config) \cap start.held THEN StoppedStatus
                      ELSE NewStatus]
       /\ tasks = [s \in Services |-> IF slots[s].held THEN TaskOf(slots[s]) ELSE NoTask]
       /\ running = Cardinality(Planned(config) \ start.held)
  /\ asked = FALSE /\ queue = <<>> /\ awaited = {}

Shutdown ==
  /\ ~asked /\ phase # "over" /\ asked' = TRUE
  /\ UNCHANGED <<mode, phase, config, slots, status, tasks, running, queue, awaited>>
-----------------------------------------------------------------------------
(* A supervision task: supervise_service and wait_for_dependencies.         *)

SetTask(s, task) == tasks' = [tasks EXCEPT ![s] = task]
UnchangedBySupervision == UNCHANGED <<mode, phase, config, slots, running, asked, queue,
                                      awaited>>

\* A task that ends leaves its report behind and nothing else.
Report(failed) == [NoTask EXCEPT !.at = "reported", !.failed = failed]

VerdictOn(s, e) ==
  IF e.on \in tasks[s].closed THEN "gone" ELSE ReadinessOf(status[e.on], e.cond)

Waiting(s) == tasks[s].at = "live" /\ tasks[s].todo # <<>>

DependencyReady(s) ==
  /\ Waiting(s) /\ VerdictOn(s, Head(tasks[s].todo)) = "ready"
  /\ SetTask(s, [tasks[s] EXCEPT !.todo = Tail(@)])
  /\ UNCHANGED status /\ UnchangedBySupervision

DependencyBlocked(s) ==
  /\ Waiting(s) /\ VerdictOn(s, Head(tasks[s].todo)) = "gone"
  /\ status' = [status EXCEPT ![s].gone = TRUE]
  /\ SetTask(s, Report(TRUE))
  /\ UnchangedBySupervision

\* The select! may prefer the stop to a dependency that became ready meanwhile.
StoppedWaiting(s) ==
  /\ Waiting(s) /\ tasks[s].run.asked
  /\ status' = [status EXCEPT ![s].gone = TRUE]
  /\ SetTask(s, Report(FALSE))
  /\ UnchangedBySupervision

\* What the run's events make of the status: a process that was up and was not
\* stopped on request reports how it exited, and every new state is announced.
Reported(s, old, new) ==
  IF new.state = old.state THEN {status[s]}
  ELSE IF old.state \in {"Running", "Stopping"} /\ new.state \in {"Backoff", "Exited", "Failed"}
  THEN {ObserveState(ObserveExit(status[s], reason), new.state) : reason \in Exits[s]}
  ELSE {ObserveState(status[s], new.state)}

\* The steps a run takes by itself.
Onward == [r \in Contract!Runs |->
             {q \in Contract!Runs : Contract!Step(r, q) /\ ~Contract!Ask(r, q)}]

Runs(s) == tasks[s].at = "live" /\ tasks[s].todo = <<>>

\* A run that ends in no terminal state returned an error, like one that failed.
RunStep(s) ==
  /\ Runs(s)
  /\ \E run \in Onward[tasks[s].run] :
       /\ \E st \in Reported(s, tasks[s].run, run) : status' = [status EXCEPT ![s] = st]
       /\ SetTask(s, IF run.over THEN Report(run.state \notin {"Exited", "Stopped"})
                     ELSE [tasks[s] EXCEPT !.run = run])
  /\ UnchangedBySupervision

Probe(s) ==
  /\ Runs(s) /\ tasks[s].run.state = "Running" /\ "unhealthy" \in Exits[s]
  /\ \E ok \in BOOLEAN : status' = [status EXCEPT ![s] = ObserveHealth(@, ok)]
  /\ UNCHANGED tasks /\ UnchangedBySupervision
-----------------------------------------------------------------------------
(* The select loop.                                                         *)

Serving == phase = "run" /\ (running > 0 \/ mode.keepRunning)

\* What stop_all stops first: the services a reload dropped, in the order of
\* their names, which may be any and heeds no dependency.
Dropped == SetToSeq({s \in Here : slots[s].held} \ Planned(config))

\* Mutant: the plan is walked forwards.
StopOrderForwards == Dropped \o config.plan

\* stop_all's order: what a reload dropped, then the plan backwards.
StopOrder == Dropped \o Reverse(config.plan)

SeeShutdown ==
  /\ Serving /\ asked
  /\ phase' = "stopping" /\ queue' = StopOrder
  /\ UNCHANGED <<mode, config, slots, status, tasks, running, asked, awaited>>

\* run() returns: the acknowledgements still owed are dropped with the slots.
Return ==
  /\ phase' = "over"
  /\ slots' = [s \in Services |-> [slots[s] EXCEPT !.pending = "none"]]

\* No service is left, and the stack is not kept running without one.
NothingLeft ==
  /\ phase = "run" /\ ~Serving
  /\ Return
  /\ UNCHANGED <<mode, config, status, tasks, running, asked, queue, awaited>>

\* Mutant: the acknowledgement is not taken out of the slot.
IdleUnanswered(slot) == [slot EXCEPT !.held = FALSE]

\* The task is gone and the client that waited for it has its answer.
Idle(slot) == [slot EXCEPT !.held = FALSE, !.pending = "none"]

\* The report arm of the loop.
TakeReport(s) ==
  /\ Serving /\ tasks[s].at = "reported"
  /\ LET slot == slots[s]
         abort == mode.abortOnFailure /\ tasks[s].failed /\ ~slot.retired
     IN  /\ \/ /\ slot.retired
               /\ slots' = [slots EXCEPT ![s] = NoSlot]
               /\ tasks' = [t \in Services |-> IF t = s THEN NoTask
                                               ELSE Closing(tasks[t], {s})]
               /\ running' = running - 1
               /\ status' = [status EXCEPT ![s] = NewStatus]
            \/ /\ ~slot.retired /\ slot.restart
               /\ slots' = [slots EXCEPT ![s] = [Spawned(Idle(slot)) EXCEPT !.restart = FALSE]]
               /\ tasks' = [tasks EXCEPT ![s] = TaskOf(slot)]
               /\ status' = [status EXCEPT ![s] = NewStatus]
               /\ UNCHANGED running
            \/ /\ ~slot.retired /\ ~slot.restart
               /\ slots' = [slots EXCEPT ![s] = Idle(slot)]
               /\ tasks' = [tasks EXCEPT ![s] = NoTask]
               /\ running' = running - 1
               /\ UNCHANGED status
         /\ phase' = IF abort THEN "stopping" ELSE "run"
         /\ queue' = IF abort THEN StopOrder ELSE queue
  /\ UNCHANGED <<mode, config, asked, awaited>>

\* A command is refused for an unknown service and for a busy one.
Accepts(s) == Serving /\ slots[s].here /\ slots[s].pending = "none"

SpawnNow(s) ==
  /\ slots' = [slots EXCEPT ![s] = Spawned(@)]
  /\ tasks' = [tasks EXCEPT ![s] = TaskOf(slots[s])]
  /\ status' = [status EXCEPT ![s] = NewStatus]
  /\ running' = running + 1
  /\ UNCHANGED <<mode, phase, config, asked, queue, awaited>>

StopSlot(s, command, restart) ==
  /\ slots' = [slots EXCEPT ![s].pending = command, ![s].restart = restart]
  /\ tasks' = [tasks EXCEPT ![s] = Sent(@)]
  /\ UNCHANGED <<mode, phase, config, status, running, asked, queue, awaited>>

\* Mutant: a start does not look whether the service is running.
StartUnchecked(s) == /\ mode.keepRunning /\ Accepts(s)
                     /\ SpawnNow(s)

Start(s) == /\ mode.keepRunning /\ Accepts(s) /\ ~slots[s].held
            /\ SpawnNow(s)

Stop(s) == /\ mode.keepRunning /\ Accepts(s) /\ slots[s].held
           /\ StopSlot(s, "stop", slots[s].restart)

\* Besides a client of the daemon, the file watchers of up send it.
Restart(s) ==
  /\ Accepts(s) /\ (mode.keepRunning \/ s \in Planned(config))
  /\ \/ slots[s].held /\ StopSlot(s, "restart", TRUE)
     \/ ~slots[s].held /\ SpawnNow(s)

(* RunState::diff.  A retired slot the new plan names again counts as added,*)
(* and one it still does not name is listed as removed once more.           *)
Added(cfg) == {s \in Planned(cfg) : ~slots[s].here \/ slots[s].retired}
Changed(cfg) == {s \in Planned(cfg) \ Added(cfg) : slots[s].def # cfg.svc[s]}
Removed(cfg) == Here \ Planned(cfg)

\* Mutant: a retiring slot that comes back is replaced, not revived.
ReloadedSlotReplacing(s, cfg) ==
  CASE s \in Added(cfg) -> Inserted(cfg.svc[s])
    [] s \in Changed(cfg) ->
         [slots[s] EXCEPT !.def = cfg.svc[s], !.restart = @ \/ slots[s].held]
    [] s \in Removed(cfg) ->
         IF slots[s].held THEN [slots[s] EXCEPT !.retired = TRUE, !.restart = FALSE] ELSE NoSlot
    [] OTHER -> slots[s]

\* What the three loops of reload() make of a slot, before it is rewired.
ReloadedSlot(s, cfg) ==
  CASE s \in Added(cfg) /\ ~slots[s].here -> Inserted(cfg.svc[s])
    [] s \in Added(cfg) /\ slots[s].here ->
         [slots[s] EXCEPT !.retired = FALSE, !.def = cfg.svc[s], !.restart = slots[s].held]
    [] s \in Changed(cfg) ->
         [slots[s] EXCEPT !.def = cfg.svc[s], !.restart = @ \/ slots[s].held]
    [] s \in Removed(cfg) ->
         IF slots[s].held THEN [slots[s] EXCEPT !.retired = TRUE, !.restart = FALSE] ELSE NoSlot
    [] OTHER -> slots[s]

\* Refused while any command is unfinished.
Reload(cfg) ==
  /\ mode.keepRunning /\ Serving /\ \A s \in Here : slots[s].pending = "none"
  /\ LET next    == [s \in Services |-> ReloadedSlot(s, cfg)]
         present == {s \in Services : next[s].here}
         wired   == [s \in Services |->
                       IF s \in present \cap Planned(cfg)
                       THEN [next[s] EXCEPT !.deps = Wired(cfg, s, present)] ELSE next[s]]
         told    == {s \in Removed(cfg) \cup Changed(cfg) : slots[s].held}
         started == {s \in Added(cfg) : ~next[s].restart /\ ~next[s].held}
         gone    == Here \ present
     IN  /\ config' = cfg
         /\ slots' = [s \in Services |-> IF s \in started THEN Spawned(wired[s]) ELSE wired[s]]
         /\ status' = [s \in Services |->
                         IF s \in started \cup gone THEN NewStatus ELSE status[s]]
         /\ tasks' = [s \in Services |->
                        CASE s \in started -> TaskOf(wired[s])
                          [] s \in told -> Closing(Sent(tasks[s]), gone)
                          [] OTHER -> Closing(tasks[s], gone)]
         /\ running' = running + Cardinality(started)
  /\ UNCHANGED <<mode, phase, asked, queue, awaited>>
-----------------------------------------------------------------------------
(* stop_all, and the end of run().                                          *)

StopNext ==
  /\ phase = "stopping" /\ awaited = {} /\ queue # <<>>
  /\ queue' = Tail(queue)
  /\ LET s == Head(queue)
     IN  IF slots[s].held
         THEN tasks' = [tasks EXCEPT ![s] = Sent(@)] /\ awaited' = {s}
         ELSE UNCHANGED <<tasks, awaited>>
  /\ UNCHANGED <<mode, phase, config, slots, status, running, asked>>

\* Mutant: an aborted task is still waited for.
EndedByReport(s) == tasks[s].at \in {"none", "reported"}

Ended(s) == tasks[s].at \in {"none", "reported", "aborted"}

StopDone ==
  /\ phase = "stopping" /\ awaited # {} /\ \A s \in awaited : Ended(s)
  /\ awaited' = {}
  /\ UNCHANGED <<mode, phase, config, slots, status, tasks, running, asked, queue>>

\* Mutant: the task is aborted and its process group left alone.
AbortedUnswept(task) == [NoTask EXCEPT !.at = "aborted", !.run.live = task.run.live]

\* sweep_group, and then the abort: the task reports nothing.
Aborted(task) == [NoTask EXCEPT !.at = "aborted"]

\* The grace ran out.
StopTimesOut ==
  /\ phase = "stopping"
  /\ \E s \in awaited : ~Ended(s) /\ SetTask(s, Aborted(tasks[s]))
  /\ awaited' = {}
  /\ UNCHANGED <<mode, phase, config, slots, status, running, asked, queue>>

\* Every handle has been waited for.
Finish ==
  /\ phase = "stopping" /\ queue = <<>> /\ awaited = {}
  /\ \A s \in Here : slots[s].held => Ended(s)
  /\ Return
  /\ UNCHANGED <<mode, config, status, tasks, running, asked, queue, awaited>>
-----------------------------------------------------------------------------
Task(s) == DependencyReady(s) \/ DependencyBlocked(s) \/ StoppedWaiting(s) \/ RunStep(s)

Command(s) == Start(s) \/ Stop(s) \/ Restart(s)

Loop == SeeShutdown \/ NothingLeft \/ StopNext \/ StopDone \/ StopTimesOut \/ Finish

Next == \/ Loop \/ Shutdown
        \/ \E s \in Services : Task(s) \/ Probe(s) \/ TakeReport(s)
        \/ \E s \in Commanded : Command(s)
        \/ \E cfg \in NextConfigs : Reload(cfg)

\* A run somebody asked to stop comes to its end (ServiceRunner's
\* ShutdownCompletes), every task and the loop are polled, and select! picks
\* every branch that stays ready.  A process may run for ever otherwise, and
\* nobody has to send a command.
AskedRun(s) == tasks[s].run.asked /\ RunStep(s)

Fairness ==
  /\ WF_vars(Loop)
  /\ \A s \in Services :
       /\ WF_vars(AskedRun(s) \/ StoppedWaiting(s) \/ DependencyReady(s)
                   \/ DependencyBlocked(s))
       /\ WF_vars(TakeReport(s))

Spec == Init /\ [][Next]_vars /\ Fairness
-----------------------------------------------------------------------------
TypeOK ==
  /\ mode \in Modes /\ phase \in {"run", "stopping", "over"}
  /\ config \in Configs
  /\ \A s \in Services :
       /\ slots[s].held \in BOOLEAN /\ slots[s].pending \in {"none", "stop", "restart"}
       /\ slots[s].retired \/ slots[s].restart => slots[s].here
       /\ status[s] \in Statuses
       /\ tasks[s].at \in {"none", "live", "reported", "aborted"}
       /\ tasks[s].run \in Contract!Runs
  /\ running \in 0..Cardinality(Services)
  /\ awaited \in SUBSET Services

\* Every live task has exactly one slot holding its stop channel and handle, and
\* the loop's counter is the number of them: the debug_asserts of run(),
\* reload() and insert_slot, after any sequence of commands and reloads.
CounterIsExact ==
  phase = "run" =>
    /\ \A s \in Services : slots[s].held <=> tasks[s].at # "none"
    /\ running = Cardinality({s \in Services : slots[s].held})

\* A service is spawned again only after its old task has reported, "so exactly
\* one process for this service is ever alive", and never once the loop was left.
OneRunPerService ==
  [][\A s \in Services :
       (tasks'[s].at = "live" /\ tasks'[s].run.state = "Pending"
          /\ (tasks[s].at # "live" \/ tasks[s].run.state # "Pending"))
         => tasks[s].at \in {"none", "reported"} /\ phase = "run"]_vars

\* stop_all stops a service only when every service that depends on it has
\* ended, whatever reloads did to the plan before.  A dependent and a dependency
\* that were both dropped are the exception: the reload has asked them to stop at
\* once, and stop_all takes them in the order of their names.
DependentsStopFirst ==
  phase = "stopping" =>
    \A s \in Here : \A i \in 1..Len(slots[s].def.deps) :
      LET d == slots[s].def.deps[i].on
      IN  (slots[s].held /\ d \notin Range(queue)) =>
            \/ Ended(s)
            \/ {s, d} \cap Planned(config) = {} /\ tasks[s].run.asked

\* "No process group of ours outlives the supervisor."
NothingSurvives ==
  phase = "over" => \A s \in Services : Ended(s) /\ ~tasks[s].run.live

\* A client that waits for a stop or a restart is answered, or told that the
\* stack shut down meanwhile.
CommandsAreAnswered ==
  \A s \in Services : (slots[s].pending # "none") ~> (slots[s].pending = "none")

\* A shutdown always ends, whatever was going on when it came, and so does the
\* one that follows a failure.
ShutdownEnds == (asked \/ phase = "stopping") ~> (phase = "over")

\* A slot as a client of the stack knows it.
SlotView ==
  [s \in Services |->
     [here |-> slots[s].here, held |-> slots[s].held, restart |-> slots[s].restart,
      retired |-> slots[s].retired, pending |-> slots[s].pending,
      def |-> IF slots[s].here THEN slots[s].def ELSE "none"]]

SlotContract == INSTANCE StackSpec WITH view <- SlotView

\* The stack implements StackSpec, on which DaemonSession relies: a running
\* service is never replaced, a busy slot takes no command, a reload is refused
\* while any slot is busy.
ImplementsStackContract == SlotContract!Spec
=============================================================================
