# servicrab: a TLA+ development

servicrab supervises the processes of a project: it loads a configuration,
plans a stack from it, starts every service once the ones it depends on are
ready, restarts them by policy and health, and stops them in reverse order,
either in the foreground (`servicrab run`, `servicrab up`) or as a per-project
daemon that takes commands over a socket. This directory models what of it is
concurrent, stateful or easy to get subtly wrong, checks the models with TLC and
proves the most important results with TLAPS.

Paths below are relative to `src/crates/servicrab-core/src/` unless they start
with `cli/` (`src/crates/servicrab-cli/src/`).

## 1. The system

| Component | State | Operations | Talks to |
| --- | --- | --- | --- |
| Lifecycle (`lifecycle.rs`) | state of a service, attempts since the last stable run | `try_transition`, `decide`, `backoff_for_attempt` | owned by a runner |
| Service runner (`runtime/unix.rs`) | process handle and group, `swept`, state machine, tracker | `run`: check, spawn, wait on exit/shutdown/health, `shutdown` with escalation, sweep, drain, decide, back off; `Drop` of the handle | shutdown channel in, events out, health signals in, signals to a process group |
| Health monitor (`runtime/health.rs`) | consecutive failures, announced state | probe at every tick, count, announce transitions | one per process; events out, `HealthSignal` to the runner |
| Relay and readiness (`runtime/stack.rs`) | a folded `DependencyStatus` per run, the slot's status and process group cell | fold an event, publish, end with the channel | between a run's events and the slot's dependents |
| Stack supervisor (`runtime/stack.rs`) | slots (definition, edges, stop channel, handle, flags, pending acknowledgement), plan, counter of live tasks | commands Start, Stop, Restart, Reload; reports; `stop_all` | operator commands, file watchers, one supervision task per service |
| Event channel (`runtime/event.rs`) | the queue, the allowance for log lines, drops | send, report drops, receive | every component above to its consumers |
| Log files (`runtime/logs.rs`) | file, size, buffer, rotated files, a bounded queue | write, rotate, flush, pump, shut down | the collector of `up` or of the daemon; `logs --follow` reads the files |
| File watcher (`runtime/filewatch.rs`) | the last snapshot | scan, debounce, restart, scan again | Restart commands to the stack |
| Planning (`runtime/plan.rs`, `graph.rs`) | none | topological sort, naming of a cycle, closure of a selection, dependents | configuration in, plan out |
| Status registry (`runtime/status.rs`) | a status per service | `apply` an event, `sync` with a plan | the daemon's collector and session |
| Configuration (`config.rs`, `validation.rs`, `raw.rs`, `load.rs`, `include.rs`, `subst.rs`, `envfile.rs`, `error.rs`) | none | parse, merge includes, substitute, validate | files in, configuration out |
| Daemon (`cli/daemon/*`) | pidfile and lock, socket, connections, session (registry, known names, watchers, reload lock), the file of hand-stopped services | come and go, accept, serve requests, stream events, reload, remember stops, shut down | clients over a socket, the stack over the control channel |
| Client and protocol (`cli/daemon/client.rs`, `src/crates/servicrab-protocol`) | none | send, subscribe; encode and decode frames | command line and daemon |
| Command line (`cli/main.rs`, `cli/commands/*`, `cli/output.rs`, `cli/style.rs`, `cli/wire.rs`) | none to speak of | parse arguments, drive one of the runners, wait, follow, print | everything |

What is hard here:

* every `select!` may pick any ready branch, and everything else runs between
  two awaits: an exit, a stop and a health verdict race in the runner; reports,
  commands, reloads and the shutdown race in the stack;
* a process group may outlive its leader, and a task may be aborted anywhere;
* slots are revived, retired and rewired by reloads while their old task still
  runs;
* probes outlive processes, relays outlive runs, writes outlive a daemon's lock;
* facts about a service travel on four channels (events, status, report, process
  group cell) and may be seen in different orders, and clients see them later
  still, through a lossy fan-out channel and a bounded number of connections;
* the pidfile, the socket and the log files are names that other processes look
  at between any two calls, and any of those calls may fail.

What makes each part correct is stated as properties below; PROJECT.json lists
the hazards at their lines, with the properties that guard against them.

## 2. The modules

    Lifecycle              pure: states, edges, policy, budget
      RestartTracker       decide() and the backoff arithmetic
        SupervisionProofs  (and of HealthRelay)
      ServiceContract      what one run of a service promises
        ServiceSpec        ... as a specification
      ServiceRunner        the supervision loop; implements ServiceSpec
        ServiceRunnerProofs
      Readiness            pure: the status dependents watch
        StackSupervisor    all services, over ServiceContract runs;
                           implements StackSpec
          StackSupervisorProofs
        HealthRelay        events, monitors, relays of one slot
          HealthMonitor    pure: the counting of a monitor
          SupervisionProofs
    StackContract          what the slots of a stack promise to its clients
      StackSpec            ... as a specification
      DaemonSession        clients, reloads, registry, the file of stopped services
        DaemonProofs       (and of DaemonDoor)
    EventChannel           senders and the allowance for log lines
    LogFiles               queue, writer, rotation, follower
      LogPipeline          senders, channel, collector and files together
        LogPipelineProofs
    DaemonDoor             pidfile, lock, socket, early signals, `start', `down'
      DaemonProofs
    FileWatch              scan, debounce, restart, rescan
      FileWatchProofs
    StatusStream           events, registry, fan-out, how a snapshot is read
      Connections          the daemon's and the client's end of a connection
        DaemonClients      `events', `start --wait', others, on one daemon
          DaemonClientsProofs
    Planning               pure: topological sort, plan, dependents
      CycleSearch          pure: the cycle that an error names
    ConfigValues           pure: references, env files, layers of environments
      ConfigFiles          pure: include trees and their merging
      ConfigFields         pure: the fields, their expansion and their limits
        ConfigValidation   pure: validate_raw
    DaemonPaths            pure: where a project's socket is
      ConfigLoad           load, validate, plan, locate, one step each
        ConfigLoadProofs

`MC*` modules hold the instances TLC checks.

**Lifecycle, RestartTracker.** `Edges` is `can_transition_to`; an edge that is
not there is an `InvalidTransition` error in the code. `Verdict` is `decide`
without the delay, `Decide` the whole handler. A run is `stable` when its uptime
reached `stable_after`. Shift width, factor width, largest `Duration` and
largest counter are constants, so that a small instance overflows each of them.

**ServiceContract, ServiceSpec.** One run as seen from outside: its announced
state, whether a stop was requested, whether a process of its group may be alive,
whether it is over. `Step` says how these may change: no process is started once
a stop was requested, the state moves on only when the group is empty, only a
requested stop ends in Stopped, an abort leaves no process. ServiceSpec is the
specification whose steps are exactly these; `ImplementsContract` is the
refinement `INSTANCE ServiceSpec WITH run <- view`.

**ServiceRunner.** `pc` is the await the task stands at, one action per branch
of the code between two awaits:

| Action | Code |
| --- | --- |
| `Check` | the top of the loop: read the shutdown channel, stop or announce Starting |
| `Spawn`, `SpawnFails` | `ProcessHandle::spawn` and its error arm |
| `WakeExited`, `WakeSignalled`, `WakeUnhealthy` | the three branches of `select!` |
| `StopExits`, `StopTimesOut`, `StopAgain`, `Reap` | `shutdown()`: the leader exits, the grace ends, a second request, the final wait |
| `Sweep`, `Judge` | `kill_group`; then drain, emit and decide |
| `BackoffElapses`, `BackoffInterrupted` | `wait_backoff` |
| `Cut` | an aborted task or a failed wait: `Drop` of the handle |
| `Request`, `LeaderExits`, `Fork`, `DescendantsExit`, `GiveUp` | the world: the shutdown channel, processes, the monitor |

The shutdown channel is a watch channel: a value (`asked`) and whether the
receiver has seen its last change (`unseen`); `changed()` in `shutdown()` reacts
to a change, everything else to the value. An exited leader stays a zombie until
the task reaps it. `strays` would be processes of an earlier group: the proof
shows there are none.

**Readiness, StackSupervisor.** `slots` is `RunState::slots`: `held` says that a
stop channel and a task handle are there, `restart` and `retired` are the flags
of the code, `pending` the command whose acknowledgement is owed. `tasks` are
the supervision tasks: the dependency edges still to wait for, the edges whose
channel was closed because their slot was removed, the contract run. Reload,
`stop_all`, the report arm and every command are one action each, with everything
they do to every slot. A command is sent and taken in one step: commands wait in
a queue that changes nothing, and one that is refused, or answered on the spot,
leaves no trace. `Starts` are the ways a stack is made: options, configuration and
the services held back; the program uses the daemon's options (kept running, never
aborting) and `up`'s. `Commanded` are the services that commands name. `SlotView`
maps the slots to StackSpec.

**HealthMonitor, HealthRelay.** One slot across several supervision runs and
several processes. Processes and runs are numbered, because a monitor outlives
its process while its probe is in flight, and a relay outlives its run while a
monitor holds a sender of its channel. `status` and `pgid` are the slot's, and
every relay writes them.

**StackContract, StackSpec, DaemonSession.** StackContract is a slot without its
task: what a command, a report, a reload and the end of the stack make of it.
`doing` is a client's connection task: queued (its command waits in the control
channel), taken (the slot owes it an acknowledgement), answered, recording (it
holds the lock of the stopped file, has read it and not yet replaced it). A
daemon is started, shut down and killed; the file is all that outlives it.
`Late(c)` is a write under way when the daemon let go of its lock: it ends in the
life of the next one. `word` is a history variable: the last thing a client was
told about a service is that it stopped, and the file says so. Requests that
arrive while the stack is stopping are left out, since they are refused; letting
them in adds no state.

**EventChannel, LogFiles, LogPipeline.** A step of EventChannel is one atomic
operation of `EventSender::send`: take a place in the allowance, give it back,
count the drop, look at the count, swap it, tell, send. LogFiles is the sink's
bounded queue, `pump()`, the writer with its buffer, and the files by name; a
rotation is one step per file system call, each of which may fail, because the
follower (`logs --follow`, another process) looks at the same names in between.
The writer's handle is a file and not a name, so it keeps writing to a file that
was renamed or unlinked, and of a line that goes to disk the beginning may be there
before the rest (`HalfLine`). What the follower reads begins at its offset, which in
a file that it does not know may be within a line: it then prints the rest of it.
LogPipeline joins all this with the daemon's collector.

**DaemonDoor.** `serve()` from exec to exit, call by call: claim the signals,
open the pidfile, lock it, check that it still has its name, write the pid, ask
whether the socket is alive, unlink, bind, install the handlers and feed them
the early signal, serve, close, unlink the socket and the pidfile, unlock.
`holder` and `pid` belong to files, `pidfile` and `socket` are names. Beside the
daemons there are `start`, which spawns one and watches its exit (and whether that
was a success), the pidfile and the socket until its time is up, `down`, signals and
SIGKILL.

**FileWatch.** A scan looks at one file at a time in the order of the walk, with
its limits on depth and entries, while files are written; `previous` is the
baseline, `changed` what the next restart is about. Writes come from anybody,
the service included. The stack answers a restart, refuses it or goes away.

**StatusStream, Connections, DaemonClients.** An event is known by its number, so
the registry is the fold of the ones applied (`Apply` is
`ServiceStatus::apply`) and a position in the fan-out channel is a number too.
Connections has both ends of a connection: `accept_loop` with its permits,
`admit` with the check of the peer, `handle_client` with its strikes, timeouts
and partial lines, `stream_events` with its lag; `client::send` and
`client::subscribe` with their timeouts. A socket holds `SocketBuffer` answers,
then a write waits. DaemonClients adds the commands: `events`, `start` with and
without names and `--wait`, a command of another user, and a program that writes
any line and need not read. What the followed service announces (`Announces`) is the
states of the supervision loop, one after the other (`Leads`), and the verdicts of its
monitors: a monitor probes until the loop goes round, the stop and the backoff
included (`Monitored`), and the probe that is in flight then may announce one verdict
more, in whatever state the service is by then.

**Planning, CycleSearch, Config\*, DaemonPaths, ConfigLoad.** Pure operators in
the order of the code; a service is a number, and a field is a key of a table. A
value is a word and pieces behind it: texts, escapes, references and their defaults,
whose own pieces come after the reference (its `span` says how many), so that values
of several references, and defaults in defaults, are sequences that one loop reads
(`Expansion`). It passes over the default of a variable that counts, faults included,
and ends at the first fault that it meets. Every loop of the code is a function from the
number of its turns to the state it has then, which keeps the order of the turns
and lets theorems reach it. Kahn's algorithm counts entries as the code does; its
queue is always sorted (`partition_point`), so it is a set whose head is the
smallest member. The recursions of `find_cycle` and of `include.rs` are loops over
their stack: the path of the search, the include lists under way. An include tree
is walked with canonical identities, as `include.rs` does.
`ConfigFields` knows every field, whether it is expanded and what its limits
are; `ConfigValidation` collects the same set of errors in the same order of
early exits. ConfigLoad runs these in steps so that what is refused, loaded,
planned and held back can be stated as invariants against reference definitions:
closures as sets, layers as the last assignment, cycles as paths.

## 3. The runs

| Run | Question | Result |
| --- | --- | --- |
| `runner` | no process outlives its run; only legal edges; a stop is not overtaken by a new process; every stop ends the run; ServiceSpec is implemented | holds, 60,023 states |
| `tracker` | the delays are the documented minimum; the budget is spent exactly | holds, 3,168 states |
| `stack` | the counter is exact, one run per service, dependents stop first (except a pair dropped together), nothing survives; StackSpec is implemented | holds, 893,261 states |
| `stack_live` | every command is answered, every shutdown ends | holds, 64,908 states |
| `health` | status and cell are truthful, a spent budget is announced, relays end | holds, 234,078 states |
| `session` | names and registry follow the stack; an answered stop is honoured by the next daemon | holds, 5,294,275 states |
| `logs` | every dropped line is told; files are in order and lose nothing silently; a follower prints a line once; the pipeline drains | holds, about 1.5 million states |
| `door` | one daemon at a time, reachable while it listens; `start` tells the truth; a signal ends a daemon | holds, 450,124 states |
| `watch` | a restart has a cause; a change that was seen, or that lasts, leads to a request | holds, 518,304 states |
| `config` | includes, values, soundness of what is loaded, plans, one socket per project | holds, 114,870 states |
| `clients` | no silent gap in a stream; a wait agrees with the events; a failure hides no answer; slots come back | holds, 236,574 states |
| `session_watch` | "A hand-stopped service stays stopped for as long as that daemon lives" (`src/README.md:1055`) | refuted |

`session_watch`: a watcher runs whether its service does or not, and a restart
of a service that is not running starts it. The file still names it as stopped.

### What the models show besides

These are behaviours of the code that the models take and no property forbids;
some are at odds with a sentence of the documentation.

* A reload changes a service and asks it to stop, with `restart_when_stopped`
  set and no pending acknowledgement. A Stop is accepted and does not clear the
  flag. When the task reports, the service is spawned again and the client is
  answered Restarted, as a success (`runtime/stack.rs:214` says "Answered once
  the service has actually stopped").
* `b` waits for `a` to become healthy; `a` is restarted. Its old run announces
  Stopped, `b` reads Stopped as final and is skipped, and `a` starts again a
  moment later.
* A reload drops `a`, whose stop takes its time. A second reload lists `a` as
  removed again and sends a second request; the runner escalates it to SIGKILL.
* A run ends while a probe is in flight. After two seconds its relay is detached
  and the report sent; the slot is spawned again and its status reset. The probe
  ends, and the old run's status is written over the new one's. This is the
  exception in `QuietMeansTruthful`.
* A stop is acknowledged and its connection task has read the file when the
  daemon ends. `serve` drops the lock, and the runtime, which waits for the write,
  only afterwards; the next daemon has recorded a stop of its own when the old
  one's version of the file is renamed into place, and the stop is lost
  (`cli/daemon/stopped.rs:15`: "One daemon at a time is the only writer"). This
  is the exception in `StopOutlivesDaemon`.
* A rotation between two polls of `logs --follow` may skip the lines that were
  written to the old file since the last poll. When the new file is by then longer
  than the offset in the old one, the follower goes on at that offset: it skips what
  is before it, and if the offset is within a line it prints the rest of that line as
  a line. `src/README.md:705` says that `logs -f` "notices rotation and keeps
  following the fresh file, prints each line once and whole", and the comment at
  `cli/commands/logs.rs:262` that it starts over "so nothing is skipped". What holds
  is that nothing is printed twice; `FollowPrintsOnce` counts a rest as its line.
* A reload drops a service and the one that depends on it, and a shutdown comes while
  both wind down. The reload has asked both to stop; `stop_all` then takes the services
  that are no longer planned in the order of their names (`runtime/stack.rs:858`), so
  the dependency may be waited for, and end, before its dependent. The comment at
  `runtime/stack.rs:848` says "Stop the stack in reverse dependency order, waiting for
  each service before moving on to the ones it depends on". `DependentsStopFirst`
  exempts the pair by name, and says that the dependency had been asked to stop before.
* `start` reads its child's pid in the pidfile; the child fails to bind, and leaves;
  another daemon takes the lock, serves, and answers the ping that comes next. `start`
  reports success for a child that has failed, in the case that the comment at
  `cli/commands/daemon.rs:221` is about: "a live socket alone proves nothing about the
  child we spawned" (the two looks are at `cli/commands/daemon.rs:252`). This is the
  second alternative in `StartTellsTheTruth`.
* A probe is in flight when its process ends, the service is started again, and the
  probe announces Healthy. The registry takes that verdict for the new process's, and
  once Running is announced `start --wait` calls it ready, although the comment at
  `runtime/status.rs:126` says "A service that is starting again has not proven itself
  yet". In the same way a late Unhealthy makes a service that has exited count as
  failed. `WaitAgreesWithTheEvents` says that the last verdict decides, and not whose
  it is.
* The comment at `subst.rs:225` says of the braces that a `$$` hides "does not count",
  but the loop passes over the two dollars only, and then counts the brace behind them:
  an escape in a default has to have a closing brace of its own. So have the escapes of
  the model's values.
* The drops of a flood of output that simply ends stay counted: a report goes
  out with a later event.
* A watcher's restart that is refused as busy is forgotten, and a file that
  changes between the acknowledgement and the new scan becomes the baseline.
* `daemon_is_ours` reads the pid out of the pidfile, which the comments at
  `cli/daemon/lock.rs:54` and `cli/daemon/paths.rs:48` call informational.
* `down` returns when a ping fails, which may be before the lock is released; a
  daemon that takes longer than `START_TIMEOUT` to come up is killed by `start`.
* A `restart_max_delay` below the default `restart_delay` is refused even when the
  latter was not written (`validation.rs:235`).
* A subscriber that hung up keeps its permit until the next event it wants; blank
  lines and pings keep a permit for ever; a write to a client that never reads
  has no timeout. A `--wait` poll that is refused for want of a permit ends the
  wait with an error. These are the exceptions in `SlotComesBack`.
* `start NAME --wait` may find the events of the previous run in the registry and
  answer from them; `WaitAgreesWithTheEvents` is about what was announced by then.
* A socket that has to move because its path is too long goes to a directory
  named by the environment of the command: commands with different variables
  disagree.

### Bounds, and why they are enough

* `runner`: all 4 policies, budgets unlimited and 1, no health check, one that
  is ignored and one that restarts; 2 reasons, so that a second request is
  different from the first; the attempt counter saturates at 2. The state space
  is finite without further bounds, so a run may be restarted without end. One
  flag stands for any number of descendants, since only their existence matters.
* `tracker`: a 5-bit shift and a 3-bit factor put every saturation within 14
  failures in a row; delays 1 to 2, ceilings 1 to 12 and budgets 0, 1, 2, 6 put
  the budget before, at and behind the saturation. The code's settings satisfy
  the same assumption: the ceiling is at most 24 hours and the delay at least
  100 ms, far below `u32::MAX` times the delay.
* `stack`: two services and one edge, waiting for health, are the smallest
  system with a dependent; a third service, on which nothing depends, keeps the plan
  from being empty when both are dropped (no command names it, `Commanded`). Five
  configurations drop and bring back either end or both and change the dependency; any
  number of commands and reloads may come, in any order, with both option sets, with
  and without services held back. More services reach many more states and no new
  kind of step: the slots interact through edges and through `stop_all`'s order only.
* `stack_live`: one edge on a started dependency, and one configuration to
  reload, which drops the dependency and so closes the channel its dependent waits
  on, keep the graph within what the liveness check can take.
* `health`: two processes in one or two runs are what it takes for a probe, a
  monitor and a relay to outlive their owner; two failures spend the budget and a
  ceiling below it exercises `max(retries)`; a third failure goes beyond it. A
  new probe waits while an event is queued (`QueueBound`), which keeps the
  channel finite: a queue of several probe results folds to the last of them.
* `session`: two clients are what a race takes; two services, one unless-stopped
  and one that depends on it, have a file that can lose a name; one configuration
  drops a service and changes the other. One event may wait (`EventBound`): the
  collector handles events one by one, whatever the length of the queue. While a
  write is late the next daemon is asked for no reload and its watcher is quiet
  (`NoneLate`): neither touches the file. The clients are symmetric.
* `logs`: four lines of two senders, an allowance of one, reports at two drops, a
  queue of one, a flush after two lines, files of two bytes with lines of one and
  two, so that a line fills a file alone; histories of 0, 1 and 2 files, as the
  loop over the old files is empty, short and longer; one call may fail
  (`FaultBound`), at any place.
* `door`: two daemons, each of which may come back any number of times, and one
  file more than daemons, so that a new pidfile may differ from every one still
  open; two rounds of `acquire`, so that the first may find its file replaced. A
  third daemon would be one more that fails to get the lock.
* `watch`: a source with two stamps and one that comes and goes, a file in an
  ignored directory and one too deep; at most two entries, so that a scan is cut
  short; two debounce rounds, so that the last one is reached with files still
  changing.
* `config`: families that put one part at its limits at a time: three files with
  an alias and every shape of include between them; all 4,096 graphs of four
  services; profiles and autostart over the acyclic graphs of three; each
  condition against each policy and check; each duration, size, address and count
  at, below and above its limits, as a word and as every form of reference, several in
  a value and defaults in defaults, needed or not, with and without a fault in them;
  environments set, empty and unset in five layers; commands of two projects, from
  several directories, with candidates of every kind. Larger inputs repeat these
  element by element, except graphs, where four nodes are enough for two paths
  that meet, and for a cycle with a tail.
* `clients`: one permit, one slot of backlog and one answer per socket make every
  limit bite at once; three malformed lines, so that a strike may be forgiven
  before the last one; six casts put those together that can influence each
  other (a subscriber; a command of another user and a program; a wait on a service
  that starts again while a verdict on its last process may still come, that has failed
  while it was stopped, or is asked for by name after it has ended).

Deadlock is checked in `runner`, where the request channel always allows a step.
The other models stop where the system does: a tracker that said stop, a stack
that returned, a service with no process left to start, a drained pipeline, a
watcher that is gone, a configuration that is loaded or refused. In `session`,
`door` and `clients` nothing has to happen while nobody runs a command.

### Fairness, and why the code justifies it

* `runner`: weak fairness on the task as a whole: tokio polls a ready task and
  fires its timers. Nothing is assumed of processes, probes or callers: the
  grace period ends whatever they do.
* `stack_live`: weak fairness on the loop's own steps, on each report (the
  reports are queued and `select!` is fair among ready branches) and on each
  task that has been asked to stop or whose dependencies decided. A run that
  nobody asked to stop may go on for ever. That an asked run ends is
  `ShutdownCompletes` of ServiceRunner.
* `health`: weak fairness on relays, on the report (the drain timeout fires) and
  on a monitor that finds its receiver gone. Ticks need not happen. That relays
  end assumes `ProbesEnd`, and a probe is bounded by `health.timeout`.
* `logs`: weak fairness on each sender, on the collector and on the blocking
  task: a file system call returns, with or without an error. The grace period of
  `serve()` (`GiveUp`) need not run out, and the follower need not look.
* `door`: weak fairness on each daemon's own steps. Signals, commands and
  `start` may or may not come.
* `watch`: weak fairness on the watcher (its sleeps end) and on the stack's
  answer, which is `CommandsAreAnswered`. Files change or not as they like.
* `clients`: weak fairness on the collector, on each connection task and on each
  call of servicrab's own client, whose reads time out. Programs, the supervisor
  and the operator are free.

## 4. The proofs

`ServiceRunnerProofs` proves for every set of service configurations, every set
of shutdown reasons and every counter width:

| Theorem | Statement |
| --- | --- |
| `TypeCorrect` | the type invariant |
| `NoOrphans` | `[]NoProcessOutlivesItsRun` |
| `RunnerImplementsContract` | `ServiceRunner` implements `ServiceSpec` under the mapping `view` |
| `TransitionsLegal` | only legal edges |
| `ShutdownNotOvertaken` | a stop is not overtaken by a new process |

Assumptions: the three named ASSUMEs of `ServiceRunner` on its constants. The
argument is one inductive invariant, `IInv`, of four parts. None of the
properties is inductive alone: that the group is empty when a new process is
spawned depends on what the sweep did five steps earlier. `StateAtPc` ties the
announced state to the program counter, `GroupAtPc` says at which awaits
processes may be alive and that the handle is unswept where `Drop` may be needed,
`StoppedAtPc` that a run on its way to Stopped was asked to stop. `NextIInv` has
one step per action. The contract follows step by step (`StepImplementsContract`),
and the legality of the edges follows from the contract (`StepLegal`) except for
the two that the contract does not single out.

`SupervisionProofs` has the tracker and the relay. Of the tracker it proves, for every width of the shift, the factor, the
duration and the counter, and every set of settings that validation lets through:

| Theorem | Statement |
| --- | --- |
| `TrackerTypeCorrect` | the type invariant |
| `BudgetExact` | `[]BudgetIsExact` |
| `BackoffDocumented` | `[]BackoffIsTheDocumentedMinimum` |

Assumption: `SettingsAssumption`, what `validation.rs` guarantees of a setting and
that `max_restarts` fits the counter (both are `u32`). The budget is about the
verdict just given; what carries it is `CounterIsHistory`, that the saturating
counter is the smaller of its ceiling and the number of failures since the last
stable run, so that a budget below the ceiling cannot be overlooked. The delay
rests on `BackoffIsExact`: where the shift, the cast or the multiplication
saturates, the exact product is already past the ceiling, because powers of two
grow (`Pow2Grows`) and the largest factor times the delay reaches
`restart_max_delay`. `Pow2` is a recursive function, since the provers know nothing
of exponentiation; that it exists and doubles is `Pow2Facts`.

`DaemonProofs` has the two halves of the daemon. Of its door it proves, for every number of daemons that come and go and every
number of rounds of `acquire()`:

| Theorem | Statement |
| --- | --- |
| `DoorTypeCorrect` | the type invariant |
| `OneDaemon` | `[]OneDaemonPerProject` |
| `Reachable` | `[]ServingIsReachable` |
| `StartIsTruthful` | `StartTellsTheTruth` |

Assumption: `DoorAssumption`, of which the part that matters is that there are
more files than daemons, so that open(2) always finds a new one to create
(`FreeFile`, by the pigeonhole theorem). Exclusion is not inductive: that two
daemons are never behind the check together rests on which file each has locked.
`LocksAtPlace` says that a lock is held exactly by the daemon that has the file
open and stands behind `flock`, and `IInv` adds that behind the check this file
has the pidfile's name; then both would hold the same lock (`Alone`). `StartInv`
says that a pid is only ever found in a file for a daemon that came past the
check, and that `start` pings only when it has seen its child's; an answer then
comes from a daemon that is alone behind the check, so the child is that daemon or has
left, which is what the two alternatives of `StartTellsTheTruth` say
(`StartStepTells`). A child whose exit was a success has served.

`StackSupervisorProofs` proves, for every finite set of services, every set of
configurations and both kinds of options:

| Theorem | Statement |
| --- | --- |
| `TypeCorrect` | the type invariant |
| `CounterStaysExact` | `[]CounterIsExact` |
| `SupervisorLeavesNothing` | `[]NothingSurvives` |
| `DependentsAreStoppedFirst` | `[]DependentsStopFirst` |
| `OneRunAtATime` | `OneRunPerService` |
| `StackImplementsContract` | `StackSupervisor` implements `StackSpec` under the mapping `SlotView` |

Assumptions: those on the starts and exits, that there are finitely many services
(the counter is a cardinality), and `ConfigsAssumption`, that a plan names
services, is closed under dependencies and has them before their dependents. The last
is what the planner returns: it is the theorem `PlanExact` below. `IInv` says that a
slot that is not there is empty, that the slots which are not retiring are those
the configuration plans (`SlotAt`), that only a live task has a run that has begun
and only a held slot a task (`TaskAt`), and that `running` is the number of held
slots. Behind `DependentsStopFirst` stands `StopAllAt`: whatever is held and is
neither queued nor awaited has ended; the queue has dependents first; what the
awaited service depends on is still queued. This is a fact about the plan in
force, and the slots of a service that a reload retired are in it too, which is why
`SlotAt` relates slots to the configuration at all. Of a pair that a reload dropped as
a whole nothing is known of the order; that its services had been asked to stop is
`Told`, which every step keeps because a run never takes a request back
(`AskedOnward`). The refinement goes action by
action; a reload is the only one that changes many slots at once, and StackSpec
allows exactly that change.

Of the relay and its monitors `SupervisionProofs` proves, for every number of processes, runs and retries and
channels of any length:

| Theorem | Statement |
| --- | --- |
| `TypeCorrect` | the type invariant |
| `QuietSlotIsTruthful` | `[]QuietMeansTruthful` |
| `BudgetIsAlwaysSpent` | `[]BudgetIsNeverSwallowed` |

Assumptions: the named ones on the counts, reasons and bounds. What is published
lags behind the truth by the events that wait, so the invariant says what a
channel *foretells*: the last event of each kind in it, or what is published when
there is none. That leads to the truth after every step (`RunAt`). A relay of an
earlier run may still write, but has no event left that writes the process group
cell (`RelayAt`). `CountsAt` is the budget: a monitor counts as far as its ceiling,
which is not below `retries`, and a streak that reached it has been announced.

Of the session `DaemonProofs` proves, for every set of services, clients and
configurations:

| Theorem | Statement |
| --- | --- |
| `TypeCorrect` | the type invariant |
| `SessionFollows` | `[]SessionFollowsStack` |
| `StopOutlives` | `StopOutlivesDaemon` |

Assumptions: a configuration plans services that it declares, and the names of
clients differ from the markers for the watcher and for nobody. `ReloadAt` says
what the slots plan at every moment of a reload: the previous configuration until
its answer is positive, the new one from then on. `Posted` and `PendingAt` say that
a waiting client has one message in the channel or one pending slot, and nobody
else's, so an answer reaches who asked. `FileAt` is the argument about the lock: a
service with a word stands in the file, and the holder of the lock has read the
file as it is, unless a late write of an earlier daemon took every word back. What
depends on a stopped service is the closure `WithDependents`, a recursive function:
what it contains is proved by induction (`WithDependentsFacts`).

`LogPipelineProofs` proves, for every number of senders and of lines, every
allowance, every size of a file and every length of the history:

| Theorem | Statement |
| --- | --- |
| `TypeCorrect` | the type invariant |
| `LossesAreTold` | `[]EveryLossIsTold` |
| `FilesKeepTheOrder` | `[]LogIsInOrder` |
| `LossesAreLoud` | `[]NothingIsLostSilently` |
| `FollowerRepeatsNothing` | `[]FollowPrintsOnce` |

Assumptions: those on the limits, that there are finitely many senders, that a line
takes at least a byte (its newline), and that the markers for an absent file and an
unlinked name are not among what they mark. The invariants build on each other.

1. `ChannelIInv`: a sum over the senders (`Sums`) says how many drops are in a
   report under way, so that dropped, reported and told drops add up to the lost
   lines; and the allowance has a place for every line on its way.
2. `TrailIInv`: a line is in one place, the sender, the channel, the collector or
   the accepted lines, so that none is accepted twice.
3. `FilesIInv`: the lines of the files from the oldest to the current one, of the
   writer's buffer, the line in hand and the queue are those of `accepted` in
   order. As long as no error was reported they are also without a gap (`SilentAt`):
   there are cuts of `accepted` at which one file ends and the next begins, and the
   oldest begins at zero unless every file that may be kept is there. A rotation
   moves an absent name through the history, which `Gap` names.
4. `FollowIInv`: the follower has printed only lines that the writer is done with;
   they are older than the buffer and than every line of the current file that
   begins at or behind its offset, or has it within. A file shorter than the offset is
   a new one, all of which is newer than what was printed.

`FileWatchProofs` proves, for every tree, every limit and every ignore rule:

| Theorem | Statement |
| --- | --- |
| `TypeCorrect` | the type invariant |
| `PendingRestartHasACause` | `[]RestartHasACause` |
| `RestartIsNeverIdle` | a restart is only requested with a seen file written since the baseline |

Assumption: `WatchAssumption`. A scan takes many steps and ends early at
`MAX_ENTRIES`; the invariant says what it has found so far as a function of the
disk (`ScannedTo`), that two scans of a disk at rest find the same even when both
are cut short (`ScansAgree`), and that with no seen file touched the scan under way
and the baseline are such scans. `RestartIsNeverIdle` is no property of a run: it
is what the invariant says at the moment of the request.

`DaemonClientsProofs` proves, for every set of clients of each kind, any number of
permits and places in a socket, any backlog, any history and any names:

| Theorem | Statement |
| --- | --- |
| `TypeCorrect` | the type invariant |
| `NoSilentGap` | `[]StreamHasNoSilentGap` |
| `WaitAgrees` | `[]WaitAgreesWithTheEvents` |
| `FailureIsUnanswered` | `FailureMeansNoAnswer` |

Assumptions: `StreamAssumption`, `ConnectionAssumption` and `ClientAssumption`: the
kinds of clients are disjoint, and every limit is at least one. What a subscriber is
owed is spread over what it heard, the socket and the line its task is writing.
Taken together they are its *trail*, and a trail only grows at the daemon's end;
writing, greeting and reading move items along it. So the argument about gaps is one
about sequences (`Sound`, `Accounts`): whatever is missing before an event of the
trail was told by a notice before it, and at the task's position in the fan-out
channel nothing is missing untold. A wait's call is fresh (`FreshAt`): whatever
answers it is a snapshot no older than the last start. That the registry's verdict is
the one of the announced events (`ReadinessIsAnnounced`) is the fold of `Apply` over
a prefix, by induction on its length, for any order of states and verdicts: it does not
rest on which of them `Announces` allows. `PermitsAt` is what types need: a permit is
free or with a connection that is served.

`ConfigLoadProofs` proves, for every family of files on disk, every environment,
every selection, every file system and every set of situations of commands on it:

| Theorem | Statement |
| --- | --- |
| `LoadInvariant` | `[]Loading`: each step has left behind what its function returns |
| `IncludesExact` | `[]IncludesAreExact` |
| `ValuesAsWritten` | `[]ValuesAreAsWritten` |
| `OneSocket` | `[]OneSocketPerProject` |
| `PlanExact` | `[]PlanIsExact` |
| `Loaded` | `[]LoadedConfigIsSound` |

Assumptions: `FieldAssumption` and `PathAssumption` on the tables that stand for
parsers and the file system, and `LoadAssumption`: what is on disk is what serde can
make of files, the process environment is a finite map of words, a command stands in
a real directory, and its configuration, which it has read, can be resolved. A load is
a sequence of function calls, so the content is in their loops. `Iterates` gives a loop as a function on the numbers of its turns,
and `Induction` what holds behind the last, both stated over sets, since the
library's induction theorems take an operator as a parameter.

* `Walking` is the invariant of the walk over the includes: each include entry that is
  behind it led to a file of its own (`CameBy`), of the lists under way the entries in
  front are behind it (`OnStack`), and the services are those of the files it has come
  to (`Gathered`). A turn takes an entry or leaves a file, and there are as many turns
  as entries and files, so the walk is over; without an error it has then come to the
  smallest closed set of files, by one entry each. A turn that fails finds an entry
  too many or a file that does not fit, so there is no tree (`WalkGoesOn`, `MergeEnds`).
* `Merging` adds to `Loading` what merge and expansion have left behind, so that a
  value can be traced from its file to the loaded configuration. In a tree a service
  has one file (`SourceIsDeclared`), every field that a table can hold has its line in
  `expand_raw`, and without an error each value stands for what the table of `subst.rs`
  says (`TableResolves`). A value is read piece by piece, past the defaults that are not
  needed, and the table counts a piece that is in no such default; that a loop which
  remembers one number passes over exactly these rests on their nesting
  (`CoversGoesOn`, `ValueReads`). So a configuration that is refused there has a value
  at fault (`RefusedForAFault`). The layers of an environment are a loop, and so is the row of
  their assignments; `LaysOut`, "what is left of these assignments made one after the
  other", is kept by every turn of both (`OverLays`, `LayersLayOut`). It is applied
  three times: to the lines of an env file, to the files of a table, to the five layers.
* `Sorting` is the invariant of Kahn's algorithm: an in-degree is the number of
  entries whose dependency is not scheduled, queue and order are exactly the services
  without such entries, and each service of the order is behind its dependencies. So
  what the order leaves out waits for others that it leaves out (`KahnRemains`).
* `Searching` is that of `find_cycle`: the path is a walk without repetition, what is
  finished has its dependencies finished, and no finished services all wait for one
  another. Every turn enters or leaves a service (`Turns`), so the search ends; it
  cannot end with everything finished, so it ends with a cycle, and that is a real one.
* `NeedsOf`: what is collected in as many turns as there are services is the smallest
  closed set; filtering the order keeps dependencies first (`PlansAreExact`), and one
  pass over such a plan finds all dependents (`HeldIsExact`).
* `ValidatedFacts`, `HealthIsSound`, `WatchIsSound` and `ServiceCanRun`: an empty set
  of errors means that each guard was passed, whatever the other fields are.
* `SocketsMeet`: commands of one project resolve to one directory (`normalize` on a
  path that resolves removes only what the file system would), and with the same
  candidates they take the same one or are turned away.

Each inductive invariant was checked with TLC on the instance of its component's
run before it was proved.

What stays with TLC:

* Liveness under fairness, which this version of the prover does not handle, and
  with it everything about ENABLED: `ShutdownCompletes`, `CommandsAreAnswered`,
  `ShutdownEnds`, `RelaysEnd`, `PipelineDrains`, `SignalEndsIt`,
  `SeenChangeIsActedOn`, `LastingChangeIsSeen`, `SlotComesBack`.

## 5. Not modelled

* Text: TOML, the grammar of names, times, sizes and addresses (tables in
  `MCConfig` stand for the parsers' results), the characters of a value (its pieces are
  what the brace counting and the name syntax of `subst.rs` make of them), the wording of errors, printing,
  JSON frames, generated unit files, completions, man pages. Sequential, and
  covered by unit tests.
* `up` and `run` beyond the options they give the stack, and the queries that
  only format what the session knows.
* The probes and the sockets' transport: I/O whose results are inputs of the
  models.
* Pids, uptimes, restart counters and messages in the status registry.
* Processes that leave their process group, and the reuse of a group id.
* Collisions of the 64-bit slug that names a moved socket (`cli/daemon/paths.rs:319`).
* Dependencies of the service that `start --wait` waits for, and so an ask that ends in
  Skipped: they are StackSupervisor's.
* Lengths of time, beyond which timer may fire at all.
* That the relay is never two seconds behind while it has events to relay
  (`DrainTimesOut`): the code treats it as impossible too, and says that losing
  the tail of the events would be cosmetic.
* The stubs for platforms other than Unix: they return an error.

## 6. Plan

1. Done: runner, tracker, contracts and their specifications, stack, readiness,
   monitors and relays; the daemon's session, door, connections and clients; the
   log pipeline; the file watcher; planning, configuration and paths; theorems on
   all of them.
2. Done: every invariant that a run checks is a theorem.
3. Models that are left: `exec` and `up` as programs of their own, and the queries of
   the daemon beyond `start --wait`.
