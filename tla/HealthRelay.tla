---------------------------- MODULE HealthRelay ----------------------------
(***************************************************************************)
(* How a dependent and the sweeper learn about one service: the runner and  *)
(* the health monitors of its processes emit events into the channel of the *)
(* current supervision run, and the run's relay task folds them into the    *)
(* readiness status and the process group cell of the slot (supervise_      *)
(* service in runtime/stack.rs, HealthMonitor::run in runtime/health.rs).   *)
(*                                                                          *)
(* A monitor outlives its process while a probe is in flight, and a relay   *)
(* outlives its run while a monitor holds a sender of its channel: both are *)
(* numbered, processes and runs alike.  The runner is ServiceRunner, reduced*)
(* to the events it emits; log lines change neither status nor cell.        *)
(***************************************************************************)
EXTENDS Readiness, HealthMonitor, Sequences

CONSTANTS
  Reasons,     \* how the service's processes exit by themselves
  ProcBound,   \* processes started
  RunBound,    \* supervision runs of the slot
  QueueBound   \* a probe starts while fewer events are waiting in its channel

ASSUME ReasonsAssumption == Reasons \subseteq OwnExits
ASSUME BoundsAssumption == ProcBound \in Nat /\ RunBound \in Nat \ {0} /\ QueueBound \in Nat

Procs == 1..ProcBound
RunIds == 1..RunBound

VARIABLES
  proc,      \* the process started last
  run,       \* the supervision run in charge
  state,     \* the last state its runner announced
  sent,      \* its report has been sent
  monitors,  \* one per process: none, idle, probing or done, and its counts
  channel,   \* the events of each run not relayed yet
  relay,     \* the relay task of each run: none, running or ended
  tracker,   \* the status each relay has folded
  status,    \* Slot::readiness
  pgid       \* Slot::pgid: the process whose group it names, or 0

vars == <<proc, run, state, sent, monitors, channel, relay, tracker, status, pgid>>

Event(kind, what) == [kind |-> kind, what |-> what, proc |-> proc]
Announced(s) == Event("state", s)
Emit(r, events) == channel' = [channel EXCEPT ![r] = @ \o events]

NoMonitor == [at |-> "none", run |-> 0, counts |-> NewCounts]

Over == state \in Terminal

\* The receiver a monitor reports to lives with the iteration of its process.
Open(k) == k = proc /\ state \in {"Running", "Stopping", "Backoff"}

Init ==
  /\ proc = 0 /\ run = 1 /\ state = "Pending" /\ sent = FALSE
  /\ monitors = [k \in Procs |-> NoMonitor]
  /\ channel = [r \in RunIds |-> <<>>]
  /\ relay = [r \in RunIds |-> IF r = 1 THEN "running" ELSE "none"]
  /\ tracker = [r \in RunIds |-> NewStatus]
  /\ status = NewStatus /\ pgid = 0
-----------------------------------------------------------------------------
(* The runner, and the events it emits.                                     *)

UnchangedByRunner == UNCHANGED <<run, sent, relay, tracker, status, pgid>>

Launch ==
  /\ state \in {"Pending", "Backoff"} /\ proc < ProcBound
  /\ proc' = proc + 1 /\ state' = "Running"
  /\ monitors' = [monitors EXCEPT ![proc + 1] = [@ EXCEPT !.at = "idle", !.run = run]]
  /\ Emit(run, << Announced("Starting"), Announced("Running"),
                  [Event("started", "") EXCEPT !.proc = proc + 1] >>)
  /\ UnchangedByRunner

BeginStop ==
  /\ state = "Running"
  /\ state' = "Stopping" /\ Emit(run, << Announced("Stopping") >>)
  /\ UNCHANGED <<proc, monitors>> /\ UnchangedByRunner

\* A process that was not stopped on request; the policy may give it up.
Exits(reason, next) ==
  /\ IF reason = "unhealthy"
     THEN state = "Stopping" /\ monitors[proc].counts.said = "unhealthy"
     ELSE state = "Running"
  /\ state' = next
  /\ Emit(run, << Event("exited", reason), Announced(next) >>
               \o IF next = "Exited" THEN << Event("finished", "") >> ELSE <<>>)
  /\ UNCHANGED <<proc, monitors>> /\ UnchangedByRunner

Stopped ==
  /\ state \in {"Pending", "Stopping", "Backoff"}
  /\ state' = "Stopped"
  /\ Emit(run, << Announced("Stopped") >>
               \o IF state = "Pending" THEN <<>> ELSE << Event("finished", "") >>)
  /\ UNCHANGED <<proc, monitors>> /\ UnchangedByRunner

\* The relay has ended, and every event of the run is in the status.
Drained == Over /\ ~sent /\ relay[run] = "ended"

\* RELAY_DRAIN_TIMEOUT: a relay with nothing to relay waits for a monitor that
\* still holds a sender.  That it is never two seconds behind is assumed.
DrainTimesOut == Over /\ ~sent /\ relay[run] = "running" /\ channel[run] = <<>>

Report ==
  /\ Drained \/ DrainTimesOut
  /\ sent' = TRUE /\ pgid' = 0
  /\ UNCHANGED <<proc, run, state, monitors, channel, relay, tracker, status>>

\* The slot is spawned again (Slot::spawn), with a channel and a relay of its own.
Respawn ==
  /\ sent /\ run < RunBound
  /\ run' = run + 1 /\ state' = "Pending" /\ sent' = FALSE
  /\ relay' = [relay EXCEPT ![run + 1] = "running"]
  /\ status' = NewStatus /\ pgid' = 0
  /\ UNCHANGED <<proc, monitors, channel, tracker>>
-----------------------------------------------------------------------------
(* The monitors.                                                            *)

UnchangedByMonitor == UNCHANGED <<proc, run, state, sent, relay, tracker, status, pgid>>

Tick(k) ==
  /\ monitors[k].at = "idle" /\ Open(k)
  /\ Len(channel[monitors[k].run]) < QueueBound
  /\ monitors' = [monitors EXCEPT ![k].at = "probing"]
  /\ UNCHANGED channel /\ UnchangedByMonitor

\* Mutant: only a send notices that nobody listens any more.
NoticesNothing(k) == FALSE

Notices(k) == monitors[k].at = "idle" /\ ~Open(k)

\* The monitor sees its receiver gone and lets go of its sender.
Leave(k) ==
  /\ Notices(k)
  /\ monitors' = [monitors EXCEPT ![k].at = "done"]
  /\ UNCHANGED channel /\ UnchangedByMonitor

\* A probe in flight finishes whatever became of its process; announcing to a
\* receiver that is gone ends the monitor.
Judged(k, counts) ==
  LET m    == monitors[k]
      news == News(m.counts, counts)
  IN  /\ monitors' = [monitors EXCEPT
                        ![k].counts = counts,
                        ![k].at = IF news # {} /\ ~Open(k) THEN "done" ELSE "idle"]
      /\ IF news = {} THEN UNCHANGED channel
         ELSE Emit(m.run, << [Event(CHOOSE n \in news : TRUE, "") EXCEPT !.proc = k] >>)
      /\ UnchangedByMonitor

ProbePasses(k) == monitors[k].at = "probing" /\ Judged(k, Passed(monitors[k].counts))

ProbeFails(k) ==
  /\ monitors[k].at = "probing" /\ monitors[k].counts.streak < StreakBound
  /\ Judged(k, Failed(monitors[k].counts))

ProbeFailsEarly(k) ==
  /\ monitors[k].at = "probing" /\ monitors[k].counts.grace
  /\ Judged(k, monitors[k].counts)
-----------------------------------------------------------------------------
(* The relays.                                                              *)

\* ReadinessTracker::observe.
Observe(st, e) ==
  CASE e.kind = "state"     -> ObserveState(st, e.what)
    [] e.kind = "healthy"   -> ObserveHealth(st, TRUE)
    [] e.kind = "unhealthy" -> ObserveHealth(st, FALSE)
    [] e.kind = "exited"    -> ObserveExit(st, e.what)
    [] OTHER                -> st

\* Mutant: only a run that finished gives its process group up.
PublishedUntilFinished(e) ==
  CASE e.kind = "started" -> e.proc
    [] e.kind = "finished" -> 0
    [] OTHER -> pgid

\* What the relay leaves in the process group cell.
Published(e) ==
  CASE e.kind = "started" -> e.proc
    [] e.kind \in {"exited", "finished"} -> 0
    [] OTHER -> pgid

Relay(r) ==
  /\ relay[r] = "running" /\ channel[r] # <<>>
  /\ LET e    == Head(channel[r])
         next == Observe(tracker[r], e)
     IN  /\ pgid' = Published(e)
         /\ tracker' = [tracker EXCEPT ![r] = next]
         /\ status' = IF next = tracker[r] THEN status ELSE next
  /\ channel' = [channel EXCEPT ![r] = Tail(@)]
  /\ UNCHANGED <<proc, run, state, sent, monitors, relay>>

\* The last sender of the channel is gone: the runner's and every monitor's.
RelayEnds(r) ==
  /\ relay[r] = "running" /\ channel[r] = <<>>
  /\ r < run \/ Over
  /\ \A k \in Procs : monitors[k].run = r => monitors[k].at = "done"
  /\ relay' = [relay EXCEPT ![r] = "ended"]
  /\ UNCHANGED <<proc, run, state, sent, monitors, channel, tracker, status, pgid>>
-----------------------------------------------------------------------------
Runner == \/ Launch \/ BeginStop \/ Stopped \/ Report \/ Respawn
          \/ \E reason \in Reasons, next \in {"Backoff", "Exited", "Failed"} :
               Exits(reason, next)
          \/ \E next \in {"Backoff", "Exited", "Failed"} : Exits("unhealthy", next)

Monitor(k) == Tick(k) \/ Leave(k) \/ ProbePasses(k) \/ ProbeFails(k) \/ ProbeFailsEarly(k)

Next == \/ Runner
        \/ \E k \in Procs : Monitor(k)
        \/ \E r \in RunIds : Relay(r) \/ RelayEnds(r)

\* Tasks are polled and the drain timeout fires; no process has to exit, and no
\* probe has to be started or to end.
Fairness ==
  /\ WF_vars(Report)
  /\ \A r \in RunIds : WF_vars(Relay(r) \/ RelayEnds(r))
  /\ \A k \in Procs : WF_vars(Leave(k))

\* A probe ends with health.timeout at the latest.
ProbesEnd ==
  \A k \in Procs : WF_vars(ProbePasses(k) \/ ProbeFails(k) \/ ProbeFailsEarly(k))

Spec == Init /\ [][Next]_vars /\ Fairness
-----------------------------------------------------------------------------
TypeOK ==
  /\ proc \in 0..ProcBound /\ run \in RunIds /\ state \in States /\ sent \in BOOLEAN
  /\ \A k \in Procs : /\ monitors[k].at \in {"none", "idle", "probing", "done"}
                      /\ monitors[k].run \in 0..RunBound
                      /\ monitors[k].counts.failed \in 0..Ceiling
  /\ \A r \in RunIds : relay[r] \in {"none", "running", "ended"} /\ tracker[r] \in Statuses
  /\ status \in Statuses /\ pgid \in 0..ProcBound

\* When nothing is left to relay, the status tells the state of the service,
\* unless it is the last word of a relay whose run is over,
\* and the cell names the live process group, which is the one that sweep_group
\* would signal, and never any other.
QuietMeansTruthful ==
  channel[run] = <<>> =>
    /\ status.state = state \/ \E r \in RunIds : r < run /\ status = tracker[r]
    /\ pgid = IF state \in {"Running", "Stopping"} THEN proc ELSE 0

\* A relay whose run is over ends, and the channel with it: no task is leaked by
\* a restart, however slow the probe that was in flight.
RelaysEnd ==
  ProbesEnd => \A r \in RunIds : (relay[r] = "running" /\ r < run) ~> (relay[r] = "ended")

\* Spending the budget is never swallowed by the ceiling of the counter: after
\* `retries' failures in a row the service has been declared unhealthy.
BudgetIsNeverSwallowed ==
  \A k \in Procs : monitors[k].counts.streak >= Retries =>
                     ~monitors[k].counts.ready /\ monitors[k].counts.said = "unhealthy"
=============================================================================
