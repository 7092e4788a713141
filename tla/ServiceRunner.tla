--------------------------- MODULE ServiceRunner ---------------------------
(***************************************************************************)
(* ServiceRunner::run of servicrab-core/src/runtime/unix.rs: the loop that  *)
(* supervises one service.  `pc' names the await (or, for "spawn", the      *)
(* stretch of code up to the next await) the task is at; between two awaits *)
(* other tasks and the kernel interleave: the shutdown channel is written,  *)
(* the health monitor gives up, processes fork and exit.                    *)
(*                                                                          *)
(*   check     top of the loop: borrow_and_update of the shutdown channel   *)
(*   spawn     the shutdown was not requested; the process is being started *)
(*   wait      select! on exit, shutdown and health                         *)
(*   stopping  shutdown(): the signal is sent, the grace period runs        *)
(*   killed    shutdown(): SIGKILL is sent, wait() for the leader           *)
(*   sweep     the leader is reaped, kill_group is next                     *)
(*   drain     drain_readers, then the outcome is decided                   *)
(*   backoff   wait_backoff                                                 *)
(*   done      run has returned                                             *)
(*                                                                          *)
(* Abstracted: what the process prints, its environment, the length of the  *)
(* delays (RestartTracker), the restart count that is only reported, and    *)
(* processes that leave their process group.                                *)
(***************************************************************************)
EXTENDS Lifecycle

CONSTANTS
  Services,    \* the [restart, maxRestarts, onUnhealthy] configurations
  Reasons,     \* shutdown reasons a caller may send
  AttemptTop,  \* u32::MAX for the attempt counter
  NoReason     \* None in the shutdown channel

ASSUME ServicesAssumption ==
  \A s \in Services : /\ s.restart \in Policies
                      /\ s.maxRestarts \in Nat
                      /\ s.onUnhealthy \in {"none", "ignore", "restart"}
ASSUME AttemptTopAssumption == AttemptTop \in Nat
ASSUME NoReasonAssumption == NoReason \notin Reasons

VARIABLES
  service,      \* the validated settings; never changes during a run
  pc,
  state,        \* StateMachine::state
  attempts,     \* RestartTracker::attempts
  asked,        \* the value in the shutdown channel
  unseen,       \* the receiver has not seen the channel's last value
  health,       \* the monitor: off, probing, or gaveup once it signalled Unhealthy
  leader,       \* the direct child: none, alive, or a zombie until it is reaped
  exit,         \* how the leader exited
  descendants,  \* some other process of the current group is alive
  strays,       \* some process of an earlier run's group is alive
  swept,        \* ProcessHandle::swept
  outcome,      \* reason and stopped_by of the run that ended
  result        \* what run() returned

channel == <<asked, unseen>>
processes == <<leader, exit, descendants, strays, swept>>
vars == <<service, pc, state, attempts, channel, health, processes, outcome, result>>

Init ==
  /\ service \in Services
  /\ pc = "check" /\ state = "Pending" /\ attempts = 0
  /\ asked = NoReason /\ unseen = FALSE
  /\ health = "off"
  /\ leader = "none" /\ exit = "success" /\ descendants = FALSE /\ strays = FALSE
  /\ swept = FALSE
  /\ outcome = [reason |-> "success", stopped |-> FALSE, stable |-> FALSE]
  /\ result = "none"
-----------------------------------------------------------------------------
(* The world around the task.                                              *)

\* ShutdownTx::send: the slot's stop channel, or a signal.
Request(reason) ==
  /\ asked' = reason /\ unseen' = TRUE
  /\ UNCHANGED <<service, pc, state, attempts, health, processes, outcome, result>>

LeaderExits(reason) ==
  /\ leader = "alive"
  /\ leader' = "zombie" /\ exit' = reason
  /\ UNCHANGED <<service, pc, state, attempts, channel, health, descendants, strays,
                 swept, outcome, result>>

\* Any live member of the group may fork another.
Fork ==
  /\ leader = "alive" /\ ~descendants
  /\ descendants' = TRUE
  /\ UNCHANGED <<service, pc, state, attempts, channel, health, leader, exit, strays,
                 swept, outcome, result>>

DescendantsExit ==
  /\ descendants
  /\ descendants' = FALSE
  /\ UNCHANGED <<service, pc, state, attempts, channel, health, leader, exit, strays,
                 swept, outcome, result>>

\* The monitor counted `retries' failures (HealthMonitor): the signal stays in
\* the channel until the iteration that owns the receiver ends.
GiveUp ==
  /\ health = "probing"
  /\ health' = "gaveup"
  /\ UNCHANGED <<service, pc, state, attempts, channel, processes, outcome, result>>
-----------------------------------------------------------------------------
(* killpg(SIGKILL): no member of the group survives it; the leader stays a *)
(* zombie until it is reaped.                                              *)
KillGroup ==
  /\ leader' = IF leader = "alive" THEN "zombie" ELSE leader
  /\ exit' = IF leader = "alive" THEN "signal" ELSE exit
  /\ descendants' = FALSE
  /\ UNCHANGED strays

Return(what) == pc' = "done" /\ result' = what

(* The end of a run: what the policy says, and the transition it makes.    *)
Conclude(reason, fresh, next) ==
  LET verdict == Verdict(service.restart, service.maxRestarts, fresh, reason)
  IN  CASE verdict = "restart" -> /\ state' = "Backoff" /\ pc' = next
                                  /\ attempts' = SaturatingInc(fresh, AttemptTop)
                                  /\ UNCHANGED result
        [] verdict = "stop" /\ reason \in ExitReasons \ {"spawn_retryable", "spawn_fatal"} ->
             /\ state' = "Exited" /\ attempts' = fresh /\ Return("exited")
        [] OTHER -> /\ state' = "Failed" /\ attempts' = fresh /\ Return("failed")

\* Mutant: the request is looked for by change, not by value.
CheckStopsIfChanged == unseen

\* Whether the value read at the top of the loop ends it.
CheckStops == asked # NoReason

Check ==
  /\ pc = "check"
  /\ unseen' = FALSE /\ UNCHANGED asked
  /\ IF CheckStops
     THEN state' = "Stopped" /\ Return("stopped")
     ELSE state' = "Starting" /\ pc' = "spawn" /\ UNCHANGED result
  /\ UNCHANGED <<service, attempts, health, processes, outcome>>

\* A new handle, a new group, a new monitor.  What is left of the previous
\* group, if anything, is out of the handle's reach from here on.
Spawn ==
  /\ pc = "spawn"
  /\ strays' = (strays \/ descendants \/ leader = "alive")
  /\ leader' = "alive" /\ descendants' = FALSE /\ swept' = FALSE
  /\ health' = IF service.onUnhealthy = "none" THEN "off" ELSE "probing"
  /\ state' = "Running" /\ pc' = "wait"
  /\ UNCHANGED <<service, attempts, channel, exit, outcome, result>>

\* spawn() fails: a zero uptime never counts as stable.
SpawnFails(reason) ==
  /\ pc = "spawn"
  /\ Conclude(reason, attempts, "backoff")
  /\ UNCHANGED <<service, channel, health, processes, outcome>>

\* The three branches of the select!; when several are ready any may win.
WakeExited ==
  /\ pc = "wait" /\ leader = "zombie"
  /\ leader' = "none" /\ pc' = "sweep"
  /\ outcome' = [outcome EXCEPT !.reason = exit, !.stopped = FALSE]
  /\ UNCHANGED <<service, state, attempts, channel, health, exit, descendants, strays,
                 swept, result>>

WakeSignalled ==
  /\ pc = "wait" /\ asked # NoReason
  /\ unseen' = FALSE /\ UNCHANGED asked
  /\ state' = "Stopping" /\ pc' = "stopping"
  /\ outcome' = [outcome EXCEPT !.stopped = TRUE]
  /\ UNCHANGED <<service, attempts, health, processes, result>>

WakeUnhealthy ==
  /\ pc = "wait" /\ health = "gaveup" /\ service.onUnhealthy = "restart"
  /\ state' = "Stopping" /\ pc' = "stopping"
  /\ outcome' = [outcome EXCEPT !.reason = "unhealthy", !.stopped = FALSE]
  /\ UNCHANGED <<service, attempts, channel, health, processes, result>>

\* shutdown(): the group was signalled on entry; what it does with the signal
\* is its own affair (LeaderExits, DescendantsExit, or nothing).
StopExits ==
  /\ pc = "stopping" /\ leader = "zombie"
  /\ leader' = "none" /\ pc' = "sweep"
  /\ UNCHANGED <<service, state, attempts, channel, health, exit, descendants, strays,
                 swept, outcome, result>>

\* Mutant: the escalation is logged and not carried out.
StopTimesOutSilently ==
  /\ pc = "stopping"
  /\ swept' = TRUE /\ pc' = "killed"
  /\ UNCHANGED <<service, state, attempts, channel, health, leader, exit, descendants,
                 strays, outcome, result>>

StopTimesOut ==
  /\ pc = "stopping"
  /\ KillGroup /\ swept' = TRUE /\ pc' = "killed"
  /\ UNCHANGED <<service, state, attempts, channel, health, outcome, result>>

\* Any change of the channel since it was last looked at escalates at once.
StopAgain ==
  /\ pc = "stopping" /\ unseen
  /\ unseen' = FALSE /\ UNCHANGED asked
  /\ KillGroup /\ swept' = TRUE /\ pc' = "killed"
  /\ UNCHANGED <<service, state, attempts, health, outcome, result>>

Reap ==
  /\ pc = "killed" /\ leader = "zombie"
  /\ leader' = "none" /\ pc' = "sweep"
  /\ UNCHANGED <<service, state, attempts, channel, health, exit, descendants, strays,
                 swept, outcome, result>>

\* Mutant: only the leader's death is awaited, nobody kills the rest.
SweepSkipped ==
  /\ pc = "sweep" /\ swept' = TRUE /\ pc' = "drain"
  /\ UNCHANGED <<service, state, attempts, channel, health, leader, exit, descendants,
                 strays, outcome, result>>

\* The uptime is read here: the run was stable or it was not.
Sweep ==
  /\ pc = "sweep"
  /\ KillGroup /\ swept' = TRUE /\ pc' = "drain"
  /\ \E stable \in BOOLEAN : outcome' = [outcome EXCEPT !.stable = stable]
  /\ UNCHANGED <<service, state, attempts, channel, health, result>>

\* drain_readers is over (it bounds its own wait), and the run is judged.  The
\* handle is dropped with the iteration; the monitor lives through the backoff.
Judge ==
  /\ pc = "drain"
  /\ IF outcome.stopped
     THEN state' = "Stopped" /\ Return("stopped") /\ UNCHANGED attempts
     ELSE Conclude(outcome.reason, AttemptsAfter(attempts, outcome.stable), "backoff")
  /\ health' = IF pc' = "done" THEN "off" ELSE health
  /\ UNCHANGED <<service, channel, processes, outcome>>

\* Mutant: the next process is started without another look at the channel.
BackoffElapsesUnchecked ==
  /\ pc = "backoff"
  /\ pc' = "spawn" /\ state' = "Starting" /\ health' = "off"
  /\ UNCHANGED <<service, attempts, channel, processes, outcome, result>>

BackoffElapses ==
  /\ pc = "backoff"
  /\ pc' = "check" /\ health' = "off"
  /\ UNCHANGED <<service, state, attempts, channel, processes, outcome, result>>

BackoffInterrupted ==
  /\ pc = "backoff" /\ asked # NoReason
  /\ unseen' = FALSE /\ UNCHANGED asked
  /\ state' = "Stopped" /\ Return("stopped") /\ health' = "off"
  /\ UNCHANGED <<service, attempts, processes, outcome>>

\* The task is aborted at an await, or the wait for the child fails: the handle
\* is dropped, and its Drop sweeps a group nobody has swept (kill_on_drop reaps
\* the leader).  An aborted task has no result, a failed wait returns an error.
Cut ==
  /\ pc \in {"wait", "stopping", "killed", "drain", "backoff"}
  /\ IF swept THEN UNCHANGED descendants ELSE descendants' = FALSE
  /\ leader' = "none" /\ swept' = TRUE
  /\ Return("error") /\ health' = "off"
  /\ UNCHANGED <<service, state, attempts, channel, exit, strays, outcome>>
-----------------------------------------------------------------------------
Task == \/ Check \/ Spawn \/ WakeExited \/ WakeSignalled \/ WakeUnhealthy
        \/ StopExits \/ StopTimesOut \/ StopAgain \/ Reap \/ Sweep \/ Judge
        \/ BackoffElapses \/ BackoffInterrupted
        \/ \E reason \in {"spawn_retryable", "spawn_fatal"} : SpawnFails(reason)

World == \/ \E reason \in Reasons : Request(reason)
         \/ \E reason \in OwnExits : LeaderExits(reason)
         \/ Fork \/ DescendantsExit \/ GiveUp

Next == Task \/ World \/ Cut

\* The runtime keeps polling the task and its timers fire; nothing is assumed
\* of the processes, the health check or the callers.
Spec == Init /\ [][Next]_vars /\ WF_vars(Task)
-----------------------------------------------------------------------------
TypeOK ==
  /\ service \in Services
  /\ pc \in {"check", "spawn", "wait", "stopping", "killed", "sweep", "drain", "backoff",
            "done"}
  /\ state \in States
  /\ attempts \in 0..AttemptTop
  /\ asked \in Reasons \cup {NoReason} /\ unseen \in BOOLEAN
  /\ health \in {"off", "probing", "gaveup"}
  /\ leader \in {"none", "alive", "zombie"} /\ exit \in OwnExits
  /\ descendants \in BOOLEAN /\ strays \in BOOLEAN /\ swept \in BOOLEAN
  /\ outcome \in [reason : ExitReasons, stopped : BOOLEAN, stable : BOOLEAN]
  /\ result \in {"none", "stopped", "exited", "failed", "error"}

\* No process group of ours outlives its handle (ProcessHandle's Drop): when
\* the announced state is not Running or Stopping, and whenever the run is over
\* however it ended, no process of this or of any earlier group is alive.
NoProcessOutlivesItsRun ==
  /\ ~strays
  /\ (state \notin {"Running", "Stopping"} \/ pc = "done") =>
        leader = "none" /\ ~descendants

\* run() never asks the state machine for an edge it rejects: the error path
\* InvalidTransition is dead, on every interleaving of exits, health and stops.
OnlyLegalTransitions == [][state' # state => CanTransition(state, state')]_vars

\* "A shutdown that arrived before (or during) the backoff must not be overtaken
\* by a new process": with a request standing in the channel, seen or not, the
\* loop never gets from its top to another spawn.
NotOvertaken == [][asked # NoReason => (pc' = "spawn" => pc = "spawn")]_vars

\* Every requested shutdown ends the run, whatever the processes do with the
\* signal, in whatever await the request found the task.
ShutdownCompletes == (asked # NoReason) ~> (pc = "done")

\* What the rest of the system sees of a run.
view == [state |-> state, asked |-> asked # NoReason,
         live  |-> leader # "none" \/ descendants \/ strays,
         over  |-> pc = "done"]

Contract == INSTANCE ServiceSpec WITH run <- view

\* run() implements ServiceSpec, on which StackSupervisor is built: no process is
\* started once a stop was asked for, the state moves on only when the group is empty,
\* only a requested stop ends in Stopped, and an abort leaves no process.
ImplementsContract == Contract!Spec
=============================================================================
