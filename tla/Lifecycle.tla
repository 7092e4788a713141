----------------------------- MODULE Lifecycle -----------------------------
(***************************************************************************)
(* The pure half of servicrab-core/src/lifecycle.rs: the states a service  *)
(* can be in, the edges between them, and what the restart policy says     *)
(* after a process run.  No state of its own: ServiceRunner, RestartTracker*)
(* and StackSupervisor are built from these operators.                     *)
(***************************************************************************)
EXTENDS Naturals

States == {"Pending", "Starting", "Running", "Backoff", "Stopping",
           "Stopped", "Exited", "Failed"}

Terminal == {"Stopped", "Exited", "Failed"}

\* Mutant: a process stopped for being unhealthy may not be restarted.
EdgesWithoutUnhealthy ==
         ({"Pending"}  \X {"Starting", "Stopped"}) \cup
         ({"Starting"} \X {"Running", "Backoff", "Exited", "Failed", "Stopping"}) \cup
         ({"Running"}  \X {"Stopping", "Backoff", "Exited", "Failed"}) \cup
         ({"Backoff"}  \X {"Starting", "Stopped", "Failed"}) \cup
         ({"Stopping"} \X {"Stopped", "Exited", "Failed"})

\* The edges StateMachine::try_transition accepts; any other is an
\* InvalidTransition error that ends the run.
Edges == ({"Pending"}  \X {"Starting", "Stopped"}) \cup
         ({"Starting"} \X {"Running", "Backoff", "Exited", "Failed", "Stopping"}) \cup
         ({"Running"}  \X {"Stopping", "Backoff", "Exited", "Failed"}) \cup
         ({"Backoff"}  \X {"Starting", "Stopped", "Failed"}) \cup
         ({"Stopping"} \X {"Backoff", "Stopped", "Exited", "Failed"})

CanTransition(from, to) == <<from, to>> \in Edges

-----------------------------------------------------------------------------
(* How a process run ended.  Codes and signal numbers matter only as        *)
(* success, failure and signal.                                             *)
OwnExits == {"success", "code", "signal"}
ExitReasons == OwnExits \cup {"spawn_retryable", "spawn_fatal", "unhealthy"}

Policies == {"never", "on_failure", "always", "unless_stopped"}

ShouldRestart(policy, reason) ==
  /\ policy # "never"
  /\ reason # "spawn_fatal"
  /\ policy = "on_failure" => reason # "success"

\* Mutant: one restart too many.
BudgetOffByOne(maxRestarts, attempts) == maxRestarts = 0 \/ attempts <= maxRestarts

\* max_restarts = 0 is an unlimited budget.
BudgetLeft(maxRestarts, attempts) == maxRestarts = 0 \/ attempts < maxRestarts

\* A run of at least stable_after gives the service a fresh budget.
AttemptsAfter(attempts, stable) == IF stable THEN 0 ELSE attempts

\* The verdict on a run; `attempts' is the counter AttemptsAfter returned.
Verdict(policy, maxRestarts, attempts, reason) ==
  IF ~ShouldRestart(policy, reason) THEN "stop"
  ELSE IF BudgetLeft(maxRestarts, attempts) THEN "restart" ELSE "fail"

\* u32::saturating_add(1), with `top' for u32::MAX.
SaturatingInc(n, top) == IF n < top THEN n + 1 ELSE n
=============================================================================
