----------------------------- MODULE Readiness -----------------------------
(***************************************************************************)
(* DependencyStatus and ReadinessTracker of runtime/stack.rs: the facts a   *)
(* service's own event stream gives about it, and what they say to a        *)
(* dependent that waits for one of the three conditions of depends_on.      *)
(***************************************************************************)
EXTENDS Lifecycle

Conditions == {"started", "healthy", "completed"}

Statuses == [state : States, healthy : BOOLEAN, unhealthy : BOOLEAN,
             exitedOk : BOOLEAN, gone : BOOLEAN]

NewStatus == [state |-> "Pending", healthy |-> FALSE, unhealthy |-> FALSE,
              exitedOk |-> FALSE, gone |-> FALSE]

\* publish_stopped: what a service that is not started reports of itself.
StoppedStatus == [NewStatus EXCEPT !.state = "Stopped"]

\* EventKind::State: a new process has to prove itself healthy again.
ObserveState(status, s) ==
  IF s = "Starting"
  THEN [status EXCEPT !.state = s, !.healthy = FALSE, !.unhealthy = FALSE]
  ELSE [status EXCEPT !.state = s]

\* EventKind::Healthy and EventKind::Unhealthy.
ObserveHealth(status, ok) == [status EXCEPT !.healthy = ok, !.unhealthy = ~ok]

\* EventKind::Exited.
ObserveExit(status, reason) ==
  [status EXCEPT !.exitedOk = (reason = "success"),
                 !.unhealthy = @ \/ reason = "unhealthy"]

\* DependencyStatus::readiness.
ReadinessOf(status, condition) ==
  CASE status.gone -> "gone"
    [] ~status.gone /\ status.state = "Exited" ->
         IF IF condition = "completed" THEN status.exitedOk ELSE ~status.unhealthy
         THEN "ready" ELSE "gone"
    [] ~status.gone /\ status.state \in {"Failed", "Stopped"} -> "gone"
    [] ~status.gone /\ status.state = "Running" ->
         IF condition = "started" \/ (condition = "healthy" /\ status.healthy)
         THEN "ready" ELSE "pending"
    [] OTHER -> "pending"
=============================================================================
