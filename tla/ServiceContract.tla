-------------------------- MODULE ServiceContract --------------------------
(***************************************************************************)
(* What one supervised service promises the rest of the system, whatever    *)
(* its policy, health check or processes do: ServiceRunner implements it.   *)
(*                                                                          *)
(* A run of the service is a record:                                        *)
(*   state  the ServiceState its last State event announced;                *)
(*   asked  a shutdown reason stands in its shutdown channel;               *)
(*   live   some process of its process group may be alive;                 *)
(*   over   the run has returned (or its task was aborted).                 *)
(***************************************************************************)
EXTENDS Lifecycle

Runs == [state : States, asked : BOOLEAN, live : BOOLEAN, over : BOOLEAN]

Fresh == [state |-> "Pending", asked |-> FALSE, live |-> FALSE, over |-> FALSE]

Ask(r, q) == q.asked /\ q.state = r.state /\ q.live = r.live /\ q.over = r.over

\* A process is attempted only by a run nobody has asked to stop.
Launch(r, q) ==
  /\ r.state \in {"Pending", "Backoff"} /\ ~r.asked /\ ~r.over
  /\ q.state = "Starting" /\ ~q.asked /\ q.live = r.live /\ ~q.over

Come(r, q) ==
  /\ r.state = "Starting" /\ ~r.over
  /\ q.state = "Running" /\ q.asked = r.asked /\ q.live /\ ~q.over

WindDown(r, q) ==
  /\ r.state = "Running" /\ ~r.over
  /\ q.state = "Stopping" /\ q.asked = r.asked /\ q.live = r.live /\ ~q.over

Die(r, q) == /\ r.live
             /\ ~q.live /\ q.state = r.state /\ q.asked = r.asked /\ q.over = r.over

\* Only an empty process group lets the state move on, only a shutdown that
\* was asked for ends in Stopped, and the run is over with a terminal state.
Settle(r, q) ==
  /\ ~r.over /\ ~r.live
  /\ q.state \in Terminal \cup {"Backoff"} /\ CanTransition(r.state, q.state)
  /\ q.state = "Stopped" => r.asked
  /\ q.asked = r.asked /\ ~q.live /\ q.over = (q.state \in Terminal)

\* The task is aborted, or waiting for the child fails: the handle's Drop has
\* swept the group, and no event says so.
Cut(r, q) == /\ ~r.over
             /\ q.over /\ ~q.live /\ q.state = r.state /\ q.asked = r.asked

Step(r, q) == /\ q \in Runs
              /\ \/ Ask(r, q) \/ Launch(r, q) \/ Come(r, q) \/ WindDown(r, q)
                 \/ Die(r, q) \/ Settle(r, q) \/ Cut(r, q)
=============================================================================
