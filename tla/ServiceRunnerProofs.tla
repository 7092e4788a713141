------------------------ MODULE ServiceRunnerProofs ------------------------
(***************************************************************************)
(* Theorems about ServiceRunner, for every set of service configurations,   *)
(* of shutdown reasons and every counter width.                             *)
(***************************************************************************)
EXTENDS ServiceRunner, TLAPS

\* What the program counter says of the announced state, of the process group
\* and of the handle: the strengthening that makes the safety properties
\* inductive.
StateAtPc ==
  /\ pc = "check" => state \in {"Pending", "Backoff"}
  /\ pc = "spawn" => state = "Starting"
  /\ pc = "wait" => state = "Running"
  /\ pc \in {"stopping", "killed"} => state = "Stopping"
  /\ pc \in {"sweep", "drain"} => state \in {"Running", "Stopping"}
  /\ pc = "backoff" => state = "Backoff"

GroupAtPc ==
  /\ ~strays
  /\ pc \in {"check", "spawn", "drain", "backoff", "done"} => leader = "none" /\ ~descendants
  /\ pc = "killed" => leader = "zombie" /\ ~descendants
  /\ pc = "sweep" => leader = "none"
  /\ pc \in {"wait", "stopping"} => leader # "none" /\ ~swept

\* A run is only on its way to Stopped because somebody asked.
StoppedAtPc ==
  (pc \in {"stopping", "killed", "sweep", "drain"} /\ outcome.stopped) =>
     asked # NoReason /\ state = "Stopping"

IInv == TypeOK /\ StateAtPc /\ GroupAtPc /\ StoppedAtPc

-----------------------------------------------------------------------------
(* Conclude keeps the counter in range and leaves for a backoff, or returns. *)
LEMMA ConcludeFacts ==
  ASSUME NEW reason \in ExitReasons, NEW fresh \in 0..AttemptTop,
         Conclude(reason, fresh, "backoff")
  PROVE  /\ attempts' \in 0..AttemptTop
         /\ \/ pc' = "backoff" /\ state' = "Backoff" /\ result' = result
            \/ pc' = "done" /\ state' \in {"Exited", "Failed"} /\ result' \in {"exited", "failed"}
         /\ state' = "Exited" => reason \notin {"spawn_retryable", "spawn_fatal"}
<1> DEFINE verdict == Verdict(service.restart, service.maxRestarts, fresh, reason)
<1>1. CASE verdict = "restart"
  <2>1. state' = "Backoff" /\ pc' = "backoff" /\ result' = result
        /\ attempts' = SaturatingInc(fresh, AttemptTop)
    BY <1>1 DEF Conclude
  <2> QED BY <2>1, AttemptTopAssumption DEF SaturatingInc
<1>2. CASE verdict # "restart"
  <2>1. pc' = "done" /\ state' \in {"Exited", "Failed"} /\ result' \in {"exited", "failed"}
        /\ attempts' = fresh
        /\ (state' = "Exited" => reason \notin {"spawn_retryable", "spawn_fatal"})
    BY <1>2 DEF Conclude, Return
  <2> QED BY <2>1
<1> QED BY <1>1, <1>2

-----------------------------------------------------------------------------
(* The runner starts with no process and nothing announced.                 *)
LEMMA InitIInv == Init => IInv
<1> SUFFICES ASSUME Init PROVE IInv
  OBVIOUS
<1>1. outcome \in [reason : ExitReasons, stopped : BOOLEAN, stable : BOOLEAN]
  BY DEF Init, OwnExits, ExitReasons
<1>2. attempts \in 0..AttemptTop
  BY AttemptTopAssumption DEF Init
<1>3. TypeOK
  BY <1>1, <1>2 DEF Init, TypeOK, States, OwnExits
<1>4. StateAtPc /\ GroupAtPc /\ StoppedAtPc
  BY DEF Init, StateAtPc, GroupAtPc, StoppedAtPc
<1> QED BY <1>3, <1>4 DEF IInv

(* One step per action; the world first, then the task.                     *)
LEMMA NextIInv == IInv /\ [Next]_vars => IInv'
<1> SUFFICES ASSUME IInv, [Next]_vars PROVE IInv'
  OBVIOUS
<1> USE DEF IInv, TypeOK, StateAtPc, GroupAtPc, StoppedAtPc
<1>1. ASSUME NEW reason \in Reasons, Request(reason) PROVE IInv'
  BY <1>1, NoReasonAssumption DEF Request, processes
<1>2. ASSUME NEW reason \in OwnExits, LeaderExits(reason) PROVE IInv'
  BY <1>2 DEF LeaderExits, channel
<1>3. CASE Fork
  BY <1>3 DEF Fork, channel
<1>4. CASE DescendantsExit
  <2>1. TypeOK'
    BY <1>4 DEF DescendantsExit, channel
  <2>2. StateAtPc' /\ StoppedAtPc'
    BY <1>4 DEF DescendantsExit, channel
  <2>3. GroupAtPc'
    BY <1>4 DEF DescendantsExit, channel
  <2> QED BY <2>1, <2>2, <2>3
<1>5. CASE GiveUp
  BY <1>5 DEF GiveUp, channel, processes
<1>6. CASE Check
  BY <1>6 DEF Check, CheckStops, Return, processes, States
<1>7. CASE Spawn
  BY <1>7 DEF Spawn, channel, States
<1>8. ASSUME NEW reason \in {"spawn_retryable", "spawn_fatal"}, SpawnFails(reason) PROVE IInv'
  <2>1. reason \in ExitReasons
    BY DEF ExitReasons
  <2>2. attempts' \in 0..AttemptTop
        /\ \/ pc' = "backoff" /\ state' = "Backoff" /\ result' = result
           \/ pc' = "done" /\ state' \in {"Exited", "Failed"} /\ result' \in {"exited", "failed"}
    BY <1>8, <2>1, ConcludeFacts DEF SpawnFails
  <2> QED BY <1>8, <2>2 DEF SpawnFails, channel, processes, States
<1>9. CASE WakeExited
  <2>1. outcome' \in [reason : ExitReasons, stopped : BOOLEAN, stable : BOOLEAN]
        /\ ~outcome'.stopped
    BY <1>9 DEF WakeExited, OwnExits, ExitReasons
  <2>2. TypeOK'
    BY <1>9, <2>1 DEF WakeExited, channel
  <2>3. StateAtPc' /\ GroupAtPc' /\ StoppedAtPc'
    BY <1>9, <2>1 DEF WakeExited, channel
  <2> QED BY <2>2, <2>3
<1>10. CASE WakeSignalled
  BY <1>10 DEF WakeSignalled, processes, States
<1>11. CASE WakeUnhealthy
  BY <1>11 DEF WakeUnhealthy, channel, processes, States, ExitReasons
<1>12. CASE StopExits
  BY <1>12 DEF StopExits, channel
<1>13. CASE StopTimesOut
  <2>1. TypeOK'
    BY <1>13 DEF StopTimesOut, KillGroup, channel, OwnExits
  <2>2. StateAtPc' /\ StoppedAtPc'
    BY <1>13 DEF StopTimesOut, KillGroup, channel, OwnExits
  <2>3. GroupAtPc'
    BY <1>13 DEF StopTimesOut, KillGroup, channel, OwnExits
  <2> QED BY <2>1, <2>2, <2>3
<1>14. CASE StopAgain
  <2>1. TypeOK'
    BY <1>14 DEF StopAgain, KillGroup, OwnExits
  <2>2. StateAtPc' /\ StoppedAtPc'
    BY <1>14 DEF StopAgain, KillGroup, OwnExits
  <2>3. GroupAtPc'
    BY <1>14 DEF StopAgain, KillGroup, OwnExits
  <2> QED BY <2>1, <2>2, <2>3
<1>15. CASE Reap
  BY <1>15 DEF Reap, channel
<1>16. CASE Sweep
  BY <1>16 DEF Sweep, KillGroup, channel, OwnExits
<1>17. CASE Judge
  <2>1. CASE outcome.stopped
    BY <1>17, <2>1 DEF Judge, Return, channel, processes, States
  <2>2. CASE ~outcome.stopped
    <3> DEFINE fresh == AttemptsAfter(attempts, outcome.stable)
    <3>1. outcome.reason \in ExitReasons /\ fresh \in 0..AttemptTop
      BY AttemptTopAssumption DEF AttemptsAfter
    <3>2. Conclude(outcome.reason, fresh, "backoff")
      BY <1>17, <2>2 DEF Judge
    <3>3. attempts' \in 0..AttemptTop
          /\ \/ pc' = "backoff" /\ state' = "Backoff" /\ result' = result
             \/ pc' = "done" /\ state' \in {"Exited", "Failed"}
                /\ result' \in {"exited", "failed"}
      BY <3>1, <3>2, ConcludeFacts
    <3> QED BY <1>17, <3>3 DEF Judge, channel, processes, States
  <2> QED BY <2>1, <2>2
<1>18. CASE BackoffElapses
  BY <1>18 DEF BackoffElapses, channel, processes
<1>19. CASE BackoffInterrupted
  BY <1>19 DEF BackoffInterrupted, Return, processes, States
<1>20. CASE Cut
  BY <1>20 DEF Cut, Return, channel
<1>21. CASE UNCHANGED vars
  BY <1>21 DEF vars, channel, processes
<1> QED BY <1>1, <1>2, <1>3, <1>4, <1>5, <1>6, <1>7, <1>8, <1>9, <1>10, <1>11, <1>12, <1>13,
           <1>14, <1>15, <1>16, <1>17, <1>18, <1>19, <1>20, <1>21 DEF Next, Task, World

(* IInv is inductive, so it holds throughout run().                         *)
LEMMA SpecIInv == Spec => []IInv
BY InitIInv, NextIInv, PTL DEF Spec

(* The variables of the runner keep their types: unix.rs, ServiceRunner.    *)
THEOREM TypeCorrect == Spec => []TypeOK
<1>1. IInv => TypeOK
  BY DEF IInv
<1> QED BY <1>1, SpecIInv, PTL

(* Whatever ends a run, no process of it or of an earlier one is left: the  *)
(* sweep in run() and ProcessHandle's Drop.                                 *)
THEOREM NoOrphans == Spec => []NoProcessOutlivesItsRun
<1>1. IInv => NoProcessOutlivesItsRun
  BY DEF IInv, TypeOK, StateAtPc, GroupAtPc, NoProcessOutlivesItsRun
<1> QED BY <1>1, SpecIInv, PTL

-----------------------------------------------------------------------------
(* Every step of the runner is a step of ServiceContract or leaves the      *)
(* contract's view unchanged.                                               *)
LEMMA StepImplementsContract ==
  ASSUME IInv, IInv', [Next]_vars
  PROVE  Contract!Step(view, view') \/ view' = view
<1>0. view' \in Contract!Runs
  BY DEF IInv, TypeOK, view, Contract!Runs, Contract!States, States
<1> USE DEF IInv, TypeOK, StateAtPc, GroupAtPc, StoppedAtPc, view
<1>1. ASSUME NEW reason \in Reasons, Request(reason) PROVE Contract!Ask(view, view')
  BY <1>1, NoReasonAssumption DEF Request, processes, Contract!Ask
<1>2. ASSUME NEW reason \in OwnExits, LeaderExits(reason) PROVE view' = view
  BY <1>2 DEF LeaderExits, channel
<1>3. ASSUME Fork PROVE view' = view
  BY <1>3 DEF Fork, channel
<1>4. ASSUME DescendantsExit PROVE Contract!Die(view, view') \/ view' = view
  BY <1>4 DEF DescendantsExit, channel, Contract!Die
<1>5. ASSUME GiveUp PROVE view' = view
  BY <1>5 DEF GiveUp, channel, processes
<1>6. ASSUME Check PROVE Contract!Settle(view, view') \/ Contract!Launch(view, view')
  <2>1. CASE asked # NoReason
    BY <1>6, <2>1 DEF Check, CheckStops, Return, processes, Contract!Settle,
       Contract!CanTransition, Contract!Edges, Contract!Terminal
  <2>2. CASE asked = NoReason
    BY <1>6, <2>2 DEF Check, CheckStops, Return, processes, Contract!Launch
  <2> QED BY <2>1, <2>2
<1>7. ASSUME Spawn PROVE Contract!Come(view, view')
  BY <1>7 DEF Spawn, channel, Contract!Come
<1>8. ASSUME NEW reason \in {"spawn_retryable", "spawn_fatal"}, SpawnFails(reason)
      PROVE Contract!Settle(view, view')
  <2>1. \/ pc' = "backoff" /\ state' = "Backoff"
        \/ pc' = "done" /\ state' \in {"Exited", "Failed"}
    BY <1>8, ConcludeFacts DEF SpawnFails, ExitReasons
  <2> QED BY <1>8, <2>1 DEF SpawnFails, channel, processes, Contract!Settle,
       Contract!CanTransition, Contract!Edges, Contract!Terminal
<1>9. ASSUME WakeExited PROVE Contract!Die(view, view') \/ view' = view
  BY <1>9 DEF WakeExited, channel, Contract!Die
<1>10. ASSUME WakeSignalled PROVE Contract!WindDown(view, view')
  BY <1>10 DEF WakeSignalled, processes, Contract!WindDown
<1>11. ASSUME WakeUnhealthy PROVE Contract!WindDown(view, view')
  BY <1>11 DEF WakeUnhealthy, channel, processes, Contract!WindDown
<1>12. ASSUME StopExits PROVE Contract!Die(view, view') \/ view' = view
  BY <1>12 DEF StopExits, channel, Contract!Die
<1>13. ASSUME StopTimesOut PROVE view' = view
  BY <1>13 DEF StopTimesOut, KillGroup, channel
<1>14. ASSUME StopAgain PROVE view' = view
  BY <1>14 DEF StopAgain, KillGroup
<1>15. ASSUME Reap PROVE Contract!Die(view, view')
  BY <1>15 DEF Reap, channel, Contract!Die
<1>16. ASSUME Sweep PROVE Contract!Die(view, view') \/ view' = view
  BY <1>16 DEF Sweep, KillGroup, channel, Contract!Die
<1>17. ASSUME Judge PROVE Contract!Settle(view, view')
  <2>1. CASE outcome.stopped
    BY <1>17, <2>1 DEF Judge, Return, channel, processes, Contract!Settle,
       Contract!CanTransition, Contract!Edges, Contract!Terminal
  <2>2. CASE ~outcome.stopped
    <3> DEFINE fresh == AttemptsAfter(attempts, outcome.stable)
    <3>1. outcome.reason \in ExitReasons /\ fresh \in 0..AttemptTop
      BY AttemptTopAssumption DEF AttemptsAfter
    <3>2. Conclude(outcome.reason, fresh, "backoff")
      BY <1>17, <2>2 DEF Judge
    <3>3. \/ pc' = "backoff" /\ state' = "Backoff"
          \/ pc' = "done" /\ state' \in {"Exited", "Failed"}
      BY <3>1, <3>2, ConcludeFacts
    <3> QED BY <1>17, <3>3 DEF Judge, channel, processes, Contract!Settle,
         Contract!CanTransition, Contract!Edges, Contract!Terminal
  <2> QED BY <2>1, <2>2
<1>18. ASSUME BackoffElapses PROVE view' = view
  BY <1>18 DEF BackoffElapses, channel, processes
<1>19. ASSUME BackoffInterrupted PROVE Contract!Settle(view, view')
  BY <1>19 DEF BackoffInterrupted, Return, processes, Contract!Settle,
     Contract!CanTransition, Contract!Edges, Contract!Terminal
<1>20. ASSUME Cut PROVE Contract!Cut(view, view')
  BY <1>20 DEF Cut, Return, channel, Contract!Cut
<1>21. ASSUME UNCHANGED vars PROVE view' = view
  BY <1>21 DEF vars, channel, processes
<1> QED BY <1>0, <1>1, <1>2, <1>3, <1>4, <1>5, <1>6, <1>7, <1>8, <1>9, <1>10, <1>11, <1>12, <1>13,
           <1>14, <1>15, <1>16, <1>17, <1>18, <1>19, <1>20, <1>21
     DEF Next, Task, World, Contract!Step

(* The runner keeps the promise the stack supervisor is built on.           *)
THEOREM RunnerImplementsContract == Spec => ImplementsContract
<1>1. Init => Contract!Init
  BY DEF Init, view, Contract!Init, Contract!Fresh
<1>2. IInv /\ IInv' /\ [Next]_vars => [Contract!Next]_view
  BY StepImplementsContract DEF Contract!Next
<1> QED BY <1>1, <1>2, SpecIInv, PTL DEF Spec, ImplementsContract, Contract!Spec

-----------------------------------------------------------------------------
(* A state changes only in a step of the contract that follows an edge.     *)
LEMMA StepLegal ==
  IInv /\ IInv' /\ [Next]_vars => [state' # state => CanTransition(state, state')]_vars
<1> SUFFICES ASSUME IInv, IInv', [Next]_vars, state' # state
             PROVE  CanTransition(state, state')
  OBVIOUS
<1>1. Contract!Step(view, view')
  BY StepImplementsContract DEF view
<1>2. CASE Contract!Settle(view, view')
  BY <1>2 DEF Contract!Settle, Contract!CanTransition, Contract!Edges, CanTransition, Edges, view
<1>3. CASE Contract!Launch(view, view') \/ Contract!Come(view, view') \/ Contract!WindDown(view, view')
  BY <1>3 DEF Contract!Launch, Contract!Come, Contract!WindDown, CanTransition, Edges, view
<1> QED BY <1>1, <1>2, <1>3
        DEF Contract!Step, Contract!Ask, Contract!Die, Contract!Cut, view

(* No interleaving of exits, health verdicts and stop requests makes run()  *)
(* ask for an edge the state machine rejects.                               *)
THEOREM TransitionsLegal == Spec => OnlyLegalTransitions
BY StepLegal, SpecIInv, PTL DEF Spec, OnlyLegalTransitions

(* Only the top of the loop leads to a spawn, and it reads the channel.     *)
THEOREM ShutdownNotOvertaken == Spec => NotOvertaken
<1>1. [Next]_vars => [asked # NoReason => (pc' = "spawn" => pc = "spawn")]_vars
  <2> SUFFICES ASSUME [Next]_vars, asked # NoReason, pc' = "spawn"
               PROVE  pc = "spawn"
    OBVIOUS
  <2>1. CASE Task
    BY <2>1 DEF Task, Check, CheckStops, Return, Spawn, SpawnFails, WakeExited, WakeSignalled,
       WakeUnhealthy, StopExits, StopTimesOut, StopAgain, Reap, Sweep, Judge, Conclude,
       BackoffElapses, BackoffInterrupted
  <2>2. CASE World \/ Cut \/ UNCHANGED vars
    BY <2>2 DEF World, Request, LeaderExits, Fork, DescendantsExit, GiveUp, Cut, Return, vars
  <2> QED BY <2>1, <2>2 DEF Next
<1> QED BY <1>1, PTL DEF Spec, NotOvertaken
=============================================================================
