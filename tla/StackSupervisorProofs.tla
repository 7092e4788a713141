----------------------- MODULE StackSupervisorProofs -----------------------
(***************************************************************************)
(* Theorems about StackSupervisor, for every finite set of services, every  *)
(* set of validated configurations and every order of commands, reloads,    *)
(* reports and shutdowns.                                                   *)
(***************************************************************************)
EXTENDS StackSupervisor, FiniteSetTheorems, TLAPS

\* The fields of a slot and of a task, whatever a definition is.
IsSlot(x) ==
  x \in [here : BOOLEAN, def : {x.def}, deps : {x.deps}, held : BOOLEAN, restart : BOOLEAN,
         retired : BOOLEAN, pending : {"none", "stop", "restart"}]

IsTask(x) ==
  x \in [at : {"none", "live", "reported", "aborted"}, todo : {x.todo}, closed : {x.closed},
         run : Contract!Runs, failed : {x.failed}]

\* A slot that is not there is empty.  A slot holds a task from its spawn to its
\* report; one that is retiring, or owes a restart, holds one.  The slots there
\* that are not retiring are the ones the configuration plans, with its definition.
SlotAt(s) ==
  /\ IsSlot(slots[s])
  /\ slots[s].here \/ slots[s] = NoSlot
  /\ slots[s].held => slots[s].here
  /\ slots[s].retired \/ slots[s].restart => slots[s].held
  /\ s \in Planned(config) => slots[s].here
  /\ slots[s].here => (slots[s].retired <=> s \notin Planned(config))
  /\ slots[s].here /\ ~slots[s].retired => slots[s].def = config.svc[s]

\* Only a live task has a run that has begun, and only a held slot a task.
TaskAt(s) ==
  /\ IsTask(tasks[s])
  /\ tasks[s].at # "live" => tasks[s].run = Contract!Fresh
  /\ tasks[s].at # "none" => slots[s].held
  /\ phase = "run" /\ slots[s].held => tasks[s].at \in {"live", "reported"}
  /\ phase = "over" => Ended(s)

Held == {s \in Services : slots[s].held}

\* Every x of the sequence has a y behind it.
Before(q, x, y) ==
  \A k \in 1..Len(q) : q[k] = x => \E m \in (k + 1)..Len(q) : q[m] = y

\* In `order', a service comes before every service it depends on.
DependentsFirst(order) ==
  \A s \in Held : \A i \in 1..Len(slots[s].def.deps) :
    LET d == slots[s].def.deps[i].on
    IN  d \in Planned(config) => Before(order, s, d)

\* stop_all has waited for every service that it neither waits for nor has still
\* to stop, and what the awaited service depends on has still to be stopped.
StopAllAt ==
  /\ queue \in Seq(Services)
  /\ \A s, t \in awaited : s = t
  /\ \A s \in Held : s \notin Range(queue) /\ s \notin awaited => Ended(s)
  /\ DependentsFirst(queue)
  /\ \A s \in Held \cap awaited : \A i \in 1..Len(slots[s].def.deps) :
       LET d == slots[s].def.deps[i].on
       IN  d \in Planned(config) => d \in Range(queue)

\* The strengthening that makes the safety properties inductive.
IInv ==
  /\ mode \in Modes /\ phase \in {"run", "stopping", "over"} /\ config \in Configs
  /\ DOMAIN slots = Services /\ DOMAIN tasks = Services
  /\ status \in [Services -> Statuses]
  /\ awaited \in SUBSET Services
  /\ \A s \in Services : SlotAt(s)
  /\ \A s \in Services : TaskAt(s)
  /\ running = Cardinality(Held)
  /\ phase = "run" => awaited = {}
  /\ phase = "stopping" => StopAllAt

USE DEF Inserted, Spawned, SetTask, Report, Idle, UnchangedBySupervision, Aborted

-----------------------------------------------------------------------------
(* A finite set listed as a sequence: nothing is left out.                  *)
LEMMA SetToSeqFacts ==
  ASSUME NEW S, IsFiniteSet(S)
  PROVE  SetToSeq(S) \in Seq(S) /\ Range(SetToSeq(S)) = S
<1> DEFINE n == Cardinality(S)
<1>1. n \in Nat /\ ExistsBijection(1..n, S)
  BY FS_CardinalityType
<1>2. \E f \in [1..n -> S] : IsInjective(f)
  BY <1>1 DEF ExistsBijection, Bijection, Injection
<1>3. SetToSeq(S) \in [1..n -> S] /\ IsInjective(SetToSeq(S))
  BY <1>2, Zenon DEF SetToSeq
<1>4. Cardinality(1..n) = n
  BY <1>1, FS_Interval
<1>5. SetToSeq(S) \in Surjection(1..n, S)
  BY <1>3, <1>4, FS_Injection DEF Injection
<1>6. \A t \in S : \E i \in 1..n : SetToSeq(S)[i] = t
  BY <1>5 DEF Surjection
<1> HIDE DEF n
<1> DEFINE q == SetToSeq(S)
<1>7. q \in [1..n -> S]
  BY <1>3
<1> HIDE DEF q
<1>8. q \in Seq(S) /\ DOMAIN q = 1..n /\ Range(q) = S
  BY <1>1, <1>6, <1>7 DEF Range, q
<1> QED BY <1>8 DEF q

(* What is left of a queue when its head is taken.                          *)
LEMMA TailFacts ==
  ASSUME NEW S, NEW q \in Seq(S), q # <<>>
  PROVE  /\ Tail(q) \in Seq(S) /\ Head(q) \in S
         /\ \A x \in Range(q) : x = Head(q) \/ x \in Range(Tail(q))
         /\ \A x, y : Before(q, x, y) => Before(Tail(q), x, y)
         /\ \A y : Before(q, Head(q), y) => y \in Range(Tail(q))
<1> DEFINE n == Len(q)
           p == Tail(q)
<1>1. /\ n \in Nat /\ n >= 1 /\ Len(p) = n - 1 /\ p \in Seq(S) /\ Head(q) = q[1] /\ q[1] \in S
      /\ \A k \in 1..(n - 1) : p[k] = q[k + 1]
  OBVIOUS
<1>2. Range(q) = {q[k] : k \in 1..n} /\ Range(p) = {p[k] : k \in 1..(n - 1)}
  <2>1. DOMAIN q = 1..n /\ DOMAIN p = 1..(n - 1)
    BY <1>1
  <2> QED BY <2>1, Zenon DEF Range
<1> HIDE DEF n, p
<1>3. \A k \in 2..n : k - 1 \in 1..(n - 1) /\ p[k - 1] = q[k]
  <2> SUFFICES ASSUME NEW k \in 2..n PROVE k - 1 \in 1..(n - 1) /\ p[k - 1] = q[k]
    OBVIOUS
  <2>1. k - 1 \in 1..(n - 1) /\ (k - 1) + 1 = k
    BY <1>1
  <2> QED BY <2>1, <1>1
<1>4. ASSUME NEW x \in Range(q), x # Head(q) PROVE x \in Range(p)
  <2>1. PICK k \in 1..n : q[k] = x
    BY <1>2
  <2>2. k \in 2..n
    BY <1>1, <1>4, <2>1
  <2> QED BY <1>2, <1>3, <2>1, <2>2
<1>5. ASSUME NEW x, NEW y, Before(q, x, y) PROVE Before(p, x, y)
  <2> SUFFICES ASSUME NEW k \in 1..(n - 1), p[k] = x
               PROVE  \E m \in (k + 1)..(n - 1) : p[m] = y
    BY <1>1 DEF Before
  <2>1. k + 1 \in 1..n /\ q[k + 1] = x
    BY <1>1
  <2>2. PICK m \in ((k + 1) + 1)..n : q[m] = y
    BY <1>5, <2>1 DEF Before, n
  <2>3. m \in 2..n /\ m - 1 \in (k + 1)..(n - 1)
    BY <1>1, <2>2
  <2> QED BY <1>3, <2>2, <2>3
<1>6. ASSUME NEW y, Before(q, Head(q), y) PROVE y \in Range(p)
  <2>1. 1 \in 1..n /\ Head(q) = q[1]
    BY <1>1
  <2>2. PICK m \in (1 + 1)..n : q[m] = y
    BY <2>1, <1>6 DEF Before, n
  <2>3. m \in 2..n
    BY <2>2
  <2> QED BY <1>2, <1>3, <2>2, <2>3
<1> QED BY <1>1, <1>4, <1>5, <1>6 DEF p

\* A channel that closes leaves the run alone.
LEMMA ClosingFacts ==
  ASSUME NEW x, NEW S, IsTask(x)
  PROVE  IsTask(Closing(x, S)) /\ Closing(x, S).at = x.at /\ Closing(x, S).run = x.run
<1> DEFINE a == x.closed \cup (S \cap {x.todo[i].on : i \in DOMAIN x.todo})
           b == SelectSeq(x.todo, LAMBDA e : ~(e.on \in S
                                               /\ ReadinessOf(status[e.on], e.cond) = "ready"))
           c == Closing(x, S)
<1>1. c = [x EXCEPT !.closed = a, !.todo = b]
  BY Zenon DEF Closing
<1> HIDE DEF a, b, c
<1>2. IsTask(c) /\ c.at = x.at /\ c.run = x.run
  BY <1>1 DEF IsTask
<1> QED BY <1>2, Zenon DEF c

\* So does a stop request, but for the request.
LEMMA SentFacts ==
  ASSUME NEW x, IsTask(x)
  PROVE  /\ IsTask(Sent(x)) /\ Sent(x).at = x.at /\ Sent(x).run.state = x.run.state
         /\ x.at # "live" => Sent(x) = x
         /\ x.at = "live" => Sent(x).run.asked
         /\ x.run.asked => Sent(x).run.asked
BY DEF Sent, IsTask, Contract!Runs

\* A task begins, and ends, with a run that has not begun.
LEMMA FreshTasks ==
  /\ Contract!Fresh \in Contract!Runs
  /\ IsTask(NoTask) /\ NoTask.at = "none" /\ NoTask.run = Contract!Fresh
  /\ \A failed : /\ IsTask(Report(failed)) /\ Report(failed).at = "reported"
                  /\ Report(failed).run = Contract!Fresh
  /\ \A x : /\ IsTask(TaskOf(x)) /\ TaskOf(x).at = "live" /\ TaskOf(x).run = Contract!Fresh
  /\ \A x : /\ IsTask(Aborted(x)) /\ Aborted(x).at = "aborted"
             /\ Aborted(x).run = Contract!Fresh
BY DEF Contract!Fresh, Contract!Runs, Contract!States, IsTask, NoTask, TaskOf

(* StopOrder stops everything that runs, dependents first.                  *)
LEMMA StopOrderFacts ==
  ASSUME config \in Configs, \A s \in Services : SlotAt(s)
  PROVE  /\ StopOrder \in Seq(Services)
         /\ \A s \in Held : s \in Range(StopOrder)
         /\ DependentsFirst(StopOrder)
<1> USE ServicesAssumption
<1> DEFINE D == {s \in Here : slots[s].held} \ Planned(config)
           n == Len(Dropped)
           p == Len(config.plan)
<1>1. IsFiniteSet(D)
  BY FS_Subset, D \in SUBSET Services DEF Here
<1>2. Dropped \in Seq(D) /\ Range(Dropped) = D
  BY <1>1, SetToSeqFacts, Zenon DEF Dropped
<1>3. config.plan \in Seq(Services)
  BY ConfigsAssumption
<1>4. Reverse(config.plan) = [i \in 1..p |-> config.plan[p - i + 1]]
  BY DEF Reverse
<1>5. Reverse(config.plan) \in Seq(Services) /\ Len(Reverse(config.plan)) = p
  BY <1>3, <1>4
<1>6. Dropped \in Seq(Services)
  BY <1>2 DEF Here
<1>7. /\ StopOrder \in Seq(Services) /\ Len(StopOrder) = n + p
      /\ \A k \in 1..n : StopOrder[k] = Dropped[k]
      /\ \A k \in 1..p : StopOrder[n + k] = config.plan[p - k + 1]
  <2> HIDE DEF n
  <2>1. n \in Nat /\ n = Len(Dropped) /\ p \in Nat
    BY <1>6, <1>3 DEF n
  <2> QED BY <1>4, <1>5, <1>6, <2>1 DEF StopOrder
<1>8. n \in Nat /\ p \in Nat
  BY <1>6, <1>3
<1> HIDE DEF n, p
<1>9. ASSUME NEW j \in 1..p PROVE p - j + 1 \in 1..p /\ StopOrder[n + (p - j + 1)] = config.plan[j]
  <2> DEFINE k == p - j + 1
  <2>1. k \in 1..p /\ p - k + 1 = j
    BY <1>8
  <2> HIDE DEF k
  <2>2. StopOrder[n + k] = config.plan[j]
    BY <2>1, <1>7
  <2> QED BY <2>1, <2>2, Zenon DEF k
<1>10. \A s \in Planned(config) : \E j \in 1..p : config.plan[j] = s
  BY <1>3 DEF Planned, Range, p
<1>11. ASSUME NEW s \in Held PROVE s \in Range(StopOrder)
  <2>1. CASE s \in Planned(config)
    BY <2>1, <1>7, <1>8, <1>9, <1>10 DEF Range
  <2>2. CASE s \notin Planned(config)
    <3>1. s \in D
      BY <2>2 DEF Held, Here, SlotAt
    <3>2. PICK k \in 1..n : Dropped[k] = s
      BY <3>1, <1>2, <1>6 DEF Range, n
    <3> QED BY <3>2, <1>7, <1>8 DEF Range
  <2> QED BY <2>1, <2>2
<1>12. ASSUME NEW s \in Held, NEW i \in 1..Len(slots[s].def.deps),
              slots[s].def.deps[i].on \in Planned(config),
              NEW k \in 1..Len(StopOrder), StopOrder[k] = s
       PROVE  \E m \in (k + 1)..Len(StopOrder) : StopOrder[m] = slots[s].def.deps[i].on
  <2> DEFINE d == slots[s].def.deps[i].on
  <2>1. CASE k \in 1..n
    <3>1. PICK j \in 1..p : config.plan[j] = d
      BY <1>10, <1>12
    <3>2. p - j + 1 \in 1..p /\ StopOrder[n + (p - j + 1)] = d
      BY <3>1, <1>9
    <3>3. n + (p - j + 1) \in (k + 1)..Len(StopOrder)
      BY <2>1, <3>2, <1>7, <1>8
    <3> QED BY <3>2, <3>3
  <2>2. CASE k \notin 1..n
    <3>1. k - n \in 1..p /\ k = n + (k - n) /\ k \in Int
      BY <2>2, <1>7, <1>8
    <3> DEFINE j == p - (k - n) + 1
    <3>2. j \in 1..p /\ config.plan[j] = s
      <4> DEFINE h == k - n
      <4>1. h \in 1..p /\ k = n + h
        BY <3>1, <1>8
      <4> HIDE DEF h
      <4>2. StopOrder[n + h] = config.plan[p - h + 1] /\ p - h + 1 \in 1..p
        BY <4>1, <1>7, <1>8
      <4> QED BY <4>1, <4>2, <1>12 DEF h
    <3>3. s \in Planned(config)
      BY <3>2, <1>3 DEF Planned, Range, p
    <3>4. slots[s].def = config.svc[config.plan[j]]
      BY <3>2, <3>3 DEF Held, SlotAt
    <3>5. config.svc[config.plan[j]].deps[i].on = d /\ i \in 1..Len(config.svc[config.plan[j]].deps)
      BY <3>4
    <3>6. PICK q \in 1..(j - 1) : config.plan[q] = d
      <4>1. j \in 1..Len(config.plan)
        BY <3>2 DEF p
      <4> HIDE DEF j
      <4> QED BY <4>1, <3>5, <1>12, ConfigsAssumption
    <3>7. q \in 1..p
      BY <3>2, <3>6, <1>8
    <3>8. StopOrder[n + (p - q + 1)] = d
      BY <3>7, <3>6, <1>9
    <3>9. n + (p - q + 1) \in (k + 1)..Len(StopOrder)
      BY <3>1, <3>6, <3>7, <1>7, <1>8
    <3> QED BY <3>8, <3>9
  <2> QED BY <2>1, <2>2
<1> QED BY <1>7, <1>11, <1>12 DEF DependentsFirst, Before

-----------------------------------------------------------------------------
(* Every planned service has its slot at first, and a task unless held back. *)
LEMMA InitIInv == Init => IInv
<1> SUFFICES ASSUME Init PROVE IInv
  OBVIOUS
<1>1. PICK start \in Starts :
        /\ mode = start.mode /\ config = start.config
        /\ slots = [s \in Services |->
                      IF s \notin Planned(config) THEN NoSlot
                      ELSE [Inserted(config.svc[s]) EXCEPT
                              !.deps = Wired(config, s, Planned(config)),
                              !.held = s \notin start.held]]
        /\ status = [s \in Services |->
                       IF s \in Planned(config) \cap start.held THEN StoppedStatus
                       ELSE NewStatus]
        /\ tasks = [s \in Services |-> IF slots[s].held THEN TaskOf(slots[s]) ELSE NoTask]
        /\ running = Cardinality(Planned(config) \ start.held)
  BY Zenon DEF Init
<1> DEFINE held == start.held
<1>2. /\ mode \in Modes /\ phase = "run" /\ config \in Configs /\ awaited = {}
  BY <1>1, StartsAssumption DEF Init, Configs
<1>3. Planned(config) \subseteq Services
  BY <1>2, ConfigsAssumption DEF Planned, Range
<1>4. \A s \in Services : SlotAt(s)
  <2> SUFFICES ASSUME NEW s \in Services PROVE SlotAt(s)
    OBVIOUS
  <2>1. CASE s \notin Planned(config)
    BY <1>1, <2>1 DEF SlotAt, IsSlot, NoSlot
  <2>2. CASE s \in Planned(config)
    <3> DEFINE deps == Wired(config, s, Planned(config))
    <3> HIDE DEF deps
    <3>1. slots[s] = [[Inserted(config.svc[s]) EXCEPT !.deps = deps] EXCEPT !.held = s \notin held]
      BY <1>1, <2>2 DEF deps, NoSlot
    <3> QED BY <3>1, <2>2 DEF SlotAt, IsSlot, NoSlot
  <2> QED BY <2>1, <2>2
<1>5. \A s \in Services : TaskAt(s)
  BY <1>1, <1>2, <1>4, FreshTasks DEF TaskAt, SlotAt, IsSlot
<1>6. Held = Planned(config) \ held
  BY <1>1, <1>3 DEF Held, NoSlot
<1>7. status \in [Services -> Statuses]
  BY <1>1 DEF Statuses, NewStatus, StoppedStatus, States
<1> QED BY <1>1, <1>2, <1>4, <1>5, <1>6, <1>7 DEF IInv

-----------------------------------------------------------------------------
(* A step of one task, which nothing else of the stack takes part in.       *)
LEMMA SupervisionStep ==
  ASSUME IInv, NEW s \in Services, tasks[s].at = "live",
         NEW x, IsTask(x), x.at \in {"live", "reported"},
         x.at # "live" => x.run = Contract!Fresh,
         tasks' = [tasks EXCEPT ![s] = x] \/ (tasks' = tasks /\ x = tasks[s]),
         UnchangedBySupervision, status' \in [Services -> Statuses]
  PROVE  IInv'
<1>1. /\ DOMAIN tasks' = Services /\ tasks'[s] = x
      /\ \A t \in Services : t # s => tasks'[t] = tasks[t]
  BY DEF IInv
<1>2. phase # "over" /\ slots[s].held
  BY DEF IInv, TaskAt, Ended
<1>3. \A t \in Services : SlotAt(t)' <=> SlotAt(t)
  BY DEF SlotAt, Planned
<1>4. \A t \in Services : TaskAt(t)'
  BY <1>1, <1>2 DEF IInv, TaskAt, Ended
<1>5. Held' = Held
  BY DEF Held
<1>6. \A t \in Services : Ended(t) => Ended(t)'
  BY <1>1 DEF Ended
<1>7. phase = "stopping" => StopAllAt'
  BY <1>5, <1>6 DEF IInv, StopAllAt, DependentsFirst, Planned, Held
<1> QED BY <1>1, <1>3, <1>4, <1>5, <1>7 DEF IInv

\* Each step of a task, and a probe, is such a step.
LEMMA TaskStep ==
  ASSUME IInv, NEW s \in Services, Task(s) \/ Probe(s)
  PROVE  IInv'
<1>1. IsTask(tasks[s]) /\ status \in [Services -> Statuses]
  BY DEF IInv, TaskAt
<1>2. \A st \in Statuses : [status EXCEPT ![s] = st] \in [Services -> Statuses]
  BY <1>1
<1>3. CASE DependencyReady(s)
  <2> DEFINE x == [tasks[s] EXCEPT !.todo = Tail(@)]
  <2>1. IsTask(x) /\ x.at = "live"
    BY <1>1, <1>3 DEF DependencyReady, Waiting, IsTask
  <2>2. tasks' = [tasks EXCEPT ![s] = x] /\ UnchangedBySupervision /\ status' = status
        /\ tasks[s].at = "live"
    BY <1>3 DEF DependencyReady, Waiting
  <2> HIDE DEF x
  <2> QED BY <1>1, <2>1, <2>2, SupervisionStep
<1>4. CASE DependencyBlocked(s) \/ StoppedWaiting(s)
  <2>1. status' = [status EXCEPT ![s].gone = TRUE]
    BY <1>4 DEF DependencyBlocked, StoppedWaiting
  <2>2. status' \in [Services -> Statuses]
    BY <2>1, <1>1 DEF Statuses
  <2>3. PICK failed \in BOOLEAN : tasks' = [tasks EXCEPT ![s] = Report(failed)]
    BY <1>4 DEF DependencyBlocked, StoppedWaiting
  <2> DEFINE x == Report(failed)
  <2>4. /\ IsTask(x) /\ x.at = "reported" /\ x.run = Contract!Fresh
        /\ tasks' = [tasks EXCEPT ![s] = x] /\ UnchangedBySupervision /\ tasks[s].at = "live"
    BY <1>4, <2>3, FreshTasks DEF DependencyBlocked, StoppedWaiting, Waiting
  <2> HIDE DEF x
  <2> QED BY <2>2, <2>4, SupervisionStep
<1>5. CASE RunStep(s)
  <2>1. PICK run \in Onward[tasks[s].run] :
          /\ \E st \in Reported(s, tasks[s].run, run) : status' = [status EXCEPT ![s] = st]
          /\ SetTask(s, IF run.over THEN Report(run.state \notin {"Exited", "Stopped"})
                        ELSE [tasks[s] EXCEPT !.run = run])
    BY <1>5 DEF RunStep
  <2>2. run \in Contract!Runs
    BY <1>1 DEF Onward, IsTask
  <2>3. Reported(s, tasks[s].run, run) \subseteq Statuses
    <3>1. status[s] \in Statuses
      BY <1>1
    <3>2. run.state \in States
      BY <2>2 DEF Contract!Runs, Contract!States, States
    <3>3. \A st \in Statuses : ObserveState(st, run.state) \in Statuses
      BY <3>2 DEF ObserveState, Statuses
    <3>4. \A st \in Statuses, reason \in Exits[s] : ObserveExit(st, reason) \in Statuses
      BY DEF ObserveExit, Statuses
    <3> QED BY <3>1, <3>3, <3>4 DEF Reported
  <2>4. status' \in [Services -> Statuses]
    BY <1>2, <2>1, <2>3
  <2> DEFINE x == IF run.over THEN Report(run.state \notin {"Exited", "Stopped"})
                  ELSE [tasks[s] EXCEPT !.run = run]
  <2>5. IsTask(x) /\ x.at \in {"live", "reported"} /\ (x.at # "live" => x.run = Contract!Fresh)
    BY <1>1, <1>5, <2>2, FreshTasks DEF IsTask, RunStep, Runs
  <2>6. tasks' = [tasks EXCEPT ![s] = x]
    BY <2>1
  <2> HIDE DEF x
  <2> QED BY <1>5, <2>4, <2>5, <2>6, SupervisionStep DEF RunStep, Runs
<1>6. CASE Probe(s)
  <2>1. status' \in [Services -> Statuses]
    <3>1. PICK ok \in BOOLEAN : status' = [status EXCEPT ![s] = ObserveHealth(status[s], ok)]
      BY <1>6 DEF Probe
    <3>2. ObserveHealth(status[s], ok) \in Statuses
      BY <1>1 DEF ObserveHealth, Statuses
    <3> QED BY <3>1, <3>2, <1>2
  <2> QED BY <1>1, <1>6, <2>1, SupervisionStep DEF Probe, Runs
<1> QED BY <1>3, <1>4, <1>5, <1>6 DEF Task

-----------------------------------------------------------------------------
(* What the loop does to one slot and its task, and the decision to abort.  *)
LEMMA SlotStep ==
  ASSUME IInv, phase = "run", NEW s \in Services,
         UNCHANGED <<mode, config, awaited>>, status' \in [Services -> Statuses],
         DOMAIN slots' = Services, \A t \in Services \ {s} : slots'[t] = slots[t],
         DOMAIN tasks' = Services,
         \A t \in Services \ {s} : /\ IsTask(tasks'[t]) /\ tasks'[t].at = tasks[t].at
                                   /\ tasks'[t].run = tasks[t].run,
         SlotAt(s)', TaskAt(s)',
         running' = Cardinality(Held'),
         \/ phase' = "run"
         \/ /\ phase' = "stopping" /\ queue' = StopOrder
            /\ slots'[s].held => slots[s].held /\ slots'[s].def = slots[s].def
  PROVE  IInv'
<1>1. \A t \in Services : SlotAt(t)'
  BY DEF IInv, SlotAt, Planned
<1>2. \A t \in Services : TaskAt(t)'
  BY DEF IInv, TaskAt, Ended
<1>3. CASE phase' = "run"
  BY <1>1, <1>2, <1>3 DEF IInv
<1>4. CASE phase' # "run"
  <2>1. /\ queue' \in Seq(Services) /\ DependentsFirst(queue')
        /\ \A t \in Held : t \in Range(queue')
    BY <1>4, StopOrderFacts DEF IInv
  <2>2. Held' \subseteq Held /\ \A t \in Held' : slots'[t].def = slots[t].def
    BY <1>4 DEF Held
  <2>3. awaited' = {}
    BY DEF IInv
  <2>4. DependentsFirst(queue)'
    BY <2>1, <2>2 DEF DependentsFirst, Planned
  <2>5. StopAllAt'
    BY <2>1, <2>2, <2>3, <2>4 DEF StopAllAt
  <2> QED BY <1>1, <1>2, <1>4, <2>5 DEF IInv
<1> QED BY <1>3, <1>4

\* The counter follows the one slot that is filled or emptied.
LEMMA HeldFacts ==
  ASSUME IInv, NEW s \in Services, DOMAIN slots' = Services,
         \A t \in Services \ {s} : slots'[t] = slots[t], IsSlot(slots'[s])
  PROVE  /\ slots'[s].held = slots[s].held => Cardinality(Held') = running
         /\ slots'[s].held /\ ~slots[s].held => Cardinality(Held') = running + 1
         /\ ~slots'[s].held /\ slots[s].held => Cardinality(Held') = running - 1
<1>1. IsFiniteSet(Held) /\ running = Cardinality(Held)
  BY ServicesAssumption, FS_Subset DEF IInv, Held
<1>2. CASE slots'[s].held = slots[s].held
  <2>1. Held' = Held
    BY <1>2 DEF Held
  <2> QED BY <2>1, <1>1, <1>2
<1>3. CASE slots'[s].held /\ ~slots[s].held
  <2>1. Held' = Held \cup {s} /\ s \notin Held
    BY <1>3 DEF Held
  <2> QED BY <2>1, <1>1, <1>3, FS_AddElement
<1>4. CASE ~slots'[s].held /\ slots[s].held
  <2>1. Held' = Held \ {s} /\ s \in Held
    BY <1>4 DEF Held
  <2> QED BY <2>1, <1>1, <1>4, FS_RemoveElement
<1> QED BY <1>2, <1>3, <1>4 DEF IInv, SlotAt, IsSlot

\* A start, with nothing of the service running.
LEMMA SpawnStep ==
  ASSUME IInv, NEW s \in Services, Accepts(s), ~slots[s].held, SpawnNow(s)
  PROVE  IInv'
<1>1. /\ slots' = [slots EXCEPT ![s] = Spawned(@)]
      /\ tasks' = [tasks EXCEPT ![s] = TaskOf(slots[s])]
      /\ status' = [status EXCEPT ![s] = NewStatus]
      /\ running' = running + 1 /\ phase = "run" /\ phase' = "run"
      /\ UNCHANGED <<mode, config, awaited>>
      /\ slots[s].here
  BY DEF Accepts, Serving, SpawnNow
<1>2. /\ DOMAIN slots = Services /\ DOMAIN tasks = Services
      /\ SlotAt(s) /\ IsSlot(slots[s]) /\ status \in [Services -> Statuses]
      /\ \A t \in Services : IsTask(tasks[t])
  BY DEF IInv, SlotAt, TaskAt
<1>3. IsSlot(slots'[s]) /\ slots'[s].held
  BY <1>1, <1>2 DEF IsSlot
<1>4. SlotAt(s)'
  BY <1>1, <1>2, <1>3 DEF SlotAt, IsSlot, Planned
<1>5. IsTask(tasks'[s]) /\ tasks'[s].at = "live"
  BY <1>1, <1>2, FreshTasks, Zenon
<1>6. TaskAt(s)'
  BY <1>1, <1>3, <1>5 DEF TaskAt
<1>7. running' = Cardinality(Held')
  BY <1>1, <1>2, <1>3, HeldFacts
<1>8. status' \in [Services -> Statuses]
  BY <1>1, <1>2 DEF Statuses, NewStatus, States
<1> QED BY <1>1, <1>2, <1>4, <1>6, <1>7, <1>8, SlotStep

\* A stop request, and the command that waits for the report.
LEMMA StopSlotStep ==
  ASSUME IInv, NEW s \in Services, Accepts(s), slots[s].held,
         NEW command \in {"stop", "restart"}, NEW restart \in BOOLEAN,
         StopSlot(s, command, restart)
  PROVE  IInv'
<1>1. /\ slots' = [slots EXCEPT ![s].pending = command, ![s].restart = restart]
      /\ tasks' = [tasks EXCEPT ![s] = Sent(@)]
      /\ phase = "run" /\ phase' = "run"
      /\ UNCHANGED <<mode, config, awaited, status, running>>
  BY DEF Accepts, Serving, StopSlot
<1>2. /\ DOMAIN slots = Services /\ DOMAIN tasks = Services
      /\ SlotAt(s) /\ IsSlot(slots[s]) /\ TaskAt(s) /\ status \in [Services -> Statuses]
      /\ \A t \in Services : IsTask(tasks[t])
  BY DEF IInv, SlotAt, TaskAt
<1>3. IsSlot(slots'[s]) /\ slots'[s].held
  <2>1. slots'[s] = [[slots[s] EXCEPT !.pending = command] EXCEPT !.restart = restart]
    BY <1>1, <1>2
  <2> QED BY <2>1, <1>2 DEF IsSlot
<1>4. SlotAt(s)'
  BY <1>1, <1>2, <1>3 DEF SlotAt, IsSlot, Planned
<1>5. tasks'[s] = Sent(tasks[s])
  BY <1>1, <1>2
<1>6. TaskAt(s)'
  BY <1>1, <1>2, <1>3, <1>5, SentFacts DEF TaskAt
<1>7. running' = Cardinality(Held')
  BY <1>1, <1>2, <1>3, HeldFacts
<1> QED BY <1>1, <1>2, <1>4, <1>6, <1>7, SlotStep

\* The three commands.
LEMMA CommandStep ==
  ASSUME IInv, NEW s \in Services, Command(s)
  PROVE  IInv'
<1>1. slots[s].restart \in BOOLEAN
  BY DEF IInv, SlotAt, IsSlot
<1>2. CASE Start(s)
  BY <1>2, SpawnStep DEF Start
<1>3. CASE Stop(s)
  BY <1>1, <1>3, StopSlotStep DEF Stop
<1>4. CASE Restart(s)
  BY <1>4, SpawnStep, StopSlotStep DEF Restart
<1> QED BY <1>2, <1>3, <1>4 DEF Command

-----------------------------------------------------------------------------
(* The report arm removes the slot, spawns its service again, or leaves it. *)
LEMMA ReportStep ==
  ASSUME IInv, NEW s \in Services, TakeReport(s)
  PROVE  IInv'
<1> DEFINE slot == slots[s]
           abort == mode.abortOnFailure /\ tasks[s].failed /\ ~slot.retired
<1>1. /\ phase = "run" /\ tasks[s].at = "reported"
      /\ UNCHANGED <<mode, config, awaited>>
      /\ \/ phase' = "run"
         \/ phase' = "stopping" /\ queue' = StopOrder /\ ~slot.retired
  BY DEF TakeReport, Serving
<1>2. /\ DOMAIN slots = Services /\ DOMAIN tasks = Services
      /\ SlotAt(s) /\ IsSlot(slot) /\ slot.held /\ slot.here
      /\ status \in [Services -> Statuses]
      /\ \A t \in Services : IsTask(tasks[t])
  BY <1>1 DEF IInv, SlotAt, TaskAt
<1>3. CASE slot.retired
  <2>1. /\ slots' = [slots EXCEPT ![s] = NoSlot]
        /\ tasks' = [t \in Services |-> IF t = s THEN NoTask ELSE Closing(tasks[t], {s})]
        /\ running' = running - 1
        /\ status' = [status EXCEPT ![s] = NewStatus]
    BY <1>3 DEF TakeReport
  <2>2. slots'[s] = NoSlot /\ IsSlot(slots'[s]) /\ ~slots'[s].held /\ ~slots'[s].here
    BY <1>2, <2>1 DEF NoSlot, IsSlot
  <2>3. IsTask(tasks'[s]) /\ tasks'[s].at = "none" /\ tasks'[s].run = Contract!Fresh
    BY <2>1, FreshTasks, Zenon
  <2>4. SlotAt(s)'
    BY <1>1, <1>2, <1>3, <2>2 DEF SlotAt, NoSlot, Planned
  <2>5. TaskAt(s)'
    BY <2>2, <2>3 DEF TaskAt, Ended
  <2>6. running' = Cardinality(Held')
    BY <1>2, <2>1, <2>2, HeldFacts
  <2>7. status' \in [Services -> Statuses]
    BY <2>1, <1>2 DEF Statuses, NewStatus, States
  <2>8. ASSUME NEW t \in Services \ {s}
        PROVE  IsTask(tasks'[t]) /\ tasks'[t].at = tasks[t].at /\ tasks'[t].run = tasks[t].run
    <3>1. tasks'[t] = Closing(tasks[t], {s})
      BY <2>1
    <3> QED BY <3>1, <1>2, ClosingFacts
  <2>9. DOMAIN slots' = Services /\ DOMAIN tasks' = Services
        /\ \A t \in Services \ {s} : slots'[t] = slots[t]
    BY <1>2, <2>1
  <2> QED BY <1>1, <1>3, <2>4, <2>5, <2>6, <2>7, <2>8, <2>9, SlotStep
<1>4. CASE ~slot.retired /\ slot.restart
  <2>1. /\ slots' = [slots EXCEPT ![s] = [Spawned(Idle(slot)) EXCEPT !.restart = FALSE]]
        /\ tasks' = [tasks EXCEPT ![s] = TaskOf(slot)]
        /\ status' = [status EXCEPT ![s] = NewStatus]
        /\ running' = running
    BY <1>4 DEF TakeReport
  <2>2. /\ IsSlot(slots'[s]) /\ slots'[s].held /\ slots'[s].here /\ ~slots'[s].retired
        /\ slots'[s].def = slot.def
    BY <1>2, <1>4, <2>1 DEF IsSlot
  <2>3. IsTask(tasks'[s]) /\ tasks'[s].at = "live"
    BY <1>2, <2>1, FreshTasks, Zenon
  <2>4. SlotAt(s)'
    BY <1>1, <1>2, <1>4, <2>2 DEF SlotAt, Planned
  <2>5. TaskAt(s)'
    BY <1>1, <2>2, <2>3 DEF TaskAt
  <2>6. running' = Cardinality(Held')
    BY <1>2, <2>1, <2>2, HeldFacts
  <2>7. status' \in [Services -> Statuses]
    BY <2>1, <1>2 DEF Statuses, NewStatus, States
  <2>8. DOMAIN slots' = Services /\ DOMAIN tasks' = Services
        /\ \A t \in Services \ {s} : slots'[t] = slots[t] /\ tasks'[t] = tasks[t]
    BY <1>2, <2>1
  <2> QED BY <1>1, <1>2, <2>2, <2>4, <2>5, <2>6, <2>7, <2>8, SlotStep
<1>5. CASE ~slot.retired /\ ~slot.restart
  <2>1. /\ slots' = [slots EXCEPT ![s] = Idle(slot)]
        /\ tasks' = [tasks EXCEPT ![s] = NoTask]
        /\ running' = running - 1
        /\ status' = status
    BY <1>5 DEF TakeReport
  <2>2. /\ IsSlot(slots'[s]) /\ ~slots'[s].held /\ slots'[s].here /\ ~slots'[s].retired
        /\ ~slots'[s].restart /\ slots'[s].def = slot.def
    BY <1>2, <1>5, <2>1 DEF IsSlot
  <2>3. IsTask(tasks'[s]) /\ tasks'[s].at = "none" /\ tasks'[s].run = Contract!Fresh
    BY <1>2, <2>1, FreshTasks, Zenon
  <2>4. SlotAt(s)'
    BY <1>1, <1>2, <1>5, <2>2 DEF SlotAt, Planned
  <2>5. TaskAt(s)'
    BY <2>2, <2>3 DEF TaskAt, Ended
  <2>6. running' = Cardinality(Held')
    BY <1>2, <2>1, <2>2, HeldFacts
  <2>7. DOMAIN slots' = Services /\ DOMAIN tasks' = Services
        /\ \A t \in Services \ {s} : slots'[t] = slots[t] /\ tasks'[t] = tasks[t]
    BY <1>2, <2>1
  <2> QED BY <1>1, <1>2, <2>1, <2>2, <2>4, <2>5, <2>6, <2>7, SlotStep
<1> QED BY <1>2, <1>3, <1>4, <1>5 DEF IsSlot

-----------------------------------------------------------------------------
(* The loop is left: by a shutdown, with nothing left to run, or at the end *)
(* of stop_all.                                                             *)
LEMMA LoopStep ==
  ASSUME IInv, Loop \/ Shutdown
  PROVE  IInv'
<1> USE DEF IInv
<1>1. CASE Shutdown
  <2>1. UNCHANGED <<mode, phase, config, slots, status, tasks, running, queue, awaited>>
    BY <1>1 DEF Shutdown
  <2> QED BY <2>1 DEF SlotAt, TaskAt, Ended, Held, StopAllAt, DependentsFirst, Planned
<1>2. CASE SeeShutdown
  <2>1. /\ UNCHANGED <<mode, config, slots, status, tasks, running, awaited>>
        /\ phase = "run" /\ phase' = "stopping" /\ queue' = StopOrder
    BY <1>2 DEF SeeShutdown, Serving
  <2>2. StopAllAt'
    <3>1. DependentsFirst(queue)'
      BY <2>1, StopOrderFacts DEF DependentsFirst, Held, Planned
    <3> QED BY <2>1, <3>1, StopOrderFacts DEF StopAllAt, Held
  <2> QED BY <2>1, <2>2 DEF SlotAt, TaskAt, Held, Planned
<1>3. ASSUME Return, UNCHANGED <<mode, config, status, tasks, running, awaited>>,
             \A s \in Services : slots[s].held => Ended(s)
      PROVE  IInv'
  <2>1. phase' = "over" /\ slots' = [s \in Services |-> [slots[s] EXCEPT !.pending = "none"]]
    BY <1>3 DEF Return
  <2>2. ASSUME NEW s \in Services PROVE SlotAt(s)' /\ slots'[s].held = slots[s].held
    <3>1. slots'[s] = [slots[s] EXCEPT !.pending = "none"] /\ SlotAt(s)
      BY <2>1
    <3>2. slots[s].here \/ slots'[s] = NoSlot
      <4>1. [NoSlot EXCEPT !.pending = "none"] = NoSlot
        BY DEF NoSlot
      <4> QED BY <3>1, <4>1 DEF SlotAt
    <3> QED BY <1>3, <3>1, <3>2 DEF SlotAt, IsSlot, Planned
  <2>3. \A s \in Services : TaskAt(s)'
    BY <1>3, <2>1, <2>2 DEF TaskAt, Ended
  <2>4. Held' = Held
    BY <2>2 DEF Held
  <2> QED BY <1>3, <2>1, <2>2, <2>3, <2>4
<1>4. CASE NothingLeft
  <2>1. running = 0
    <3>1. running \in Nat
      BY ServicesAssumption, FS_Subset, FS_CardinalityType DEF Held
    <3> QED BY <3>1, <1>4 DEF NothingLeft, Serving
  <2>2. Held = {}
    <3>1. IsFiniteSet(Held)
      BY ServicesAssumption, FS_Subset DEF Held
    <3> QED BY <3>1, <2>1, FS_EmptySet
  <2> QED BY <1>3, <1>4, <2>2 DEF NothingLeft, Held
<1>5. CASE Finish
  <2>1. \A s \in Services : slots[s].held => Ended(s)
    BY <1>5 DEF Finish, Here, SlotAt
  <2> QED BY <1>3, <1>5, <2>1 DEF Finish
<1>6. CASE StopNext
  <2> DEFINE s == Head(queue)
  <2>1. /\ phase = "stopping" /\ phase' = "stopping" /\ awaited = {} /\ queue # <<>>
        /\ UNCHANGED <<mode, config, slots, status, running>> /\ queue' = Tail(queue)
        /\ StopAllAt
    BY <1>6 DEF StopNext
  <2>2. /\ queue' \in Seq(Services) /\ s \in Services
        /\ \A t \in Range(queue) : t = s \/ t \in Range(queue')
        /\ \A t, d : Before(queue, t, d) => Before(queue', t, d)
        /\ \A d : Before(queue, s, d) => d \in Range(queue')
    BY <2>1, TailFacts DEF StopAllAt
  <2> HIDE DEF s
  <2>3. \/ /\ slots[s].held
           /\ tasks' = [tasks EXCEPT ![s] = Sent(@)] /\ awaited' = {s}
        \/ ~slots[s].held /\ tasks' = tasks /\ awaited' = {}
    BY <1>6, <2>1 DEF StopNext, s
  <2>4. ASSUME NEW t \in Services
        PROVE  /\ IsTask(tasks'[t]) /\ tasks'[t].at = tasks[t].at
               /\ tasks[t].at # "live" => tasks'[t] = tasks[t]
    BY <2>3, SentFacts DEF TaskAt
  <2>5. \A t \in Services : TaskAt(t)'
    BY <2>1, <2>4 DEF TaskAt
  <2>6. \A t \in Services : Ended(t) => Ended(t)'
    BY <2>4 DEF Ended
  <2>7. Held' = Held
    BY <2>1 DEF Held
  <2>8. DependentsFirst(queue)'
    BY <2>1, <2>2, <2>7 DEF StopAllAt, DependentsFirst, Planned
  <2>9. ASSUME NEW i \in 1..Len(slots[s].def.deps), slots[s].held,
               slots[s].def.deps[i].on \in Planned(config)
        PROVE  slots[s].def.deps[i].on \in Range(queue')
    BY <2>1, <2>2, <2>9 DEF StopAllAt, DependentsFirst, Held
  <2>10. StopAllAt'
    BY <2>1, <2>2, <2>3, <2>6, <2>7, <2>8, <2>9 DEF StopAllAt, Planned, Held
  <2> QED BY <2>1, <2>2, <2>3, <2>5, <2>7, <2>10 DEF SlotAt, Planned
<1>7. ASSUME phase = "stopping", UNCHANGED <<mode, phase, config, slots, status, running, queue>>,
             awaited' = {}, DOMAIN tasks' = Services,
             \A s \in Services : TaskAt(s)' /\ (Ended(s) \/ s \in awaited => Ended(s)')
      PROVE  IInv'
  <2>1. Held' = Held
    BY <1>7 DEF Held
  <2>2. DependentsFirst(queue)'
    BY <1>7, <2>1 DEF StopAllAt, DependentsFirst, Planned
  <2>3. StopAllAt'
    BY <1>7, <2>1, <2>2 DEF StopAllAt, Held
  <2> QED BY <1>7, <2>1, <2>3 DEF SlotAt, Planned
<1>8. CASE StopDone
  <2>1. \A s \in Services : TaskAt(s)' /\ (Ended(s) \/ s \in awaited => Ended(s)')
    BY <1>8 DEF StopDone, TaskAt, Ended
  <2> QED BY <1>7, <1>8, <2>1 DEF StopDone
<1>9. CASE StopTimesOut
  <2>1. PICK s \in awaited : ~Ended(s) /\ tasks' = [tasks EXCEPT ![s] = Aborted(tasks[s])]
    BY <1>9 DEF StopTimesOut
  <2>2. /\ s \in Services /\ \A t \in awaited : t = s
        /\ phase = "stopping" /\ UNCHANGED <<phase, slots>>
    BY <1>9, <2>1 DEF StopTimesOut, StopAllAt
  <2>3. IsTask(tasks'[s]) /\ tasks'[s].at = "aborted" /\ tasks'[s].run = Contract!Fresh
    BY <2>1, <2>2, FreshTasks, Zenon
  <2>4. \A t \in Services \ {s} : tasks'[t] = tasks[t]
    BY <2>1
  <2>5. slots[s].held
    BY <2>1, <2>2 DEF TaskAt, Ended
  <2>6. \A t \in Services : TaskAt(t)' /\ (Ended(t) \/ t \in awaited => Ended(t)')
    BY <2>2, <2>3, <2>4, <2>5 DEF TaskAt, Ended
  <2> QED BY <1>7, <1>9, <2>1, <2>6 DEF StopTimesOut
<1> QED BY <1>1, <1>2, <1>4, <1>5, <1>6, <1>8, <1>9 DEF Loop

-----------------------------------------------------------------------------
(* What reload() makes of one slot before it spawns anything.               *)
LEMMA ReloadedSlotFacts ==
  ASSUME NEW s \in Services, SlotAt(s), NEW cfg
  PROVE  LET slot == ReloadedSlot(s, cfg)
         IN  /\ IsSlot(slot)
             /\ slot.held = slots[s].held
             /\ slot.here <=> s \in Planned(cfg) \/ slots[s].held
             /\ ~slot.here => slot = NoSlot
             /\ slot.retired <=> s \notin Planned(cfg) /\ slots[s].held
             /\ slot.restart <=> /\ slots[s].held /\ s \in Planned(cfg)
                                /\ \/ slots[s].retired \/ slots[s].restart
                                   \/ slots[s].def # cfg.svc[s]
             /\ slots[s].pending = "none" => slot.pending = "none"
             /\ slot.here => slot.def = IF s \in Planned(cfg) THEN cfg.svc[s] ELSE slots[s].def
             /\ s \in Added(cfg) /\ ~slot.restart /\ ~slot.held
                  <=> s \in Planned(cfg) /\ ~slots[s].here
<1> DEFINE slot == ReloadedSlot(s, cfg)
<1>1. CASE s \in Planned(cfg) /\ ~slots[s].here
  <2>0. s \in Added(cfg) /\ s \notin Changed(cfg) /\ s \notin Removed(cfg)
    BY <1>1 DEF Added, Changed, Removed
  <2>1. slot = Inserted(cfg.svc[s])
    BY <1>1, <2>0, Zenon DEF ReloadedSlot
  <2> QED BY <1>1, <2>1 DEF SlotAt, IsSlot, NoSlot, Added
<1>2. CASE s \in Planned(cfg) /\ slots[s].retired
  <2>1. slot = [slots[s] EXCEPT !.retired = FALSE, !.def = cfg.svc[s], !.restart = slots[s].held]
    <3>1. s \in Added(cfg) /\ s \notin Changed(cfg) /\ s \notin Removed(cfg) /\ slots[s].here
      BY <1>2 DEF Added, Changed, Removed, SlotAt
    <3> QED BY <3>1, Zenon DEF ReloadedSlot
  <2> HIDE DEF slot
  <2> DEFINE def == cfg.svc[s]
  <2> HIDE DEF def
  <2>2. slot = [slots[s] EXCEPT !.retired = FALSE, !.def = def, !.restart = slots[s].held]
    BY <2>1 DEF def
  <2>3. /\ IsSlot(slot) /\ slot.held = slots[s].held /\ slot.here = slots[s].here
        /\ ~slot.retired /\ slot.restart = slots[s].held /\ slot.def = def
        /\ slot.pending = slots[s].pending
    BY <2>2 DEF SlotAt, IsSlot
  <2> QED BY <1>2, <2>3 DEF SlotAt, def, slot
<1>3. CASE s \in Planned(cfg) /\ slots[s].here /\ ~slots[s].retired
  <2>1. CASE slots[s].def # cfg.svc[s]
    <3> DEFINE def == cfg.svc[s]
    <3>1. slot = [slots[s] EXCEPT !.def = def, !.restart = @ \/ slots[s].held]
      <4>1. s \notin Added(cfg) /\ s \in Changed(cfg) /\ s \notin Removed(cfg)
        BY <1>3, <2>1 DEF Added, Changed, Removed
      <4> QED BY <4>1, Zenon DEF ReloadedSlot
    <3> HIDE DEF slot, def
    <3>2. /\ IsSlot(slot) /\ slot.held = slots[s].held /\ slot.here = slots[s].here
          /\ ~slot.retired /\ (slot.restart <=> slots[s].held) /\ slot.def = def
          /\ slot.pending = slots[s].pending
      BY <1>3, <3>1 DEF SlotAt, IsSlot
    <3> QED BY <1>3, <2>1, <3>2 DEF SlotAt, Added, def, slot
  <2>2. CASE slots[s].def = cfg.svc[s]
    <3>1. slot = slots[s]
      BY <1>3, <2>2 DEF ReloadedSlot, Added, Changed, Removed
    <3> QED BY <1>3, <2>2, <3>1 DEF SlotAt, Added
  <2> QED BY <2>1, <2>2
<1>4. CASE s \notin Planned(cfg) /\ slots[s].held
  <2>1. slot = [slots[s] EXCEPT !.retired = TRUE, !.restart = FALSE]
    BY <1>4 DEF ReloadedSlot, Added, Changed, Removed, Here, SlotAt
  <2> HIDE DEF slot
  <2>2. /\ IsSlot(slot) /\ slot.held /\ slot.here /\ slot.retired /\ ~slot.restart
        /\ slot.pending = slots[s].pending /\ slot.def = slots[s].def
    BY <1>4, <2>1 DEF SlotAt, IsSlot
  <2> QED BY <1>4, <2>2 DEF slot, Added
<1>5. CASE s \notin Planned(cfg) /\ ~slots[s].held
  <2>1. slot = NoSlot
    <3>1. s \notin Added(cfg) /\ s \notin Changed(cfg) /\ (s \in Removed(cfg) <=> slots[s].here)
      BY <1>5 DEF Added, Changed, Removed, Here
    <3>2. CASE slots[s].here
      BY <1>5, <3>1, <3>2, Zenon DEF ReloadedSlot
    <3>3. CASE ~slots[s].here
      <4>1. slot = slots[s]
        BY <3>1, <3>3, Zenon DEF ReloadedSlot
      <4> QED BY <3>3, <4>1 DEF SlotAt
    <3> QED BY <3>2, <3>3
  <2> HIDE DEF slot
  <2>2. /\ IsSlot(slot) /\ ~slot.here /\ ~slot.held /\ ~slot.retired /\ ~slot.restart
        /\ slot.held = slots[s].held /\ slot.pending = "none"
    BY <1>5, <2>1 DEF NoSlot, IsSlot, SlotAt
  <2> QED BY <1>5, <2>1, <2>2 DEF slot, Added
<1> QED BY <1>1, <1>2, <1>3, <1>4, <1>5 DEF SlotAt, IsSlot

\* A reload spawns the services that are new, and no task of an old one.
LEMMA ReloadFacts ==
  ASSUME IInv, NEW cfg \in NextConfigs, Reload(cfg)
  PROVE  LET started == {s \in Planned(cfg) : ~slots[s].here}
         IN  /\ phase = "run" /\ UNCHANGED <<mode, phase, awaited>> /\ config' = cfg
             /\ \A s \in Services : slots[s].pending = "none"
             /\ Planned(cfg) \subseteq Services
             /\ DOMAIN slots' = Services /\ DOMAIN tasks' = Services
             /\ status' \in [Services -> Statuses]
             /\ running' = running + Cardinality(started)
             /\ \A s \in Services :
                  /\ \E deps : slots'[s] \in
                       {IF s \in started THEN Spawned(slot) ELSE slot :
                          slot \in {ReloadedSlot(s, cfg),
                                   [ReloadedSlot(s, cfg) EXCEPT !.deps = deps]}}
                  /\ s \notin Planned(cfg) => slots'[s] = ReloadedSlot(s, cfg)
                  /\ IsTask(tasks'[s])
                  /\ s \in started => /\ tasks'[s].at = "live"
                                      /\ tasks'[s].run = Contract!Fresh
                  /\ s \notin started =>
                       /\ tasks'[s].at = tasks[s].at /\ tasks'[s].run.state = tasks[s].run.state
                       /\ tasks[s].at # "live" => tasks'[s].run = tasks[s].run
                  /\ slots[s].held /\ s \notin Planned(cfg) /\ tasks'[s].at = "live" =>
                       tasks'[s].run.asked
<1> DEFINE next == [s \in Services |-> ReloadedSlot(s, cfg)]
           present == {s \in Services : next[s].here}
           wired == [s \in Services |->
                       IF s \in present \cap Planned(cfg)
                       THEN [next[s] EXCEPT !.deps = Wired(cfg, s, present)] ELSE next[s]]
           told == {s \in Removed(cfg) \cup Changed(cfg) : slots[s].held}
           begun == {s \in Added(cfg) : ~next[s].restart /\ ~next[s].held}
           gone == Here \ present
           started == {s \in Planned(cfg) : ~slots[s].here}
<1>1. /\ phase = "run" /\ UNCHANGED <<mode, phase, awaited>> /\ config' = cfg
      /\ \A s \in Here : slots[s].pending = "none"
  BY DEF Reload, Serving
<1>2. /\ slots' = [s \in Services |-> IF s \in begun THEN Spawned(wired[s]) ELSE wired[s]]
      /\ status' = [s \in Services |-> IF s \in begun \cup gone THEN NewStatus ELSE status[s]]
      /\ tasks' = [s \in Services |->
                     CASE s \in begun -> TaskOf(wired[s])
                       [] s \in told -> Closing(Sent(tasks[s]), gone)
                       [] OTHER -> Closing(tasks[s], gone)]
      /\ running' = running + Cardinality(begun)
  BY Zenon DEF Reload
<1>3. Planned(cfg) \subseteq Services
  BY ConfigsAssumption DEF Configs, Planned, Range
<1>4. begun = started
  <2>1. \A s \in Services : s \in begun <=> s \in started
    BY ReloadedSlotFacts, Zenon DEF IInv, Added
  <2>2. begun \subseteq Services /\ started \subseteq Services
    BY <1>3 DEF Added
  <2> QED BY <2>1, <2>2
<1>5. \A s \in Services : slots[s].pending = "none"
  BY <1>1 DEF IInv, SlotAt, NoSlot, Here
<1>6. status' \in [Services -> Statuses]
  <2> HIDE DEF begun, gone
  <2>1. status \in [Services -> Statuses] /\ NewStatus \in Statuses
    BY DEF IInv, Statuses, NewStatus, States
  <2> QED BY <1>2, <2>1
<1>7. DOMAIN slots' = Services /\ DOMAIN tasks' = Services
  BY <1>2, Zenon
<1>8. ASSUME NEW s \in Services
      PROVE  /\ \E deps : slots'[s] \in
                  {IF s \in started THEN Spawned(slot) ELSE slot :
                     slot \in {ReloadedSlot(s, cfg),
                              [ReloadedSlot(s, cfg) EXCEPT !.deps = deps]}}
             /\ s \notin Planned(cfg) => slots'[s] = ReloadedSlot(s, cfg)
  <2> DEFINE deps == Wired(cfg, s, present)
  <2>1. slots'[s] = IF s \in started THEN Spawned(wired[s]) ELSE wired[s]
    BY <1>2, <1>4
  <2>2. /\ wired[s] \in {ReloadedSlot(s, cfg), [ReloadedSlot(s, cfg) EXCEPT !.deps = deps]}
        /\ s \notin Planned(cfg) => wired[s] = ReloadedSlot(s, cfg)
    OBVIOUS
  <2> HIDE DEF deps, wired, started
  <2>3. slots'[s] \in {IF s \in started THEN Spawned(slot) ELSE slot :
                         slot \in {ReloadedSlot(s, cfg),
                                  [ReloadedSlot(s, cfg) EXCEPT !.deps = deps]}}
    BY <2>1, <2>2, Zenon
  <2>4. s \notin Planned(cfg) => slots'[s] = ReloadedSlot(s, cfg)
    BY <2>1, <2>2 DEF started
  <2> QED BY <2>3, <2>4
<1>9. ASSUME NEW s \in Services
      PROVE  /\ IsTask(tasks'[s])
             /\ s \in started => tasks'[s].at = "live" /\ tasks'[s].run = Contract!Fresh
             /\ s \notin started =>
                  /\ tasks'[s].at = tasks[s].at /\ tasks'[s].run.state = tasks[s].run.state
                  /\ tasks[s].at # "live" => tasks'[s].run = tasks[s].run
             /\ slots[s].held /\ s \notin Planned(cfg) /\ tasks'[s].at = "live" =>
                  tasks'[s].run.asked
  <2> HIDE DEF begun, told, gone, wired, started
  <2>1. IsTask(tasks[s])
    BY DEF IInv, TaskAt
  <2>2. CASE s \in begun
    <3>0. s \notin told
      BY <1>4, <2>2 DEF IInv, SlotAt, told, started
    <3>1. tasks'[s] = TaskOf(wired[s])
      BY <1>2, <2>2, <3>0
    <3>2. IsTask(tasks'[s]) /\ tasks'[s].at = "live" /\ tasks'[s].run = Contract!Fresh
      <4>1. \A x : IsTask(TaskOf(x)) /\ TaskOf(x).at = "live" /\ TaskOf(x).run = Contract!Fresh
        BY FreshTasks, Zenon
      <4> QED BY <3>1, <4>1
    <3>3. s \in Planned(cfg)
      BY <1>4, <2>2 DEF started
    <3> QED BY <1>4, <2>2, <3>2, <3>3
  <2>3. CASE s \notin begun /\ s \in told
    <3>1. tasks'[s] = Closing(Sent(tasks[s]), gone)
      BY <1>2, <2>3
    <3>2. IsTask(Sent(tasks[s]))
      BY <2>1, SentFacts
    <3> QED BY <1>4, <2>1, <2>3, <3>1, <3>2, SentFacts, ClosingFacts
  <2>4. CASE s \notin begun /\ s \notin told
    <3>1. tasks'[s] = Closing(tasks[s], gone)
      BY <1>2, <2>4
    <3>2. ~(slots[s].held /\ s \notin Planned(cfg))
      BY <2>4 DEF IInv, SlotAt, told, Removed, Here
    <3> QED BY <1>4, <2>1, <2>4, <3>1, <3>2, ClosingFacts
  <2> QED BY <2>2, <2>3, <2>4
<1> HIDE DEF begun, wired, told, gone
<1> QED BY <1>1, <1>2, <1>3, <1>4, <1>5, <1>6, <1>7, <1>8, <1>9

\* A reload.
LEMMA ReloadStep ==
  ASSUME IInv, NEW cfg \in NextConfigs, Reload(cfg)
  PROVE  IInv'
<1> DEFINE started == {s \in Planned(cfg) : ~slots[s].here}
<1>1. /\ phase = "run" /\ UNCHANGED <<mode, phase, awaited>> /\ config' = cfg
      /\ Planned(cfg) \subseteq Services
      /\ DOMAIN slots' = Services /\ DOMAIN tasks' = Services
      /\ status' \in [Services -> Statuses]
      /\ running' = running + Cardinality(started)
  BY ReloadFacts, Zenon
<1>2. ASSUME NEW s \in Services
      PROVE  /\ SlotAt(s)'
             /\ s \in started <=> slots'[s].held /\ ~slots[s].held
             /\ slots[s].held => slots'[s].held
  <2> DEFINE old == ReloadedSlot(s, cfg)
  <2>1. PICK deps : slots'[s] \in
                {IF s \in started THEN Spawned(slot) ELSE slot :
                   slot \in {old, [old EXCEPT !.deps = deps]}}
    BY ReloadFacts, Zenon
  <2>2. s \notin Planned(cfg) => slots'[s] = old
    BY ReloadFacts, Zenon
  <2>3. SlotAt(s)
    BY DEF IInv
  <2>4. /\ IsSlot(old) /\ old.held = slots[s].held
        /\ old.here <=> s \in Planned(cfg) \/ slots[s].held
        /\ ~old.here => old = NoSlot
        /\ old.retired <=> s \notin Planned(cfg) /\ slots[s].held
        /\ old.restart => slots[s].held
        /\ s \in Planned(cfg) => old.def = cfg.svc[s]
    BY <2>3, ReloadedSlotFacts, Zenon
  <2> HIDE DEF old
  <2>5. PICK slot \in {old, [old EXCEPT !.deps = deps]} :
          slots'[s] = IF s \in started THEN Spawned(slot) ELSE slot
    BY <2>1
  <2>6. /\ IsSlot(slot) /\ slot.held = old.held /\ slot.here = old.here /\ slot.def = old.def
        /\ slot.retired = old.retired /\ slot.restart = old.restart
    BY <2>4, <2>5 DEF IsSlot
  <2>7. CASE s \in started
    <3>1. slots'[s] = Spawned(slot)
      BY <2>5, <2>7
    <3>2. /\ IsSlot(slots'[s]) /\ slots'[s].held /\ slots'[s].here = slot.here
          /\ slots'[s].def = slot.def /\ slots'[s].retired = slot.retired
          /\ slots'[s].restart = slot.restart
      BY <2>6, <3>1 DEF IsSlot
    <3> QED BY <1>1, <2>3, <2>4, <2>6, <2>7, <3>2 DEF SlotAt, Planned
  <2>8. CASE s \notin started
    <3>1. slots'[s] = slot
      BY <2>5, <2>8
    <3> QED BY <1>1, <2>2, <2>3, <2>4, <2>6, <2>8, <3>1 DEF SlotAt, Planned
  <2> QED BY <2>7, <2>8
<1>3. ASSUME NEW s \in Services PROVE TaskAt(s)'
  <2>1. /\ IsTask(tasks'[s])
        /\ s \in started => tasks'[s].at = "live" /\ tasks'[s].run = Contract!Fresh
        /\ s \notin started =>
             /\ tasks'[s].at = tasks[s].at
             /\ tasks[s].at # "live" => tasks'[s].run = tasks[s].run
    BY ReloadFacts, Zenon
  <2>2. TaskAt(s)
    BY DEF IInv
  <2> HIDE DEF started
  <2> QED BY <1>1, <1>2, <2>1, <2>2 DEF TaskAt
<1>4. running' = Cardinality(Held')
  <2>1. Held' = Held \cup started /\ Held \cap started = {}
    BY <1>1, <1>2 DEF Held
  <2>2. IsFiniteSet(Held) /\ IsFiniteSet(started)
    BY <1>1, ServicesAssumption, FS_Subset, Held \subseteq Services, started \subseteq Services DEF Held
  <2> HIDE DEF started
  <2>3. Cardinality(Held \cup started) = Cardinality(Held) + Cardinality(started)
    <3>1. Cardinality(Held \cup started)
            = Cardinality(Held) + Cardinality(started) - Cardinality(Held \cap started)
      BY <2>2, FS_Union
    <3>2. Cardinality(Held \cap started) = 0
      BY <2>1, FS_EmptySet
    <3>3. Cardinality(Held) \in Nat /\ Cardinality(started) \in Nat
      BY <2>2, FS_CardinalityType
    <3> QED BY <3>1, <3>2, <3>3
  <2> QED BY <1>1, <2>1, <2>3 DEF IInv
<1> QED BY <1>1, <1>2, <1>3, <1>4 DEF IInv, Configs

-----------------------------------------------------------------------------
(* Every step keeps the invariant.                                          *)
LEMMA NextIInv == IInv /\ [Next]_vars => IInv'
<1> SUFFICES ASSUME IInv, [Next]_vars PROVE IInv'
  OBVIOUS
<1>1. CASE Loop \/ Shutdown
  BY <1>1, LoopStep
<1>2. ASSUME NEW s \in Services, Task(s) \/ Probe(s) \/ TakeReport(s) \/ Command(s)
      PROVE  IInv'
  BY <1>2, TaskStep, ReportStep, CommandStep
<1>3. ASSUME NEW cfg \in NextConfigs, Reload(cfg)
      PROVE  IInv'
  BY <1>3, ReloadStep
<1>4. CASE UNCHANGED vars
  BY <1>4 DEF vars, IInv, SlotAt, TaskAt, Ended, Held, StopAllAt, DependentsFirst, Planned
<1> QED BY <1>1, <1>2, <1>3, <1>4, ServicesAssumption DEF Next

\* The invariant the others follow from.
LEMMA Inductive == Spec => []IInv
<1> QED BY InitIInv, NextIInv, PTL DEF Spec

\* Type correctness: among the rest, the counter of live tasks stays between 0 and
\* the number of services.
THEOREM TypeCorrect == Spec => []TypeOK
<1>1. IInv => TypeOK
  <2> SUFFICES ASSUME IInv PROVE TypeOK
    OBVIOUS
  <2>1. running \in 0..Cardinality(Services)
    <3>1. Held \in SUBSET Services
      BY DEF Held
    <3>2. Cardinality(Held) \in Nat /\ Cardinality(Services) \in Nat
          /\ Cardinality(Held) <= Cardinality(Services)
      BY <3>1, ServicesAssumption, FS_Subset, FS_CardinalityType
    <3> QED BY <3>2 DEF IInv
  <2>2. ASSUME NEW s \in Services
        PROVE  /\ slots[s].held \in BOOLEAN /\ slots[s].pending \in {"none", "stop", "restart"}
               /\ slots[s].retired \/ slots[s].restart => slots[s].here
    BY DEF IInv, SlotAt, IsSlot
  <2>3. ASSUME NEW s \in Services
        PROVE  /\ tasks[s].at \in {"none", "live", "reported", "aborted"}
               /\ tasks[s].run \in Contract!Runs
    BY DEF IInv, TaskAt, IsTask
  <2> QED BY <2>1, <2>2, <2>3 DEF IInv, TypeOK, Configs
<1> QED BY <1>1, Inductive, PTL

\* The debug_asserts of run(), reload() and insert_slot hold after any sequence of
\* commands, reloads and reports: `running' is the number of slots that hold a
\* task, and a slot holds one exactly while there is one.
THEOREM CounterStaysExact == Spec => []CounterIsExact
<1>1. IInv => CounterIsExact
  BY DEF IInv, TaskAt, Held, CounterIsExact
<1> QED BY <1>1, Inductive, PTL

\* When run() has returned every task has ended and no process group is left.
THEOREM SupervisorLeavesNothing == Spec => []NothingSurvives
<1>1. IInv => NothingSurvives
  <2> SUFFICES ASSUME IInv, phase = "over", NEW s \in Services
               PROVE  Ended(s) /\ ~tasks[s].run.live
    BY DEF NothingSurvives
  <2>1. TaskAt(s)
    BY DEF IInv
  <2> QED BY <2>1 DEF TaskAt, Ended, Contract!Fresh
<1> QED BY <1>1, Inductive, PTL

-----------------------------------------------------------------------------
(* The task of a service that a reload dropped has been asked to stop, and  *)
(* stays asked.                                                             *)
Told == \A s \in Services : slots[s].retired /\ tasks[s].at = "live" => tasks[s].run.asked

\* A request is never taken back by the run itself.
LEMMA AskedOnward ==
  ASSUME NEW r \in Contract!Runs, NEW q \in Onward[r], r.asked
  PROVE  q.asked
BY DEF Onward, Contract!Step, Contract!Ask, Contract!Launch, Contract!Come, Contract!WindDown,
       Contract!Die, Contract!Settle, Contract!Cut

LEMMA NextTold == IInv /\ Told /\ [Next]_vars => Told'
<1> SUFFICES ASSUME IInv, Told, [Next]_vars, NEW s \in Services,
                    slots'[s].retired, tasks'[s].at = "live"
             PROVE  tasks'[s].run.asked
  BY DEF Told
<1>1. /\ DOMAIN slots = Services /\ DOMAIN tasks = Services
      /\ \A t \in Services : IsTask(tasks[t]) /\ IsSlot(slots[t])
      /\ slots[s].retired => slots[s].held
      /\ ~NoSlot.retired
  BY DEF IInv, SlotAt, TaskAt, NoSlot
<1>2. ASSUME slots[s].retired, tasks'[s].at = tasks[s].at,
             tasks[s].run.asked => tasks'[s].run.asked
      PROVE  tasks'[s].run.asked
  BY <1>2 DEF Told
<1>3. ASSUME slots[s].retired, tasks'[s] = Sent(tasks[s])
      PROVE  tasks'[s].run.asked
  <2> DEFINE x == tasks[s]
  <2>1. IsTask(x)
    BY <1>1
  <2> HIDE DEF x
  <2>2. /\ Sent(x).at = x.at
        /\ x.run.asked => Sent(x).run.asked
    BY <2>1, SentFacts
  <2> QED BY <1>2, <1>3, <2>2 DEF x
<1>4. ASSUME slots[s].retired, tasks'[s] = tasks[s]
      PROVE  tasks'[s].run.asked
  BY <1>2, <1>4
<1>5. ASSUME NEW t \in Services, Task(t) \/ Probe(t)
      PROVE  tasks'[s].run.asked
  <2>1. slots'[s].retired = slots[s].retired
    BY <1>5 DEF Task, Probe, DependencyReady, DependencyBlocked, StoppedWaiting, RunStep,
                UnchangedBySupervision
  <2>2. CASE RunStep(t) /\ t = s
    <3>1. PICK run \in Onward[tasks[s].run] :
            tasks' = [tasks EXCEPT ![s] =
                        IF run.over THEN Report(run.state \notin {"Exited", "Stopped"})
                        ELSE [tasks[s] EXCEPT !.run = run]]
      BY <2>2 DEF RunStep
    <3>2. tasks'[s] = IF run.over THEN Report(run.state \notin {"Exited", "Stopped"})
                      ELSE [tasks[s] EXCEPT !.run = run]
      BY <1>1, <3>1
    <3>3. ~run.over /\ tasks'[s].run = run /\ tasks[s].at = "live"
      <4>1. Report(run.state \notin {"Exited", "Stopped"}).at = "reported"
        BY FreshTasks
      <4> QED BY <1>1, <2>2, <3>2, <4>1 DEF IsTask, RunStep, Runs
    <3>4. tasks[s].run.asked /\ tasks[s].run \in Contract!Runs
      BY <1>1, <2>1, <3>3 DEF Told, IsTask
    <3> QED BY <3>3, <3>4, AskedOnward
  <2>3. CASE DependencyReady(t) /\ t = s
    <3>1. tasks'[s] = [tasks[s] EXCEPT !.todo = Tail(@)]
      BY <1>1, <2>3 DEF DependencyReady
    <3>2. tasks'[s].run = tasks[s].run /\ tasks'[s].at = tasks[s].at
      BY <1>1, <3>1 DEF IsTask
    <3> QED BY <1>2, <2>1, <3>2
  <2>4. CASE (DependencyBlocked(t) \/ StoppedWaiting(t)) /\ t = s
    <3>1. PICK failed \in BOOLEAN : tasks' = [tasks EXCEPT ![s] = Report(failed)]
      BY <2>4 DEF DependencyBlocked, StoppedWaiting
    <3>2. Report(failed).at = "reported"
      BY FreshTasks
    <3> HIDE DEF Report
    <3> QED BY <1>1, <3>1, <3>2
  <2>5. CASE t # s \/ Probe(t)
    <3>1. tasks'[s] = tasks[s]
      BY <1>1, <1>5, <2>5
         DEF Task, Probe, DependencyReady, DependencyBlocked, StoppedWaiting, RunStep
    <3> QED BY <1>4, <2>1, <3>1
  <2> QED BY <1>5, <2>2, <2>3, <2>4, <2>5 DEF Task
<1>6. ASSUME NEW t \in Services, TakeReport(t)
      PROVE  tasks'[s].run.asked
  <2>1. CASE t # s
    <3>1. slots'[s] = slots[s]
      BY <1>1, <1>6, <2>1 DEF TakeReport
    <3>2. tasks'[s] = tasks[s] \/ tasks'[s] = Closing(tasks[s], {t})
      BY <1>1, <1>6, <2>1 DEF TakeReport
    <3>3. tasks'[s].at = tasks[s].at /\ tasks'[s].run = tasks[s].run
      BY <1>1, <3>2, ClosingFacts
    <3> QED BY <1>2, <3>1, <3>3
  <2>2. CASE t = s
    <3>1. \/ slots'[s] = NoSlot
          \/ ~slots[s].retired /\ slots'[s] \in
               {Idle(slots[s]), [Spawned(Idle(slots[s])) EXCEPT !.restart = FALSE]}
      BY <1>1, <1>6, <2>2 DEF TakeReport
    <3>2. ~slots'[s].retired
      BY <1>1, <3>1 DEF IsSlot
    <3> QED BY <3>2
  <2> QED BY <2>1, <2>2
<1>7. ASSUME NEW t \in Services, Command(t)
      PROVE  tasks'[s].run.asked
  <2>1. CASE SpawnNow(t) /\ ~slots[t].held
    <3>1. slots'[s].retired = slots[s].retired /\ (t = s => ~slots[s].retired)
      BY <1>1, <2>1 DEF SpawnNow, IsSlot
    <3>2. tasks'[s] = tasks[s]
      BY <1>1, <2>1, <3>1 DEF SpawnNow
    <3> QED BY <1>4, <3>1, <3>2
  <2>2. ASSUME NEW command, NEW restart, StopSlot(t, command, restart)
        PROVE  tasks'[s].run.asked
    <3>1. slots'[s].retired = slots[s].retired
      BY <1>1, <2>2 DEF StopSlot, IsSlot
    <3>2. tasks'[s] = tasks[s] \/ tasks'[s] = Sent(tasks[s])
      BY <1>1, <2>2 DEF StopSlot
    <3> QED BY <1>3, <1>4, <3>1, <3>2
  <2> QED BY <1>7, <2>1, <2>2 DEF Command, Start, Stop, Restart
<1>8. ASSUME NEW cfg \in NextConfigs, Reload(cfg)
      PROVE  tasks'[s].run.asked
  <2>1. s \notin Planned(cfg) /\ slots[s].held
    <3>1. IInv'
      BY <1>8, ReloadStep
    <3>2. s \notin Planned(config)' /\ slots'[s].held
      BY <3>1 DEF IInv, SlotAt
    <3>3. config' = cfg
      BY <1>8, ReloadFacts
    <3>4. s \notin Planned(cfg)
      BY <3>2, <3>3 DEF Planned
    <3>5. slots'[s] = ReloadedSlot(s, cfg) /\ ReloadedSlot(s, cfg).held = slots[s].held
      BY <1>8, <3>4, ReloadFacts, ReloadedSlotFacts DEF IInv
    <3> QED BY <3>2, <3>4, <3>5
  <2> QED BY <1>8, <2>1, ReloadFacts
<1>9. CASE Loop \/ Shutdown
  <2>1. slots'[s].retired = slots[s].retired
    BY <1>1, <1>9 DEF Loop, Shutdown, SeeShutdown, NothingLeft, StopNext, StopDone, StopTimesOut,
                      Finish, Return, IsSlot
  <2>2. tasks'[s] = tasks[s] \/ tasks'[s] = Sent(tasks[s]) \/ tasks'[s].at = "aborted"
    <3>1. Aborted(tasks[s]).at = "aborted"
      BY FreshTasks
    <3> HIDE DEF Aborted
    <3> QED BY <1>1, <1>9, <3>1
            DEF Loop, Shutdown, SeeShutdown, NothingLeft, StopNext, StopDone, StopTimesOut, Finish
  <2> QED BY <1>3, <1>4, <2>1, <2>2
<1>10. CASE UNCHANGED vars
  BY <1>4, <1>10 DEF vars
<1> QED BY <1>5, <1>6, <1>7, <1>8, <1>9, <1>10, ServicesAssumption DEF Next

LEMMA AlwaysTold == Spec => [](IInv /\ Told)
<1>1. Init => Told
  <2> SUFFICES ASSUME Init, NEW s \in Services PROVE ~slots[s].retired
    BY DEF Told
  <2>1. s \notin Planned(config) => slots[s] = NoSlot
    BY Zenon DEF Init
  <2> QED BY <2>1, InitIInv DEF IInv, SlotAt, NoSlot
<1> QED BY <1>1, InitIInv, NextIInv, NextTold, PTL DEF Spec

\* stop_all stops a service only once everything that depends on it has ended.
\* It rests on the plan's order and on what reload() keeps: the slots that are
\* not retiring are the planned ones, with the definitions the plan was made of,
\* and the retiring ones have been asked to stop.
THEOREM DependentsAreStoppedFirst == Spec => []DependentsStopFirst
<1>1. IInv /\ Told => DependentsStopFirst
  <2> SUFFICES ASSUME IInv, Told, phase = "stopping", NEW s \in Here,
                      NEW i \in 1..Len(slots[s].def.deps), slots[s].held,
                      slots[s].def.deps[i].on \notin Range(queue), ~Ended(s)
               PROVE  /\ {s, slots[s].def.deps[i].on} \cap Planned(config) = {}
                      /\ tasks[s].run.asked
    BY DEF DependentsStopFirst
  <2> DEFINE d == slots[s].def.deps[i].on
  <2>1. StopAllAt /\ s \in Held /\ s \in Services /\ SlotAt(s) /\ config \in Configs
    BY DEF IInv, Held, Here
  <2>2. CASE d \in Planned(config)
    <3>1. s \notin awaited
      BY <2>1, <2>2 DEF StopAllAt
    <3>2. s \notin Range(queue)
      <4> SUFFICES ASSUME s \in Range(queue) PROVE FALSE
        OBVIOUS
      <4>1. queue \in Seq(Services) /\ Before(queue, s, d)
        BY <2>1, <2>2 DEF StopAllAt, DependentsFirst
      <4>2. PICK k \in 1..Len(queue) : queue[k] = s
        BY <4>1 DEF Range
      <4>3. PICK m \in (k + 1)..Len(queue) : queue[m] = d
        BY <4>1, <4>2 DEF Before
      <4>4. m \in DOMAIN queue
        BY <4>1, <4>3
      <4> QED BY <4>3, <4>4 DEF Range
    <3> QED BY <2>1, <3>1, <3>2 DEF StopAllAt
  <2>3. CASE d \notin Planned(config)
    <3>1. s \notin Planned(config)
      <4> SUFFICES ASSUME s \in Planned(config) PROVE FALSE
        OBVIOUS
      <4>1. slots[s].def = config.svc[s]
        BY <2>1 DEF SlotAt, Held
      <4>2. config.plan \in Seq(Services)
        BY <2>1, ConfigsAssumption
      <4>3. PICK j \in 1..Len(config.plan) : config.plan[j] = s
        BY <4>2 DEF Planned, Range
      <4>4. i \in 1..Len(config.svc[config.plan[j]].deps) /\ config.svc[config.plan[j]].deps[i].on = d
        BY <4>1, <4>3
      <4>5. PICK k \in 1..(j - 1) : config.plan[k] = config.svc[config.plan[j]].deps[i].on
        BY <2>1, <4>4, ConfigsAssumption, Zenon
      <4>6. k \in DOMAIN config.plan
        BY <4>2, <4>5
      <4> QED BY <2>3, <4>4, <4>5, <4>6 DEF Planned, Range
    <3>2. slots[s].retired
      BY <2>1, <3>1 DEF SlotAt, Held
    <3>3. tasks[s].at = "live"
      BY <2>1 DEF Ended, IInv, TaskAt, IsTask
    <3> QED BY <2>1, <2>3, <3>1, <3>2, <3>3 DEF Told
  <2> QED BY <2>2, <2>3
<1> QED BY <1>1, AlwaysTold, PTL

-----------------------------------------------------------------------------
\* No step of a run leads back to Pending: only a spawn puts a run there.
LEMMA OnwardFacts ==
  ASSUME NEW r \in Contract!Runs, NEW q \in Onward[r]
  PROVE  q.state = "Pending" => r.state = "Pending" \/ q.over
BY DEF Onward, Contract!Step, Contract!Ask, Contract!Launch, Contract!Come, Contract!WindDown,
       Contract!Die, Contract!Settle, Contract!Cut, Contract!CanTransition, Contract!Edges,
       Contract!Terminal

\* A run of s begins in this step.
Begins(s) == /\ tasks'[s].at = "live" /\ tasks'[s].run.state = "Pending"
             /\ tasks[s].at # "live" \/ tasks[s].run.state # "Pending"

\* A service's next run begins only after the last one has reported, and never once
\* the loop was left: spawn_slot's callers all look at the handle first.
THEOREM OneRunAtATime == Spec => OneRunPerService
<1>1. ASSUME IInv, [Next]_vars, NEW s \in Services, Begins(s)
      PROVE  tasks[s].at \in {"none", "reported"} /\ phase = "run"
  <2> DEFINE Goal == tasks[s].at \in {"none", "reported"} /\ phase = "run"
  <2>0. /\ DOMAIN tasks = Services /\ \A t \in Services : IsTask(tasks[t])
        /\ \A t \in Services : tasks[t].at # "none" => slots[t].held
    BY <1>1 DEF IInv, TaskAt
  <2>1. tasks'[s] # tasks[s]
    BY <1>1 DEF Begins
  <2>2. CASE Loop \/ Shutdown
    <3>1. ASSUME NEW t \in Services,
                 \/ tasks' = [tasks EXCEPT ![t] = Sent(@)]
                 \/ tasks' = [tasks EXCEPT ![t] = Aborted(tasks[t])]
          PROVE  FALSE
      <4>1. t = s /\ tasks'[s] \in {Sent(tasks[s]), Aborted(tasks[s])}
        BY <2>0, <2>1, <3>1
      <4>2. Aborted(tasks[s]).at = "aborted"
        BY FreshTasks
      <4>3. /\ Sent(tasks[s]).at = tasks[s].at
            /\ Sent(tasks[s]).run.state = tasks[s].run.state
        <5> DEFINE x == tasks[s]
        <5>1. IsTask(x)
          BY <2>0
        <5> HIDE DEF x
        <5>2. Sent(x).at = x.at /\ Sent(x).run.state = x.run.state
          BY <5>1, SentFacts
        <5> QED BY <5>2 DEF x
      <4> QED BY <1>1, <4>1, <4>2, <4>3 DEF Begins
    <3>2. CASE StopNext
      <4>1. tasks' = tasks \/ tasks' = [tasks EXCEPT ![Head(queue)] = Sent(@)]
        BY <3>2 DEF StopNext
      <4>2. Head(queue) \in Services
        BY <1>1, <3>2, TailFacts DEF StopNext, IInv, StopAllAt
      <4> QED BY <2>1, <3>1, <4>1, <4>2
    <3>3. CASE StopTimesOut
      BY <1>1, <3>1, <3>3 DEF StopTimesOut, IInv
    <3> QED BY <2>1, <2>2, <3>2, <3>3
            DEF Loop, Shutdown, SeeShutdown, NothingLeft, StopDone, Finish
  <2>3. ASSUME NEW t \in Services, Task(t) \/ Probe(t)
        PROVE  Goal
    <3>1. CASE RunStep(t)
      <4>1. PICK run \in Onward[tasks[t].run] :
              tasks' = [tasks EXCEPT ![t] =
                          IF run.over THEN Report(run.state \notin {"Exited", "Stopped"})
                          ELSE [tasks[t] EXCEPT !.run = run]]
        BY <3>1 DEF RunStep
      <4>2. t = s /\ tasks[s].at = "live"
        BY <2>0, <2>1, <3>1, <4>1 DEF RunStep, Runs
      <4>3. tasks'[s] = IF run.over THEN Report(run.state \notin {"Exited", "Stopped"})
                        ELSE [tasks[s] EXCEPT !.run = run]
        BY <2>0, <4>1, <4>2
      <4>4. ~run.over /\ tasks'[s].run = run
        <5>1. Report(run.state \notin {"Exited", "Stopped"}).at = "reported"
          BY FreshTasks
        <5> QED BY <1>1, <2>0, <4>2, <4>3, <5>1 DEF Begins, IsTask
      <4>5. tasks[s].run.state = "Pending"
        BY <1>1, <2>0, <4>1, <4>2, <4>4, OnwardFacts DEF Begins, IsTask
      <4> QED BY <1>1, <4>2, <4>5 DEF Begins
    <3>2. CASE DependencyReady(t)
      <4>1. tasks' = [tasks EXCEPT ![t] = [tasks[t] EXCEPT !.todo = Tail(@)]]
            /\ tasks[t].at = "live"
        BY <3>2 DEF DependencyReady, Waiting
      <4>2. t = s /\ tasks'[s].run = tasks[s].run
        BY <2>0, <2>1, <4>1 DEF IsTask
      <4> QED BY <1>1, <4>1, <4>2 DEF Begins
    <3>3. CASE DependencyBlocked(t) \/ StoppedWaiting(t)
      <4>1. PICK failed \in BOOLEAN : tasks' = [tasks EXCEPT ![t] = Report(failed)]
        BY <3>3 DEF DependencyBlocked, StoppedWaiting
      <4>2. Report(failed).at = "reported"
        BY FreshTasks
      <4> HIDE DEF Report
      <4> QED BY <1>1, <2>0, <2>1, <4>1, <4>2 DEF Begins
    <3>4. CASE Probe(t)
      BY <2>1, <3>4 DEF Probe
    <3> QED BY <2>3, <3>1, <3>2, <3>3, <3>4 DEF Task
  <2>4. ASSUME NEW t \in Services, TakeReport(t)
        PROVE  Goal
    <3>1. phase = "run" /\ tasks[t].at = "reported"
      BY <2>4 DEF TakeReport, Serving
    <3>2. ASSUME t # s PROVE FALSE
      <4>1. tasks'[s] = tasks[s] \/ tasks'[s] = Closing(tasks[s], {t})
        BY <2>0, <2>4, <3>2 DEF TakeReport
      <4> QED BY <1>1, <2>0, <4>1, ClosingFacts DEF Begins
    <3> QED BY <3>1, <3>2
  <2>5. ASSUME NEW t \in Services, Command(t)
        PROVE  Goal
    <3>1. CASE SpawnNow(t) /\ ~slots[t].held /\ Accepts(t)
      BY <2>0, <2>1, <3>1 DEF SpawnNow, Accepts, Serving, IsTask
    <3>2. ASSUME NEW command, NEW restart, StopSlot(t, command, restart) PROVE FALSE
      <4>1. tasks' = [tasks EXCEPT ![t] = Sent(@)]
        BY <3>2 DEF StopSlot
      <4> QED BY <1>1, <2>0, <2>1, <4>1, SentFacts DEF Begins
    <3> QED BY <2>5, <3>1, <3>2 DEF Command, Start, Stop, Restart
  <2>6. ASSUME NEW cfg \in NextConfigs, Reload(cfg)
        PROVE  Goal
    <3>1. phase = "run"
      BY <2>6 DEF Reload, Serving
    <3>2. s \in {t \in Planned(cfg) : ~slots[t].here} \/
            (tasks'[s].at = tasks[s].at /\ tasks'[s].run.state = tasks[s].run.state)
      BY <1>1, <2>6, ReloadFacts, Zenon
    <3>3. tasks[s].at = "none"
      BY <1>1, <3>2 DEF Begins, IInv, SlotAt, TaskAt
    <3> QED BY <3>1, <3>3
  <2>7. CASE UNCHANGED vars
    BY <2>1, <2>7 DEF vars
  <2> QED BY <1>1, <2>2, <2>3, <2>4, <2>5, <2>6, <2>7, ServicesAssumption DEF Next
<1>2. IInv /\ [Next]_vars =>
        [\A s \in Services :
           (tasks'[s].at = "live" /\ tasks'[s].run.state = "Pending"
              /\ (tasks[s].at # "live" \/ tasks[s].run.state # "Pending"))
             => tasks[s].at \in {"none", "reported"} /\ phase = "run"]_vars
  BY <1>1 DEF Begins
<1> QED BY <1>2, Inductive, PTL DEF Spec, OneRunPerService

-----------------------------------------------------------------------------
(* The refinement: what a client sees of a slot.                            *)
ViewOf(x) ==
  [here |-> x.here, held |-> x.held, restart |-> x.restart, retired |-> x.retired,
   pending |-> x.pending, def |-> IF x.here THEN x.def ELSE "none"]

\* The fields of a view, whatever a definition is.
IsView(v) ==
  v \in [here : BOOLEAN, held : BOOLEAN, restart : BOOLEAN, retired : BOOLEAN,
         pending : {"none", "stop", "restart"}, def : {v.def}]

\* A view is known by its fields.
LEMMA ViewEq ==
  ASSUME NEW v, NEW w, IsView(v), IsView(w), v.here = w.here, v.held = w.held,
         v.restart = w.restart, v.retired = w.retired, v.pending = w.pending, v.def = w.def
  PROVE  v = w
BY DEF IsView

\* A view has the fields of its slot.
LEMMA ViewOfFacts ==
  ASSUME NEW x, IsSlot(x)
  PROVE  /\ IsView(ViewOf(x))
         /\ ViewOf(x).here = x.here /\ ViewOf(x).held = x.held /\ ViewOf(x).restart = x.restart
         /\ ViewOf(x).retired = x.retired /\ ViewOf(x).pending = x.pending
         /\ ViewOf(x).def = IF x.here THEN x.def ELSE "none"
BY DEF IsView, IsSlot, ViewOf

\* The view of no slot is the contract's.
LEMMA EmptyView ==
  /\ IsSlot(NoSlot) /\ ViewOf(NoSlot) = SlotContract!NoSlot
  /\ IsView(SlotContract!NoSlot) /\ SlotContract!NoSlot.def = "none"
  /\ ~SlotContract!NoSlot.here /\ ~SlotContract!NoSlot.held /\ ~SlotContract!NoSlot.restart
  /\ ~SlotContract!NoSlot.retired /\ SlotContract!NoSlot.pending = "none"
BY DEF IsSlot, ViewOf, NoSlot, IsView, SlotContract!NoSlot

\* The view of each service.
LEMMA ViewAt ==
  /\ DOMAIN SlotView = Services
  /\ \A s \in Services : SlotView[s] = ViewOf(slots[s]) /\ SlotView'[s] = ViewOf(slots'[s])
BY DEF SlotView, ViewOf

\* The stack starts as the contract does.
LEMMA InitView == Init => SlotContract!Init
<1> SUFFICES ASSUME Init, NEW s \in Services
             PROVE  \/ SlotView[s] = SlotContract!NoSlot
                    \/ SlotView[s] = SlotContract!Inserted(SlotView[s].def)
                    \/ SlotView[s] = SlotContract!Spawned(SlotContract!Inserted(SlotView[s].def))
  BY DEF SlotContract!Init, SlotView
<1>1. PICK start \in Starts :
        slots = [t \in Services |->
                   IF t \notin Planned(config) THEN NoSlot
                   ELSE [Inserted(config.svc[t]) EXCEPT
                           !.deps = Wired(config, t, Planned(config)),
                           !.held = t \notin start.held]]
  BY Zenon DEF Init
<1> DEFINE held == start.held
<1>2. SlotView[s] = ViewOf(slots[s])
  BY ViewAt
<1>3. CASE s \notin Planned(config)
  BY <1>1, <1>2, <1>3, EmptyView
<1>4. CASE s \in Planned(config)
  <2> DEFINE deps == Wired(config, s, Planned(config))
             def == config.svc[s]
             up == s \notin held
  <2> HIDE DEF deps, def, up
  <2>1. slots[s] = [Inserted(def) EXCEPT !.deps = deps, !.held = up]
    BY <1>1, <1>4 DEF deps, def, up
  <2>2. /\ IsSlot(slots[s]) /\ slots[s].here /\ slots[s].held = up /\ ~slots[s].restart
        /\ ~slots[s].retired /\ slots[s].pending = "none" /\ slots[s].def = def
    BY <2>1 DEF NoSlot, IsSlot, up
  <2> DEFINE v == SlotContract!Inserted(def)
             w == SlotContract!Spawned(v)
  <2>3. /\ IsView(v) /\ v.here /\ ~v.held /\ ~v.restart /\ ~v.retired /\ v.pending = "none"
        /\ v.def = def
    BY EmptyView DEF SlotContract!Inserted, IsView
  <2>4. /\ IsView(w) /\ w.here /\ w.held /\ ~w.restart /\ ~w.retired /\ w.pending = "none"
        /\ w.def = def
    <3> HIDE DEF v
    <3> QED BY <2>3 DEF SlotContract!Spawned, IsView
  <2>5. SlotView[s].def = def
    BY <1>2, <2>2, ViewOfFacts
  <2>6. SlotView[s] = v \/ SlotView[s] = w
    <3> HIDE DEF v, w
    <3> DEFINE u == SlotView[s]
    <3>1. /\ IsView(u) /\ u.here /\ u.held = up /\ ~u.restart /\ ~u.retired
          /\ u.pending = "none" /\ u.def = def
      BY <1>2, <2>2, ViewOfFacts
    <3> HIDE DEF u
    <3>2. up => /\ u.here = w.here /\ u.held = w.held /\ u.restart = w.restart
                /\ u.retired = w.retired /\ u.pending = w.pending /\ u.def = w.def
      BY <2>4, <3>1 DEF IsView
    <3>3. ~up => /\ u.here = v.here /\ u.held = v.held /\ u.restart = v.restart
                 /\ u.retired = v.retired /\ u.pending = v.pending /\ u.def = v.def
      BY <2>3, <3>1 DEF IsView
    <3> QED BY <2>3, <2>4, <3>1, <3>2, <3>3, ViewEq DEF u
  <2> QED BY <2>5, <2>6
<1> QED BY <1>3, <1>4

\* A step that moves one slot is a step of the contract.
LEMMA OneSlotView ==
  ASSUME NEW s \in Services, DOMAIN slots = Services, NEW x, slots' = [slots EXCEPT ![s] = x],
         SlotContract!SlotStep(ViewOf(slots[s]), ViewOf(x))
  PROVE  SlotContract!Next
<1>1. SlotView[s] = ViewOf(slots[s]) /\ SlotView'[s] = ViewOf(x)
      /\ DOMAIN SlotView = Services
  BY ViewAt
<1>2. \A t \in Services : t # s => slots'[t] = slots[t]
  OBVIOUS
<1>3. SlotView' = [SlotView EXCEPT ![s] = SlotView'[s]]
  BY <1>2 DEF SlotView
<1> QED BY <1>1, <1>3 DEF SlotContract!Next, SlotContract!Step

\* start, and restart of a service that does not run.
LEMMA SpawnView ==
  ASSUME NEW s \in Services, DOMAIN slots = Services, IsSlot(slots[s]), SpawnNow(s), Accepts(s),
         ~slots[s].held
  PROVE  SlotContract!Next
<1> DEFINE v == ViewOf(slots[s])
           x == Spawned(slots[s])
<1>1. slots' = [slots EXCEPT ![s] = x]
  BY DEF SpawnNow
<1>2. /\ IsSlot(x) /\ x.here = slots[s].here /\ x.held /\ x.restart = slots[s].restart
      /\ x.retired = slots[s].retired /\ x.pending = slots[s].pending /\ x.def = slots[s].def
  BY DEF IsSlot
<1>3. slots[s].here /\ slots[s].pending = "none"
  BY DEF Accepts
<1> HIDE DEF x
<1>4. /\ IsView(v) /\ v.here /\ ~v.held /\ v.restart = slots[s].restart /\ v.def = slots[s].def
      /\ v.retired = slots[s].retired /\ v.pending = "none"
  BY <1>3, ViewOfFacts
<1> HIDE DEF v
<1>5. SlotContract!Spawned(v) = ViewOf(x)
  <2>1. /\ IsView(SlotContract!Spawned(v)) /\ SlotContract!Spawned(v).held
        /\ SlotContract!Spawned(v).here = v.here /\ SlotContract!Spawned(v).restart = v.restart
        /\ SlotContract!Spawned(v).retired = v.retired
        /\ SlotContract!Spawned(v).pending = v.pending /\ SlotContract!Spawned(v).def = v.def
    BY <1>4 DEF SlotContract!Spawned, IsView
  <2>2. /\ IsView(ViewOf(x)) /\ ViewOf(x).held
        /\ ViewOf(x).here = slots[s].here /\ ViewOf(x).restart = slots[s].restart
        /\ ViewOf(x).retired = slots[s].retired
        /\ ViewOf(x).pending = slots[s].pending /\ ViewOf(x).def = slots[s].def
    BY <1>2, <1>3, ViewOfFacts
  <2> DEFINE w == ViewOf(x)
             u == SlotContract!Spawned(v)
  <2> HIDE DEF w, u
  <2>3. /\ IsView(w) /\ IsView(u) /\ w.held = u.held /\ w.here = u.here
        /\ w.restart = u.restart /\ w.retired = u.retired /\ w.pending = u.pending
        /\ w.def = u.def
    BY <1>3, <1>4, <2>1, <2>2 DEF IsView, IsSlot, w, u
  <2> QED BY <2>3, ViewEq DEF w, u
<1>6. SlotContract!SlotStep(v, ViewOf(x))
  BY <1>4, <1>5 DEF SlotContract!SlotStep, SlotContract!Free
<1> QED BY <1>1, <1>6, OneSlotView DEF v

\* stop, and restart of a service that runs.
LEMMA StopView ==
  ASSUME NEW s \in Services, DOMAIN slots = Services, IsSlot(slots[s]), Accepts(s), slots[s].held,
         NEW command \in {"stop", "restart"}, NEW restart \in {slots[s].restart, TRUE},
         StopSlot(s, command, restart)
  PROVE  SlotContract!Next
<1> DEFINE v == ViewOf(slots[s])
           x == [slots[s] EXCEPT !.pending = command, !.restart = restart]
<1>1. slots' = [slots EXCEPT ![s] = x]
  BY DEF StopSlot
<1>2. /\ IsSlot(x) /\ x.here = slots[s].here /\ x.held = slots[s].held /\ x.restart = restart
      /\ x.retired = slots[s].retired /\ x.pending = command /\ x.def = slots[s].def
  <2>1. x = [[slots[s] EXCEPT !.pending = command] EXCEPT !.restart = restart]
    OBVIOUS
  <2> HIDE DEF x
  <2> QED BY <2>1 DEF IsSlot
<1>3. slots[s].here /\ slots[s].pending = "none"
  BY DEF Accepts
<1> HIDE DEF x
<1>4. /\ IsView(v) /\ v.here /\ v.held /\ v.restart = slots[s].restart /\ v.def = slots[s].def
      /\ v.retired = slots[s].retired /\ v.pending = "none"
  BY <1>3, ViewOfFacts
<1>5. /\ IsView(ViewOf(x)) /\ ViewOf(x).here /\ ViewOf(x).held /\ ViewOf(x).restart = restart
      /\ ViewOf(x).def = slots[s].def /\ ViewOf(x).retired = slots[s].retired
      /\ ViewOf(x).pending = command
  BY <1>2, <1>3, ViewOfFacts
<1> HIDE DEF v
<1> DEFINE w == ViewOf(x)
<1> HIDE DEF w
<1>6. CASE restart = slots[s].restart
  <2>1. w = SlotContract!Stopping(v, w.pending)
    BY <1>4, <1>5, <1>6 DEF SlotContract!Stopping, IsView, w
  <2> QED BY <1>1, <1>4, <1>5, <2>1, OneSlotView
          DEF SlotContract!SlotStep, SlotContract!Free, v, w
<1>7. CASE restart = TRUE
  <2>1. w = SlotContract!Restarting(v, w.pending)
    <3>1. IsView(w) /\ w.here /\ w.held /\ w.restart /\ w.def = v.def /\ w.retired = v.retired
      BY <1>4, <1>5, <1>7 DEF w
    <3> DEFINE a == [v EXCEPT !.pending = w.pending]
               b == [a EXCEPT !.restart = TRUE]
    <3>2. w.pending \in {"none", "stop", "restart"}
      BY <3>1 DEF IsView
    <3>3. /\ IsView(a) /\ a.here /\ a.held /\ a.def = v.def /\ a.retired = v.retired
          /\ a.pending = w.pending
      BY <1>4, <3>2 DEF IsView
    <3> HIDE DEF a
    <3>4. /\ IsView(b) /\ b.here /\ b.held /\ b.restart /\ b.def = v.def /\ b.retired = v.retired
          /\ b.pending = w.pending
      BY <3>3 DEF IsView
    <3> HIDE DEF b
    <3>5. w = b
      BY <3>1, <3>4, ViewEq
    <3> QED BY <3>5 DEF a, b, SlotContract!Restarting
  <2> QED BY <1>1, <1>4, <1>5, <2>1, OneSlotView
          DEF SlotContract!SlotStep, SlotContract!Free, v, w
<1> QED BY <1>6, <1>7
\* The report arm.
LEMMA ReportView ==
  ASSUME NEW s \in Services, DOMAIN slots = Services, SlotAt(s), slots[s].held, TakeReport(s)
  PROVE  SlotContract!Next
<1> DEFINE v == ViewOf(slots[s])
<1>1. /\ IsView(v) /\ v.here /\ v.held /\ v.restart = slots[s].restart /\ v.def = slots[s].def
      /\ v.retired = slots[s].retired /\ v.pending = slots[s].pending
  BY ViewOfFacts DEF SlotAt
<1> HIDE DEF v
<1>2. CASE slots[s].retired
  <2>1. slots' = [slots EXCEPT ![s] = NoSlot]
    BY <1>2 DEF TakeReport
  <2>2. SlotContract!SlotStep(v, ViewOf(NoSlot))
    BY <1>1, <1>2, EmptyView, Zenon DEF SlotContract!SlotStep, SlotContract!Reported
  <2> QED BY <2>1, <2>2, OneSlotView DEF v
<1>3. CASE ~slots[s].retired /\ slots[s].restart
  <2> DEFINE x == [Spawned(Idle(slots[s])) EXCEPT !.restart = FALSE]
             w == ViewOf(x)
             u == [v EXCEPT !.restart = FALSE, !.pending = "none"]
  <2>1. slots' = [slots EXCEPT ![s] = x]
    BY <1>3 DEF TakeReport
  <2>2. /\ IsSlot(x) /\ x.here /\ x.held /\ ~x.restart /\ x.retired = slots[s].retired
        /\ x.pending = "none" /\ x.def = slots[s].def
    BY DEF IsSlot, SlotAt
  <2> HIDE DEF x
  <2>3. /\ IsView(w) /\ w.here /\ w.held /\ ~w.restart /\ w.retired = slots[s].retired
        /\ w.pending = "none" /\ w.def = slots[s].def
    BY <2>2, ViewOfFacts
  <2>4. /\ IsView(u) /\ u.here = v.here /\ u.held = v.held /\ ~u.restart /\ u.retired = v.retired
        /\ u.pending = "none" /\ u.def = v.def
    BY <1>1 DEF IsView
  <2> HIDE DEF w, u
  <2>5. w = u
    <3>1. w.here = u.here /\ w.held = u.held /\ w.restart = u.restart
      BY <1>1, <2>3, <2>4 DEF IsView
    <3> QED BY <1>1, <2>3, <2>4, <3>1, ViewEq
  <2>6. SlotContract!SlotStep(v, w)
    BY <1>1, <1>3, <2>5, Zenon DEF SlotContract!SlotStep, SlotContract!Reported, u
  <2> QED BY <2>1, <2>6, OneSlotView DEF v, w
<1>4. CASE ~slots[s].retired /\ ~slots[s].restart
  <2> DEFINE x == Idle(slots[s])
             w == ViewOf(x)
             u == [v EXCEPT !.held = FALSE, !.pending = "none"]
  <2>1. slots' = [slots EXCEPT ![s] = x]
    BY <1>4 DEF TakeReport
  <2>2. /\ IsSlot(x) /\ x.here /\ ~x.held /\ x.restart = slots[s].restart
        /\ x.retired = slots[s].retired /\ x.pending = "none" /\ x.def = slots[s].def
    BY DEF IsSlot, SlotAt
  <2> HIDE DEF x
  <2>3. /\ IsView(w) /\ w.here /\ ~w.held /\ w.restart = slots[s].restart
        /\ w.retired = slots[s].retired /\ w.pending = "none" /\ w.def = slots[s].def
    BY <2>2, ViewOfFacts
  <2>4. /\ IsView(u) /\ u.here = v.here /\ ~u.held /\ u.restart = v.restart
        /\ u.retired = v.retired /\ u.pending = "none" /\ u.def = v.def
    BY <1>1 DEF IsView
  <2> HIDE DEF w, u
  <2>5. w = u
    <3>1. w.here = u.here /\ w.held = u.held
      BY <1>1, <2>3, <2>4 DEF IsView
    <3> QED BY <1>1, <2>3, <2>4, <3>1, ViewEq
  <2>6. SlotContract!SlotStep(v, w)
    BY <1>1, <1>4, <2>5, Zenon DEF SlotContract!SlotStep, SlotContract!Reported, u
  <2> QED BY <2>1, <2>6, OneSlotView DEF v, w
<1> QED BY <1>2, <1>3, <1>4

\* What the contract's reload makes of a slot that keeps the stack's rules.
LEMMA ContractReload ==
  ASSUME NEW v, IsView(v), NEW planned \in BOOLEAN, NEW def,
         v.pending = "none", v.retired \/ v.restart => v.held, v.held => v.here,
         ~v.here => v = SlotContract!NoSlot
  PROVE  LET w == SlotContract!Reloaded(v, planned, def)
         IN  /\ IsView(w) /\ w.pending = "none"
             /\ w.here <=> planned \/ v.held
             /\ w.held <=> v.held \/ (planned /\ ~v.here)
             /\ w.retired <=> ~planned /\ v.held
             /\ w.restart <=> v.held /\ planned /\ (v.retired \/ v.restart \/ v.def # def)
             /\ w.def = IF planned THEN def ELSE IF v.held THEN v.def ELSE "none"
<1> DEFINE w == SlotContract!Reloaded(v, planned, def)
<1>0. /\ v.here \in BOOLEAN /\ v.held \in BOOLEAN /\ v.retired \in BOOLEAN
      /\ v.restart \in BOOLEAN
  BY DEF IsView
<1>1. CASE planned /\ ~v.here
  <2> DEFINE u == SlotContract!Inserted(def)
  <2>1. w = SlotContract!Spawned(u)
    BY <1>1, Zenon DEF SlotContract!Reloaded
  <2>2. /\ IsView(u) /\ u.here /\ ~u.held /\ ~u.restart /\ ~u.retired /\ u.pending = "none"
        /\ u.def = def
    BY EmptyView DEF SlotContract!Inserted, IsView
  <2> HIDE DEF u, w
  <2>3. /\ IsView(w) /\ w.here /\ w.held /\ ~w.restart /\ ~w.retired /\ w.pending = "none"
        /\ w.def = def
    BY <2>1, <2>2 DEF SlotContract!Spawned, IsView
  <2> QED BY <1>1, <2>3 DEF w
<1>2. CASE planned /\ v.retired
  <2>1. w = [v EXCEPT !.retired = FALSE, !.def = def, !.restart = v.held]
    BY <1>2, Zenon DEF SlotContract!Reloaded
  <2> HIDE DEF w
  <2>2. /\ IsView(w) /\ w.here = v.here /\ w.held = v.held /\ w.restart = v.held /\ ~w.retired
        /\ w.pending = v.pending /\ w.def = def
    BY <2>1 DEF IsView
  <2> QED BY <1>2, <2>2 DEF w
<1>3. CASE planned /\ v.here /\ ~v.retired /\ v.def # def
  <2>1. w = [v EXCEPT !.def = def, !.restart = @ \/ v.held]
    BY <1>3, Zenon DEF SlotContract!Reloaded
  <2> HIDE DEF w
  <2>2. /\ IsView(w) /\ w.here = v.here /\ w.held = v.held /\ (w.restart <=> v.held) /\ ~w.retired
        /\ w.pending = v.pending /\ w.def = def
    BY <1>3, <2>1 DEF IsView
  <2> QED BY <1>3, <2>2 DEF w
<1>4. CASE planned /\ v.here /\ ~v.retired /\ v.def = def
  <2>1. w = v
    BY <1>4, Zenon DEF SlotContract!Reloaded
  <2> QED BY <1>4, <2>1
<1>5. CASE ~planned /\ v.held
  <2>1. w = [v EXCEPT !.retired = TRUE, !.restart = FALSE]
    BY <1>5, Zenon DEF SlotContract!Reloaded
  <2> HIDE DEF w
  <2>2. /\ IsView(w) /\ w.here = v.here /\ w.held = v.held /\ ~w.restart /\ w.retired
        /\ w.pending = v.pending /\ w.def = v.def
    BY <1>5, <2>1 DEF IsView
  <2> QED BY <1>5, <2>2 DEF w
<1>6. CASE ~planned /\ ~v.held
  <2>1. w = SlotContract!NoSlot
    BY <1>6, Zenon DEF SlotContract!Reloaded
  <2> HIDE DEF w
  <2> QED BY <1>6, <2>1, EmptyView DEF w
<1> QED BY <1>1, <1>2, <1>3, <1>4, <1>5, <1>6

\* A reload, which touches every slot.
LEMMA ReloadView ==
  ASSUME IInv, NEW cfg \in NextConfigs, Reload(cfg)
  PROVE  SlotContract!Next
<1> DEFINE started == {s \in Planned(cfg) : ~slots[s].here}
<1>1. ASSUME NEW s \in Services
      PROVE  /\ SlotView[s].pending = "none"
             /\ \E planned \in BOOLEAN :
                  SlotView'[s] = SlotContract!Reloaded(SlotView[s], planned, SlotView'[s].def)
  <2> DEFINE old == ReloadedSlot(s, cfg)
             planned == s \in Planned(cfg)
             v == ViewOf(slots[s])
             u == ViewOf(slots'[s])
             w == SlotContract!Reloaded(v, planned, u.def)
  <2>1. /\ SlotAt(s) /\ IsSlot(slots[s]) /\ SlotAt(s)' /\ IsSlot(slots'[s])
    BY ReloadStep DEF IInv, SlotAt
  <2>2. slots[s].pending = "none"
    BY ReloadFacts, Zenon
  <2>3. /\ IsSlot(old) /\ old.held = slots[s].held
        /\ old.here <=> planned \/ slots[s].held
        /\ old.retired <=> ~planned /\ slots[s].held
        /\ old.restart <=> /\ slots[s].held /\ planned
                          /\ \/ slots[s].retired \/ slots[s].restart
                             \/ slots[s].def # cfg.svc[s]
        /\ old.pending = "none"
        /\ old.here => old.def = IF planned THEN cfg.svc[s] ELSE slots[s].def
    BY <2>1, <2>2, ReloadedSlotFacts, Zenon
  <2>4. PICK deps : slots'[s] \in
                {IF s \in started THEN Spawned(slot) ELSE slot :
                   slot \in {old, [old EXCEPT !.deps = deps]}}
    BY ReloadFacts, Zenon
  <2> HIDE DEF old
  <2>5. PICK slot \in {old, [old EXCEPT !.deps = deps]} :
          slots'[s] = IF s \in started THEN Spawned(slot) ELSE slot
    BY <2>4
  <2>6. /\ IsSlot(slot) /\ slot.held = old.held /\ slot.here = old.here /\ slot.def = old.def
        /\ slot.retired = old.retired /\ slot.restart = old.restart /\ slot.pending = old.pending
    BY <2>3, <2>5 DEF IsSlot
  <2>7. /\ slots'[s].here = old.here /\ slots'[s].def = old.def
        /\ slots'[s].retired = old.retired /\ slots'[s].restart = old.restart
        /\ slots'[s].pending = old.pending
        /\ slots'[s].held <=> old.held \/ s \in started
    <3>1. CASE s \in started
      <4>1. slots'[s] = Spawned(slot)
        BY <2>5, <3>1
      <4> QED BY <2>6, <3>1, <4>1 DEF IsSlot
    <3>2. CASE s \notin started
      BY <2>5, <2>6, <3>2
    <3> QED BY <3>1, <3>2
  <2>8. /\ IsView(v) /\ v.here = slots[s].here /\ v.held = slots[s].held
        /\ v.restart = slots[s].restart /\ v.retired = slots[s].retired /\ v.pending = "none"
        /\ v.def = IF slots[s].here THEN slots[s].def ELSE "none"
    BY <2>1, <2>2, ViewOfFacts
  <2>9. /\ IsView(u) /\ u.here = slots'[s].here /\ u.held = slots'[s].held
        /\ u.restart = slots'[s].restart /\ u.retired = slots'[s].retired
        /\ u.pending = slots'[s].pending
        /\ u.def = IF slots'[s].here THEN slots'[s].def ELSE "none"
    BY <2>1, ViewOfFacts
  <2>10. ~v.here => v = SlotContract!NoSlot
    BY <2>1, <2>8, EmptyView DEF SlotAt
  <2>11. /\ v.retired \/ v.restart => v.held
         /\ v.held => v.here
    BY <2>1, <2>8 DEF SlotAt
  <2> HIDE DEF v, u
  <2>0. planned \in BOOLEAN
    OBVIOUS
  <2>12. /\ IsView(w) /\ w.pending = "none"
         /\ w.here <=> planned \/ v.held
         /\ w.held <=> v.held \/ (planned /\ ~v.here)
         /\ w.retired <=> ~planned /\ v.held
         /\ w.restart <=> v.held /\ planned /\ (v.retired \/ v.restart \/ v.def # u.def)
         /\ w.def = IF planned THEN u.def ELSE IF v.held THEN v.def ELSE "none"
    <3> HIDE DEF planned
    <3> QED BY <2>0, <2>8, <2>10, <2>11, ContractReload
  <2> HIDE DEF w
  <2>13. s \in started <=> planned /\ ~slots[s].here
    OBVIOUS
  <2> HIDE DEF started
  <2>14. /\ u.here <=> w.here
         /\ u.held <=> w.held
         /\ u.retired <=> w.retired
         /\ u.restart <=> w.restart
         /\ u.pending = w.pending /\ u.def = w.def
    BY <2>3, <2>7, <2>8, <2>9, <2>11, <2>12, <2>13
  <2>15. u = w
    <3>1. /\ u.here = w.here /\ u.held = w.held /\ u.retired = w.retired /\ u.restart = w.restart
      BY <2>9, <2>12, <2>14 DEF IsView
    <3> QED BY <2>9, <2>12, <2>14, <3>1, ViewEq
  <2>16. SlotView[s] = v /\ SlotView'[s] = u
    BY ViewAt DEF u, v
  <2>17. SlotView'[s] = SlotContract!Reloaded(SlotView[s], planned, SlotView'[s].def)
    BY <2>15, <2>16, Zenon DEF w
  <2> HIDE DEF planned
  <2> QED BY <2>0, <2>8, <2>16, <2>17
<1> QED BY <1>1, ViewAt DEF SlotContract!Next, SlotContract!Step, SlotContract!ReloadStep

\* run() returns.
LEMMA EndView ==
  ASSUME \A s \in Services : IsSlot(slots[s]), Return
  PROVE  SlotContract!Next
<1>1. ASSUME NEW s \in Services
      PROVE  SlotView'[s] = [SlotView[s] EXCEPT !.pending = "none"]
  <2> DEFINE x == [slots[s] EXCEPT !.pending = "none"]
             v == ViewOf(slots[s])
             u == [v EXCEPT !.pending = "none"]
             w == ViewOf(x)
  <2>1. slots'[s] = x
    BY DEF Return
  <2>2. /\ IsSlot(x) /\ x.here = slots[s].here /\ x.held = slots[s].held /\ x.pending = "none"
        /\ x.restart = slots[s].restart /\ x.retired = slots[s].retired /\ x.def = slots[s].def
    BY DEF IsSlot
  <2> HIDE DEF x
  <2>3. IsView(v) /\ IsView(w)
        /\ w.here = v.here /\ w.held = v.held /\ w.restart = v.restart /\ w.retired = v.retired
        /\ w.def = v.def /\ w.pending = "none"
    BY <2>2, ViewOfFacts
  <2> HIDE DEF v, w
  <2>4. /\ IsView(u) /\ u.here = v.here /\ u.held = v.held /\ u.restart = v.restart
        /\ u.retired = v.retired /\ u.def = v.def /\ u.pending = "none"
    BY <2>3 DEF IsView
  <2> HIDE DEF u
  <2>5. w = u
    BY <2>3, <2>4, ViewEq
  <2> QED BY <2>1, <2>5, ViewAt DEF u, v, w
<1> QED BY <1>1, ViewAt DEF SlotContract!Next, SlotContract!Step, SlotContract!EndStep

\* Every step of the stack is one of the contract, or none that a client sees.
LEMMA NextView ==
  ASSUME IInv, [Next]_vars
  PROVE  [SlotContract!Next]_SlotView
<1>1. DOMAIN slots = Services /\ \A t \in Services : SlotAt(t) /\ IsSlot(slots[t])
  BY DEF IInv, SlotAt
<1>2. CASE UNCHANGED slots
  BY <1>2 DEF SlotView
<1>3. CASE Return
  BY <1>1, <1>3, EndView
<1>4. ASSUME NEW s \in Services, Command(s)
      PROVE  SlotContract!Next
  BY <1>1, <1>4, SpawnView, StopView DEF Command, Start, Stop, Restart
<1>5. ASSUME NEW s \in Services, TakeReport(s)
      PROVE  SlotContract!Next
  <2>1. slots[s].held
    BY <1>5 DEF IInv, TaskAt, TakeReport
  <2> QED BY <1>1, <1>5, <2>1, ReportView
<1>6. ASSUME NEW cfg \in NextConfigs, Reload(cfg)
      PROVE  SlotContract!Next
  BY <1>6, ReloadView
<1>7. CASE Next
  BY <1>2, <1>3, <1>4, <1>5, <1>6, <1>7, ServicesAssumption
     DEF Next, Loop, Shutdown, SeeShutdown, NothingLeft, StopNext, StopDone, StopTimesOut,
         Finish, Task, Probe, DependencyReady, DependencyBlocked, StoppedWaiting, RunStep
<1> QED BY <1>2, <1>7 DEF vars

\* The stack implements StackSpec: what a client sees of the slots changes only as
\* StackContract, on which DaemonSession is built, lets it change.
THEOREM StackImplementsContract == Spec => ImplementsStackContract
<1> QED BY InitView, NextView, Inductive, PTL DEF Spec, ImplementsStackContract, SlotContract!Spec
=============================================================================
