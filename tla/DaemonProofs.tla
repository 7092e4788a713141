---------------------------- MODULE DaemonProofs ----------------------------
(***************************************************************************)
(* Theorems about DaemonDoor, for every number of daemons that come and go  *)
(* and every number of rounds that acquire() may take, and about            *)
(* DaemonSession, for every set of services, clients and configurations:    *)
(* that one daemon at a time serves a project, what its session says of the *)
(* services, and what it remembers from the one before.                     *)
(*                                                                         *)
(* SessionFollowsStack speaks of the moments without a reload.  The         *)
(* invariant says what the slots plan at every moment of one (ReloadAt),    *)
(* and that every answer of the stack goes to the client it is meant for    *)
(* (Posted, PendingAt): one message or one pending slot per client that     *)
(* waits.  StopOutlivesDaemon rests on the lock: the holder has read the    *)
(* file as it is, unless a write of an earlier daemon has come between      *)
(* (FileAt).                                                                *)
(***************************************************************************)
EXTENDS DaemonDoor, DaemonSession, FiniteSetTheorems, SequenceTheorems, WellFoundedInduction, TLAPS

Verbs == {"start", "stop", "restart"}

Jobs == [at : {"idle", "queued", "taken", "answered", "recording"},
         what : Verbs \cup {"none", "reload"}, svc : Services \cup {Nobody},
         cfg : Configs \cup {Nobody}, ok : BOOLEAN, read : SUBSET Services]

Messages == [who : Clients \cup {"watcher"}, what : Verbs \cup {"reload"},
             svc : Services \cup {Nobody}, cfg : Configs \cup {Nobody}]

Callers == Clients \cup {"none", "watcher"}

\* A slot, whatever its definition.
IsSlot(x) ==
  /\ x \in [here : BOOLEAN, held : BOOLEAN, restart : BOOLEAN, retired : BOOLEAN,
            pending : Callers, def : {x.def}]
  /\ x.retired => x.here
  /\ x.held => x.here

\* The services that the slots plan.
StackPlans == {s \in Services : slots[s].here /\ ~slots[s].retired}

Types ==
  /\ phase \in {"down", "serving", "closing"}
  /\ slots = [s \in Services |-> slots[s]]
  /\ task \in [Services -> {"none", "fresh", "up", "over"}]
  /\ control \in Seq(Messages)
  /\ events \in Seq({events[i] : i \in DOMAIN events})
  /\ \A i \in DOMAIN events : events[i].state \in {"up", "down"}
  /\ registry \in [Services -> {"absent", "pending", "up", "down"}]
  /\ names \in SUBSET Services
  /\ doing \in [Clients -> Jobs]
  /\ reloading \in [by : Clients \cup {Nobody}, previous : SUBSET Services]
  /\ file \in SUBSET Services /\ writing \in Clients \cup {Nobody}
  /\ word \in [Services -> BOOLEAN]

SlotAt(s) == IsSlot(slots[s]) /\ (slots[s].held <=> task[s] # "none")

\* In the queue q, a client's message says what the client waits for in d, and it is
\* the only one of that client.
Posted(q, d) ==
  \A i \in 1..Len(q) :
    /\ q[i].who = "watcher" => q[i].what # "reload"
    /\ q[i].what # "reload" => q[i].svc \in Services
    /\ q[i].who \in Clients =>
         /\ d[q[i].who].at = "queued"
         /\ d[q[i].who].what = q[i].what
         /\ d[q[i].who].cfg = q[i].cfg
         /\ \A j \in 1..Len(q) : q[j].who = q[i].who => j = i

\* So does a slot that owes a client its answer.
PendingAt ==
  \A s \in Services : slots[s].pending \in Clients =>
    /\ doing[slots[s].pending].at = "taken"
    /\ \A t \in Services : slots[t].pending = slots[s].pending => t = s

JobAt(c) ==
  /\ doing[c].what = "reload" =>
       doing[c].at \in {"queued", "answered"} /\ reloading.by = c /\ doing[c].cfg \in Configs
  /\ doing[c].what \in Verbs => doing[c].svc \in Services
  /\ doing[c].at \in {"queued", "taken", "answered", "recording"} => doing[c].what # "none"
  /\ doing[c].at = "answered" /\ ~doing[c].ok => doing[c].what = "reload"
  /\ phase = "down" => doing[c].at \in {"idle", "recording"}

\* What the slots plan during a reload: what the session names once it is accepted,
\* what it named before until then.
ReloadAt ==
  /\ names = {s \in Services : registry[s] # "absent"}
  /\ phase = "down" => reloading.by = Nobody
  /\ phase # "serving" => control = <<>>
  /\ reloading.by # Nobody =>
       /\ doing[reloading.by].what = "reload"
       /\ phase = "serving" => names = Planned(doing[reloading.by].cfg)
  /\ phase = "serving" =>
       StackPlans = IF reloading.by # Nobody
                         /\ ~(doing[reloading.by].at = "answered" /\ doing[reloading.by].ok)
                    THEN reloading.previous ELSE names

\* What is written down.
FileAt ==
  /\ \A s \in Services : word[s] => s \in file
  /\ phase = "down" => writing = Nobody
  /\ writing # Nobody =>
       /\ doing[writing].at = "recording"
       /\ doing[writing].read = file \/ \A s \in Services : ~word[s]

IInv ==
  /\ Types
  /\ \A s \in Services : SlotAt(s)
  /\ Posted(control, doing)
  /\ PendingAt
  /\ \A c \in Clients : JobAt(c)
  /\ ReloadAt
  /\ FileAt
-----------------------------------------------------------------------------
\* A set of numbers has a least one: induction on numbers in first-order form.
LEMMA Least ==
  ASSUME NEW T \in SUBSET Nat, T # {}
  PROVE  \E n \in T : \A m \in T : n <= m
<1> DEFINE R == OpToRel(<, Nat)
<1>1. IsWellFoundedOn(R, Nat)
  BY NatLessThanWellFounded
<1>2. \A n, m \in Nat : n < m => <<n, m>> \in R
  BY DEF OpToRel
<1> HIDE DEF R
<1>3. PICK n \in T : \A m \in T : ~(<<m, n>> \in R)
  BY <1>1, WFMin
<1>4. ASSUME NEW m \in T
      PROVE  n <= m
  <2>1. m \in Nat /\ n \in Nat /\ ~(m < n)
    BY <1>2, <1>3
  <2> QED BY <2>1
<1> QED BY <1>4

-----------------------------------------------------------------------------
(* with_dependents.                                                         *)

\* f says what the loop has after each turn, up to the top-th.
Turns(cfg, seeds, top, f) ==
  /\ f \in [0..top -> SUBSET (seeds \cup Planned(cfg))]
  /\ f[0] = seeds
  /\ \A n \in 1..top : f[n] = Joined(cfg, cfg.plan[n], f[n - 1])

\* The loop has a result.
LEMMA TurnsExist ==
  ASSUME NEW cfg \in Configs, NEW seeds, NEW top \in 0..Len(cfg.plan)
  PROVE  \E f : Turns(cfg, seeds, top, f)
<1> DEFINE Bad == {n \in 0..Len(cfg.plan) : ~ \E f : Turns(cfg, seeds, n, f)}
<1>1. Len(cfg.plan) \in Nat /\ \A n \in 1..Len(cfg.plan) : cfg.plan[n] \in Planned(cfg)
  BY ConfigsAssumption DEF Planned, Range
<1>2. ASSUME Bad # {}
      PROVE  FALSE
  <2>1. PICK n \in Bad : \A m \in Bad : n <= m
    <3>1. Bad \in SUBSET Nat
      BY <1>1
    <3> HIDE DEF Bad
    <3> QED BY <3>1, <1>2, Least
  <2>2. n \in 0..Len(cfg.plan) /\ n \in Nat
    BY <1>1
  <2>3. CASE n = 0
    <3>1. Turns(cfg, seeds, 0, [m \in 0..0 |-> seeds])
      BY DEF Turns
    <3> QED BY <3>1, <2>3
  <2>4. CASE n # 0
    <3>1. n - 1 \in 0..Len(cfg.plan) /\ n - 1 \in Nat /\ ~(n <= n - 1)
      BY <2>2, <2>4, <1>1
    <3>2. PICK f : Turns(cfg, seeds, n - 1, f)
      BY <3>1, <2>1
    <3> DEFINE last == Joined(cfg, cfg.plan[n], f[n - 1])
               g == [m \in 0..n |-> IF m = n THEN last ELSE f[m]]
    <3>3. f[n - 1] \in SUBSET (seeds \cup Planned(cfg))
      BY <3>1, <3>2 DEF Turns
    <3>4. last \in SUBSET (seeds \cup Planned(cfg))
      BY <3>3, <2>2, <2>4, <1>1 DEF Joined
    <3>5. \A m \in 0..n : m # n => m \in 0..(n - 1)
      BY <2>2
    <3>6. g \in [0..n -> SUBSET (seeds \cup Planned(cfg))]
      BY <3>2, <3>4, <3>5 DEF Turns
    <3>7. g[0] = seeds /\ g[n] = last /\ g[n - 1] = f[n - 1]
      BY <3>1, <3>2, <2>2, <2>4 DEF Turns
    <3>8. ASSUME NEW m \in 1..n
          PROVE  g[m] = Joined(cfg, cfg.plan[m], g[m - 1])
      <4>1. CASE m = n
        BY <4>1, <3>7
      <4>2. CASE m # n
        <5>1. m \in 1..(n - 1) /\ m \in 0..n /\ m - 1 \in 0..n /\ m - 1 # n
          BY <4>2, <2>2
        <5> QED BY <5>1, <4>2, <3>2 DEF Turns
      <4> QED BY <4>1, <4>2
    <3> HIDE DEF g
    <3>9. Turns(cfg, seeds, n, g)
      BY <3>6, <3>7, <3>8 DEF Turns
    <3> QED BY <3>9
  <2> QED BY <2>3, <2>4
<1> QED BY <1>2

\* The recursive function of WithDependents, unfolded.
Loop(cfg, seeds, f) ==
  [n \in 0..Len(cfg.plan) |-> IF n = 0 THEN seeds ELSE Joined(cfg, cfg.plan[n], f[n - 1])]

Held(cfg, seeds) == CHOOSE f : f = Loop(cfg, seeds, f)

\* WithDependents is the loop over the plan that it is written as.
LEMMA HeldIsLoop ==
  ASSUME NEW cfg \in Configs, NEW seeds
  PROVE  /\ WithDependents(cfg, seeds) = Held(cfg, seeds)[Len(cfg.plan)]
         /\ Held(cfg, seeds) = Loop(cfg, seeds, Held(cfg, seeds))
<1> DEFINE N == Len(cfg.plan)
<1>1. WithDependents(cfg, seeds) = Held(cfg, seeds)[Len(cfg.plan)]
  BY DEF WithDependents, Held, Loop
<1>2. N \in Nat
  BY ConfigsAssumption
<1>3. PICK f : Turns(cfg, seeds, N, f)
  BY <1>2, TurnsExist
<1>4. f = Loop(cfg, seeds, f)
  <2>1. f \in [0..N -> SUBSET (seeds \cup Planned(cfg))] /\ f[0] = seeds
    BY <1>3 DEF Turns
  <2>2. \A n \in 0..N : f[n] = IF n = 0 THEN seeds ELSE Joined(cfg, cfg.plan[n], f[n - 1])
    BY <1>2, <1>3, <2>1 DEF Turns
  <2>3. f = [n \in 0..N |-> f[n]]
    BY <2>1
  <2> QED BY <2>2, <2>3 DEF Loop
<1>5. Held(cfg, seeds) = Loop(cfg, seeds, Held(cfg, seeds))
  BY <1>4, Zenon DEF Held
<1> QED BY <1>1, <1>5

\* What it holds back: the seeds, and what depends on one of them.
LEMMA WithDependentsFacts ==
  ASSUME NEW cfg \in Configs, NEW seeds
  PROVE  /\ seeds \subseteq WithDependents(cfg, seeds)
         /\ WithDependents(cfg, seeds) \subseteq seeds \cup Planned(cfg)
         /\ \A t \in Planned(cfg) : cfg.deps[t] \cap seeds # {} => t \in WithDependents(cfg, seeds)
<1> DEFINE N == Len(cfg.plan)
           held == Held(cfg, seeds)
<1>1. N \in Nat /\ cfg.plan \in Seq(Services)
  BY ConfigsAssumption
<1>2. WithDependents(cfg, seeds) = held[N]
  BY HeldIsLoop
<1>3. held = [n \in 0..N |-> IF n = 0 THEN seeds ELSE Joined(cfg, cfg.plan[n], held[n - 1])]
  BY HeldIsLoop DEF Loop
<1> HIDE DEF held
<1>4. /\ held[0] = seeds
      /\ \A n \in 1..N : held[n] = Joined(cfg, cfg.plan[n], held[n - 1])
  BY <1>1, <1>3
<1> DEFINE Bad == {n \in 0..N : ~(/\ held[n] \subseteq seeds \cup Planned(cfg)
                                  /\ \A m \in 0..n : held[m] \subseteq held[n])}
<1>5. Bad = {}
  <2> SUFFICES ASSUME Bad # {} PROVE FALSE
    OBVIOUS
  <2>1. PICK n \in Bad : \A m \in Bad : n <= m
    <3>1. Bad \in SUBSET Nat /\ Bad # {}
      BY <1>1
    <3> HIDE DEF Bad
    <3> QED BY <3>1, Least
  <2>2. n \in 0..N /\ n \in Nat
    BY <1>1
  <2>3. n # 0
    BY <1>4
  <2>4. n - 1 \in 0..N /\ ~(n <= n - 1) /\ n \in 1..N
    BY <2>2, <2>3, <1>1
  <2>5. /\ held[n - 1] \subseteq seeds \cup Planned(cfg)
        /\ \A m \in 0..(n - 1) : held[m] \subseteq held[n - 1]
    BY <2>1, <2>4
  <2>6. cfg.plan[n] \in Planned(cfg)
    BY <1>1, <2>4 DEF Planned, Range
  <2>7. held[n - 1] \subseteq held[n] /\ held[n] \subseteq seeds \cup Planned(cfg)
    <3>1. held[n] \in {held[n - 1], held[n - 1] \cup {cfg.plan[n]}}
      BY <1>4, <2>4 DEF Joined
    <3> QED BY <2>5, <2>6, <3>1
  <2>8. \A m \in 0..n : m = n \/ m \in 0..(n - 1)
    BY <2>2
  <2> QED BY <2>5, <2>7, <2>8
<1>6. \A n \in 0..N : held[n] \subseteq held[N]
  BY <1>1, <1>5
<1>7. seeds \subseteq held[N] /\ held[N] \subseteq seeds \cup Planned(cfg)
  BY <1>1, <1>4, <1>5
<1>8. ASSUME NEW t \in Planned(cfg), cfg.deps[t] \cap seeds # {}
       PROVE  t \in held[N]
  <2>1. PICK n \in 1..N : cfg.plan[n] = t
    BY <1>1 DEF Planned, Range
  <2>2. n - 1 \in 0..N /\ n \in 0..N /\ 0 \in 0..(n - 1)
    BY <1>1
  <2>3. seeds \subseteq held[n - 1]
    BY <1>4, <1>5, <2>2
  <2>4. t \in held[n]
    BY <1>4, <1>8, <2>1, <2>3 DEF Joined
  <2> QED BY <2>2, <2>4, <1>6
<1> QED BY <1>2, <1>7, <1>8
-----------------------------------------------------------------------------
(* Lemmas on slots, answers and events.                                     *)

\* A slot that is not there has no task.
LEMMA NoSlotFacts ==
  /\ IsSlot(Stack!NoSlot) /\ ~Stack!NoSlot.here /\ ~Stack!NoSlot.held
  /\ Stack!NoSlot.pending = "none"
BY DEF IsSlot, Stack!NoSlot, Callers

\* A slot that a reload inserts has no task and nobody waits for it.
LEMMA InsertedFacts ==
  ASSUME NEW def
  PROVE  LET x == Stack!Inserted(def)
         IN  IsSlot(x) /\ x.here /\ ~x.held /\ ~x.retired /\ x.pending = "none"
BY DEF IsSlot, Stack!Inserted, Stack!NoSlot, Callers

\* Spawning gives a slot a task and leaves the rest of it alone.
LEMMA SpawnedFacts ==
  ASSUME NEW x, IsSlot(x), x.here
  PROVE  LET y == Stack!Spawned(x)
         IN  IsSlot(y) /\ y.here /\ y.held /\ y.retired = x.retired /\ y.pending = x.pending
BY DEF IsSlot, Stack!Spawned

\* A stop or a restart that has to wait for the task notes who asked.
LEMMA AwaitedFacts ==
  ASSUME NEW x, IsSlot(x), NEW who \in Callers,
         NEW y \in {Stack!Stopping(x, who), Stack!Restarting(x, who)}
  PROVE  /\ IsSlot(y) /\ y.here = x.here /\ y.held = x.held /\ y.retired = x.retired
         /\ y.pending = who
<1>1. CASE y = Stack!Stopping(x, who)
  BY <1>1 DEF IsSlot, Stack!Stopping
<1>2. CASE y = Stack!Restarting(x, who)
  <2> DEFINE z == [x EXCEPT !.pending = who]
  <2>1. y = [z EXCEPT !.restart = TRUE]
    BY <1>2 DEF Stack!Restarting, IsSlot
  <2>2. IsSlot(z) /\ z.here = x.here /\ z.held = x.held /\ z.retired = x.retired /\ z.pending = who
    BY DEF IsSlot
  <2> HIDE DEF z
  <2> QED BY <2>1, <2>2 DEF IsSlot
<1> QED BY <1>1, <1>2

\* The report of a slot's task leaves what the slots plan.
LEMMA ReportedFacts ==
  ASSUME NEW x, IsSlot(x)
  PROVE  LET y == Stack!Reported(x)
         IN  /\ IsSlot(y) /\ y.pending = "none"
             /\ y.here /\ ~y.retired <=> x.here /\ ~x.retired
<1> DEFINE y == Stack!Reported(x)
<1>1. x.here \in BOOLEAN /\ x.retired \in BOOLEAN /\ x.restart \in BOOLEAN
  BY DEF IsSlot
<1>2. CASE x.retired
  <2>1. y = Stack!NoSlot
    BY <1>2 DEF Stack!Reported
  <2> QED BY <1>2, <2>1, NoSlotFacts
<1>3. CASE ~x.retired /\ x.restart
  <2> DEFINE z == [x EXCEPT !.restart = FALSE]
  <2>1. y = [z EXCEPT !.pending = "none"]
    BY <1>3 DEF Stack!Reported, IsSlot
  <2>2. IsSlot(z) /\ z.here = x.here /\ z.retired = x.retired
    BY DEF IsSlot
  <2> HIDE DEF z
  <2>3. IsSlot(y) /\ y.pending = "none" /\ y.here = z.here /\ y.retired = z.retired
    BY <2>1, <2>2 DEF IsSlot, Callers
  <2> QED BY <2>2, <2>3
<1>4. CASE ~x.retired /\ ~x.restart
  <2> DEFINE z == [x EXCEPT !.held = FALSE]
  <2>1. y = [z EXCEPT !.pending = "none"]
    BY <1>4 DEF Stack!Reported, IsSlot
  <2>2. IsSlot(z) /\ z.here = x.here /\ z.retired = x.retired
    BY DEF IsSlot
  <2> HIDE DEF z
  <2>3. IsSlot(y) /\ y.pending = "none" /\ y.here = z.here /\ y.retired = z.retired
    BY <2>1, <2>2 DEF IsSlot, Callers
  <2> QED BY <2>2, <2>3
<1> QED BY <1>1, <1>2, <1>3, <1>4

\* A reload makes a slot plan what it plans, and ends no task.
LEMMA ReloadedFacts ==
  ASSUME NEW x, IsSlot(x), x.pending = "none", NEW planned \in BOOLEAN, NEW def
  PROVE  LET y == Stack!Reloaded(x, planned, def)
         IN  /\ IsSlot(y) /\ y.pending = "none" /\ (x.held => y.held)
             /\ y.here /\ ~y.retired <=> planned
<1> DEFINE y == Stack!Reloaded(x, planned, def)
<1>1. /\ x.here \in BOOLEAN /\ x.retired \in BOOLEAN /\ x.held \in BOOLEAN /\ x.restart \in BOOLEAN
      /\ x.retired => x.here
      /\ x.held => x.here
  BY DEF IsSlot
<1>2. CASE planned /\ ~x.here
  <2>1. y = Stack!Spawned(Stack!Inserted(def))
    <3>1. planned /\ ~x.here /\ ~x.retired
      BY <1>1, <1>2
    <3> QED BY <3>1, Zenon DEF Stack!Reloaded
  <2> DEFINE z == Stack!Inserted(def)
  <2>2. IsSlot(z) /\ z.here /\ ~z.held /\ ~z.retired /\ z.pending = "none"
    BY InsertedFacts
  <2> HIDE DEF z
  <2>3. LET v == Stack!Spawned(z)
        IN  IsSlot(v) /\ v.here /\ v.held /\ v.retired = z.retired /\ v.pending = z.pending
    BY <2>2, SpawnedFacts
  <2> QED BY <1>1, <1>2, <2>1, <2>2, <2>3 DEF z
<1>3. CASE planned /\ x.retired
  <2> DEFINE a == [x EXCEPT !.retired = FALSE]
             b == [a EXCEPT !.def = def]
  <2>1. y = [b EXCEPT !.restart = x.held]
    BY <1>1, <1>3 DEF Stack!Reloaded, IsSlot
  <2>2. IsSlot(a) /\ a.here /\ a.held = x.held /\ ~a.retired /\ a.pending = "none"
    BY <1>1, <1>3 DEF IsSlot
  <2> HIDE DEF a
  <2>3. IsSlot(b) /\ b.here /\ b.held = x.held /\ ~b.retired /\ b.pending = "none"
    BY <2>2 DEF IsSlot
  <2> HIDE DEF b
  <2>4. IsSlot(y) /\ y.here /\ y.held = x.held /\ ~y.retired /\ y.pending = "none"
    BY <1>1, <2>1, <2>3 DEF IsSlot
  <2> QED BY <1>3, <2>4
<1>4. CASE planned /\ x.here /\ ~x.retired /\ x.def # def
  <2> DEFINE a == [x EXCEPT !.def = def]
             r == x.restart \/ x.held
  <2>1. y = [a EXCEPT !.restart = r]
    BY <1>4 DEF Stack!Reloaded, IsSlot
  <2>2. IsSlot(a) /\ a.here /\ a.held = x.held /\ ~a.retired /\ a.pending = "none"
    BY <1>4 DEF IsSlot
  <2>3. r \in BOOLEAN
    OBVIOUS
  <2> HIDE DEF a, r
  <2>4. IsSlot(y) /\ y.here /\ y.held = x.held /\ ~y.retired /\ y.pending = "none"
    BY <2>1, <2>2, <2>3 DEF IsSlot
  <2> QED BY <1>4, <2>4
<1>5. CASE ~planned /\ x.held
  <2> DEFINE a == [x EXCEPT !.retired = TRUE]
  <2>1. y = [a EXCEPT !.restart = FALSE]
    BY <1>5 DEF Stack!Reloaded, IsSlot
  <2>2. IsSlot(a) /\ a.held = x.held /\ a.retired /\ a.pending = "none"
    BY <1>1, <1>5 DEF IsSlot
  <2> HIDE DEF a
  <2>3. IsSlot(y) /\ y.held = x.held /\ y.retired /\ y.pending = "none"
    BY <2>1, <2>2 DEF IsSlot
  <2> QED BY <1>5, <2>3
<1>6. CASE ~planned /\ ~x.held
  <2>1. y = Stack!NoSlot
    BY <1>6 DEF Stack!Reloaded
  <2> QED BY <1>6, <2>1, NoSlotFacts
<1>7. CASE planned /\ x.here /\ ~x.retired /\ x.def = def
  <2>1. y = x
    BY <1>7 DEF Stack!Reloaded
  <2> QED BY <1>7, <2>1
<1> QED BY <1>1, <1>2, <1>3, <1>4, <1>5, <1>6, <1>7

\* A client with nothing to do.
LEMMA IdleFacts == Idle \in Jobs /\ Idle.at = "idle" /\ Idle.what = "none"
BY DEF Idle, Jobs

\* A refused stop or restart is over for its client; a reload is heard of either way.
LEMMA AnsweredFacts ==
  ASSUME NEW job \in Jobs, NEW ok \in BOOLEAN
  PROVE  /\ Answered(job, ok) \in Jobs
         /\ ~ok /\ job.what # "reload" => Answered(job, ok) = Idle
         /\ ok \/ job.what = "reload" =>
              /\ Answered(job, ok).at = "answered" /\ Answered(job, ok).ok = ok
              /\ Answered(job, ok).what = job.what /\ Answered(job, ok).svc = job.svc
              /\ Answered(job, ok).cfg = job.cfg
<1>1. CASE ~ok /\ job.what # "reload"
  BY <1>1, IdleFacts DEF Answered
<1>2. CASE ok \/ job.what = "reload"
  <2> DEFINE a == [job EXCEPT !.at = "answered"]
  <2>1. Answered(job, ok) = [a EXCEPT !.ok = ok]
    BY <1>2 DEF Answered, Jobs
  <2>2. a \in Jobs /\ a.at = "answered" /\ a.what = job.what /\ a.svc = job.svc /\ a.cfg = job.cfg
    BY DEF Jobs
  <2> HIDE DEF a
  <2>3. /\ [a EXCEPT !.ok = ok] \in Jobs /\ [a EXCEPT !.ok = ok].at = a.at
        /\ [a EXCEPT !.ok = ok].ok = ok /\ [a EXCEPT !.ok = ok].what = a.what
        /\ [a EXCEPT !.ok = ok].svc = a.svc /\ [a EXCEPT !.ok = ok].cfg = a.cfg
    BY <2>2 DEF Jobs
  <2> QED BY <1>2, <2>1, <2>2, <2>3
<1> QED BY <1>1, <1>2

\* A sequence is one over what is in it.
LEMMA SeqOfItsRange ==
  ASSUME NEW S, NEW q \in Seq(S)
  PROVE  q \in Seq({q[i] : i \in DOMAIN q})
<1>1. Len(q) \in Nat /\ DOMAIN q = 1..Len(q) /\ q = [i \in 1..Len(q) |-> q[i]]
  BY LenProperties
<1>2. q \in [1..Len(q) -> {q[i] : i \in DOMAIN q}]
  BY <1>1
<1> QED BY <1>1, <1>2, SeqDef

\* The control channel: taking a message and sending one.
LEMMA PostedTail ==
  ASSUME NEW q \in Seq(Messages), q # <<>>, NEW d, Posted(q, d)
  PROVE  /\ Tail(q) \in Seq(Messages) /\ Posted(Tail(q), d)
         /\ Head(q) \in Messages
         /\ \A i \in 1..Len(Tail(q)) : Head(q).who \in Clients => Tail(q)[i].who # Head(q).who
         /\ Head(q).who = "watcher" => Head(q).what # "reload"
         /\ Head(q).what # "reload" => Head(q).svc \in Services
         /\ Head(q).who \in Clients =>
              /\ d[Head(q).who].at = "queued"
              /\ d[Head(q).who].what = Head(q).what
              /\ d[Head(q).who].cfg = Head(q).cfg
<1> DEFINE t == Tail(q)
<1>1. /\ t \in Seq(Messages) /\ Head(q) = q[1] /\ Len(q) \in Nat /\ Len(t) = Len(q) - 1
      /\ \A i \in 1..Len(t) : t[i] = q[i + 1] /\ i + 1 \in 1..Len(q) /\ i + 1 # 1
      /\ 1 \in 1..Len(q) /\ q[1] \in Messages
  <2>1. Len(q) \in Nat /\ Len(q) # 0
    OBVIOUS
  <2> QED BY <2>1
<1>2. \A i, j \in 1..Len(t) : i + 1 = j + 1 => i = j
  BY <1>1
<1> HIDE DEF t
<1>3. Posted(t, d)
  <2> SUFFICES ASSUME NEW i \in 1..Len(t)
               PROVE  /\ t[i].who = "watcher" => t[i].what # "reload"
                      /\ t[i].what # "reload" => t[i].svc \in Services
                      /\ t[i].who \in Clients =>
                           /\ d[t[i].who].at = "queued"
                           /\ d[t[i].who].what = t[i].what
                           /\ d[t[i].who].cfg = t[i].cfg
                           /\ \A j \in 1..Len(t) : t[j].who = t[i].who => j = i
    BY DEF Posted
  <2>1. t[i] = q[i + 1] /\ i + 1 \in 1..Len(q)
    BY <1>1
  <2>2. ASSUME t[i].who \in Clients, NEW j \in 1..Len(t), t[j].who = t[i].who
        PROVE  j = i
    <3>1. t[j] = q[j + 1] /\ j + 1 \in 1..Len(q)
      BY <1>1
    <3>2. j + 1 = i + 1
      BY <2>1, <2>2, <3>1 DEF Posted
    <3> QED BY <1>2, <3>2
  <2> QED BY <2>1, <2>2 DEF Posted
<1>4. \A i \in 1..Len(t) : q[1].who \in Clients => t[i].who # q[1].who
  BY <1>1 DEF Posted
<1> QED BY <1>1, <1>3, <1>4 DEF Posted, t

\* A client that posts its message had none in the queue.
LEMMA PostedAppend ==
  ASSUME NEW q \in Seq(Messages), NEW d, Posted(q, d), NEW m \in Messages,
         m.who = "watcher" => m.what # "reload",
         m.what # "reload" => m.svc \in Services,
         m.who \in Clients =>
           /\ d[m.who].at = "queued" /\ d[m.who].what = m.what /\ d[m.who].cfg = m.cfg
           /\ \A i \in 1..Len(q) : q[i].who # m.who
  PROVE  Append(q, m) \in Seq(Messages) /\ Posted(Append(q, m), d)
<1> DEFINE p == Append(q, m)
           n == Len(q)
<1>1. /\ p \in Seq(Messages) /\ n \in Nat /\ Len(p) = n + 1 /\ p[n + 1] = m
      /\ \A i \in 1..Len(p) : i = n + 1 \/ (i \in 1..n /\ p[i] = q[i])
  OBVIOUS
<1> HIDE DEF p
<1>2. ASSUME NEW i \in 1..Len(p), i # n + 1, p[i].who \in Clients,
             NEW j \in 1..Len(p), p[j].who = p[i].who
      PROVE  j = i
  <2>1. i \in 1..n /\ p[i] = q[i]
    BY <1>1, <1>2
  <2>2. j # n + 1
    BY <1>1, <1>2, <2>1
  <2>3. j \in 1..n /\ p[j] = q[j]
    BY <1>1, <2>2
  <2> QED BY <1>2, <2>1, <2>3 DEF Posted
<1>3. ASSUME m.who \in Clients, NEW j \in 1..Len(p), p[j].who = m.who
      PROVE  j = n + 1
  BY <1>1, <1>3
<1> QED BY <1>1, <1>2, <1>3 DEF Posted, p

\* Who has no message in it may do something else.
LEMMA PostedChange ==
  ASSUME NEW q \in Seq(Messages), NEW d, Posted(q, d), NEW e,
         \A i \in 1..Len(q) : q[i].who \in Clients => e[q[i].who] = d[q[i].who]
  PROVE  Posted(q, e)
BY DEF Posted

\* The stack's answer to `who', who waits for one.
LEMMA AnswerFacts ==
  ASSUME IInv, NEW who \in Callers, NEW ok \in BOOLEAN, Answer(who, ok),
         who \in Clients => doing[who].at \in {"queued", "taken"},
         phase = "serving", UNCHANGED <<phase, reloading>>
  PROVE  /\ doing' \in [Clients -> Jobs]
         /\ \A c \in Clients : c # who => doing'[c] = doing[c]
         /\ \A c \in Clients : JobAt(c)'
         /\ \A c \in Clients : doing[c].at = "recording" => doing'[c] = doing[c]
         /\ who \in Clients => doing'[who] = Answered(doing[who], ok)
<1>1. doing \in [Clients -> Jobs] /\ \A c \in Clients : JobAt(c)
  BY DEF IInv, Types
<1>2. doing' = [c \in Clients |-> IF c = who THEN Answered(doing[c], ok) ELSE doing[c]]
  BY DEF Answer
<1>3. \A c \in Clients : Answered(doing[c], ok) \in Jobs
  BY <1>1, AnsweredFacts
<1>4. doing' \in [Clients -> Jobs]
  BY <1>1, <1>2, <1>3
<1>5. /\ \A c \in Clients : c # who => doing'[c] = doing[c]
      /\ who \in Clients => doing'[who] = Answered(doing[who], ok)
  BY <1>2
<1>6. ASSUME NEW c \in Clients
      PROVE  JobAt(c)'
  <2>1. JobAt(c) /\ doing[c] \in Jobs
    BY <1>1
  <2>2. CASE c # who
    BY <2>1, <2>2, <1>5 DEF JobAt
  <2>3. CASE c = who /\ ~ok /\ doing[c].what # "reload"
    <3>1. doing'[c] = Idle
      BY <2>1, <2>3, <1>5, AnsweredFacts
    <3> QED BY <3>1, IdleFacts DEF JobAt, Verbs
  <2>4. CASE c = who /\ (ok \/ doing[c].what = "reload")
    <3>1. /\ doing'[c].at = "answered" /\ doing'[c].ok = ok
          /\ doing'[c].what = doing[c].what /\ doing'[c].svc = doing[c].svc
          /\ doing'[c].cfg = doing[c].cfg
      BY <2>1, <2>4, <1>5, AnsweredFacts
    <3> QED BY <2>1, <2>4, <3>1 DEF JobAt, Verbs
  <2> QED BY <2>2, <2>3, <2>4
<1> QED BY <1>4, <1>5, <1>6

\* An answer that changes neither the session nor the file.
LEMMA AnswerIInv ==
  ASSUME IInv, NEW who \in Callers, NEW ok \in BOOLEAN, Answer(who, ok),
         who \in Clients => doing[who].at \in {"queued", "taken"},
         phase = "serving", UNCHANGED <<phase, events, registry, word>>, UnchangedBySession,
         slots' = [s \in Services |-> slots'[s]],
         task' \in [Services -> {"none", "fresh", "up", "over"}],
         \A s \in Services : SlotAt(s)',
         control' \in Seq(Messages), Posted(control', doing),
         \A i \in 1..Len(control') : who \in Clients => control'[i].who # who,
         \A s \in Services : slots'[s].pending \in Clients =>
           slots'[s].pending = slots[s].pending /\ slots'[s].pending # who,
         ReloadAt'
  PROVE  IInv'
<1>1. /\ doing' \in [Clients -> Jobs]
      /\ \A c \in Clients : c # who => doing'[c] = doing[c]
      /\ \A c \in Clients : JobAt(c)'
      /\ \A c \in Clients : doing[c].at = "recording" => doing'[c] = doing[c]
  BY AnswerFacts DEF UnchangedBySession
<1>2. Types /\ PendingAt /\ FileAt
  BY DEF IInv
<1>3. Types'
  BY <1>1, <1>2 DEF Types, UnchangedBySession
<1>4. Posted(control', doing')
  BY <1>1, PostedChange
<1>5. PendingAt'
  BY <1>1, <1>2 DEF PendingAt
<1>6. FileAt'
  <2>1. writing # Nobody => writing \in Clients
    BY <1>2 DEF Types
  <2> QED BY <1>1, <1>2, <2>1 DEF FileAt, UnchangedBySession
<1> QED BY <1>1, <1>3, <1>4, <1>5, <1>6 DEF IInv

\* An answer to another request leaves a reload where it is.
LEMMA OtherAnswer ==
  ASSUME IInv, NEW who \in Callers, NEW ok \in BOOLEAN, Answer(who, ok),
         who \in Clients => doing[who].what # "reload",
         phase = "serving", UNCHANGED <<phase, registry>>, UnchangedBySession,
         StackPlans' = StackPlans
  PROVE  ReloadAt'
<1>1. Types /\ ReloadAt
  BY DEF IInv
<1>2. reloading.by # Nobody => reloading.by \in Clients /\ doing[reloading.by].what = "reload"
  BY <1>1 DEF Types, ReloadAt
<1>3. reloading.by # Nobody => doing'[reloading.by] = doing[reloading.by]
  BY <1>2 DEF Answer
<1> QED BY <1>1, <1>3 DEF ReloadAt, UnchangedBySession
-----------------------------------------------------------------------------
(* Every step keeps the invariant.                                          *)

\* No daemon runs, and the stopped file is empty.
LEMMA InitIInv ==
  ASSUME Init
  PROVE  IInv
<1>1. DownState /\ phase = "down" /\ file = {} /\ word = [s \in Services |-> FALSE]
  BY DEF Init
<1>2. \A s \in Services : slots[s] = Stack!NoSlot /\ task[s] = "none"
  BY <1>1 DEF DownState
<1>3. \A s \in Services : SlotAt(s) /\ ~slots[s].here /\ slots[s].pending = "none"
  BY <1>2, NoSlotFacts DEF SlotAt
<1>4. Types
  <2>1. doing \in [Clients -> Jobs]
    BY <1>1, IdleFacts DEF DownState
  <2>2. events \in Seq({events[i] : i \in DOMAIN events}) /\ control \in Seq(Messages)
    BY <1>1 DEF DownState
  <2>3. reloading \in [by : Clients \cup {Nobody}, previous : SUBSET Services]
    BY <1>1 DEF DownState, NoReload
  <2> QED BY <1>1, <2>1, <2>2, <2>3 DEF DownState, Types
<1>5. Posted(control, doing)
  BY <1>1 DEF Posted, DownState
<1>6. PendingAt
  BY <1>3, ClientsAssumption DEF PendingAt
<1>7. \A c \in Clients : JobAt(c)
  BY <1>1, IdleFacts DEF JobAt, DownState, Verbs
<1>8. ReloadAt
  BY <1>1 DEF ReloadAt, DownState, NoReload
<1>9. FileAt
  BY <1>1 DEF FileAt, DownState
<1> QED BY <1>3, <1>4, <1>5, <1>6, <1>7, <1>8, <1>9 DEF IInv

\* An event says `up' or `down' of a service, whatever was sent before.
LEMMA SendFacts ==
  ASSUME Types, NEW s \in Services, NEW state \in {"up", "down"}, Send(s, state)
  PROVE  /\ events' \in Seq({events'[i] : i \in DOMAIN events'})
         /\ \A i \in DOMAIN events' : events'[i].state \in {"up", "down"}
<1> DEFINE e == [svc |-> s, state |-> state]
           S == {events[i] : i \in DOMAIN events} \cup {e}
<1>1. events \in Seq({events[i] : i \in DOMAIN events}) /\ e.state \in {"up", "down"}
  BY DEF Types
<1>2. events \in Seq(S) /\ e \in S /\ \A x \in S : x.state \in {"up", "down"}
  BY <1>1 DEF Types
<1> HIDE DEF e, S
<1>3. events' = Append(events, e)
  BY DEF Send, e
<1>4. events' \in Seq(S)
  BY <1>2, <1>3
<1>5. events' \in Seq({events'[i] : i \in DOMAIN events'})
  BY <1>4, SeqOfItsRange
<1>6. \A i \in DOMAIN events' : events'[i] \in S
  BY <1>4
<1> QED BY <1>2, <1>5, <1>6

\* A task tells of its service.
LEMMA AnnouncesStep ==
  ASSUME IInv, NEW s \in Services, Announces(s)
  PROVE  IInv'
<1>1. Types /\ ReloadAt /\ FileAt /\ PendingAt /\ Posted(control, doing)
  BY DEF IInv
<1>2. /\ UNCHANGED <<phase, slots, control, registry, doing, word>>
      /\ UNCHANGED <<names, watching, reloading, file, writing>>
  BY DEF Announces, UnchangedBySession
<1>3. PICK x \in {"up", "over"}, state \in {"up", "down"} :
        /\ task[s] # "none" /\ task' = [task EXCEPT ![s] = x] /\ Send(s, state)
  BY DEF Announces
<1>4. Types'
  <2>1. task' \in [Services -> {"none", "fresh", "up", "over"}]
    BY <1>1, <1>3 DEF Types
  <2>2. /\ events' \in Seq({events'[i] : i \in DOMAIN events'})
        /\ \A i \in DOMAIN events' : events'[i].state \in {"up", "down"}
    BY <1>1, <1>3, SendFacts
  <2> QED BY <1>1, <1>2, <2>1, <2>2 DEF Types
<1>5. \A t \in Services : SlotAt(t)'
  <2>1. \A t \in Services : task'[t] = "none" <=> task[t] = "none"
    BY <1>1, <1>3 DEF Types
  <2> QED BY <1>2, <2>1 DEF IInv, SlotAt
<1>6. \A c \in Clients : JobAt(c)'
  BY <1>2 DEF IInv, JobAt
<1>7. ReloadAt' /\ FileAt' /\ PendingAt' /\ Posted(control, doing)'
  <2>1. StackPlans' = StackPlans
    BY <1>2 DEF StackPlans
  <2> QED BY <1>1, <1>2, <2>1 DEF ReloadAt, FileAt, PendingAt, Posted
<1> QED BY <1>4, <1>5, <1>6, <1>7 DEF IInv

\* The stack takes the report of a task that ended.
LEMMA TakeReportStep ==
  ASSUME IInv, NEW s \in Services, TakeReport(s)
  PROVE  IInv'
<1> DEFINE who == slots[s].pending
           x == Stack!Reported(slots[s])
<1>1. /\ Types /\ PendingAt /\ ReloadAt /\ Posted(control, doing)
      /\ \A t \in Services : SlotAt(t)
      /\ \A c \in Clients : JobAt(c)
  BY DEF IInv
<1>2. /\ phase = "serving" /\ slots' = [slots EXCEPT ![s] = x] /\ Answer(who, TRUE)
      /\ task' = [task EXCEPT ![s] = IF slots'[s].held THEN "fresh" ELSE "none"]
      /\ UNCHANGED <<phase, control, events, registry, word>> /\ UnchangedBySession
  BY DEF TakeReport
<1>3. who \in Callers /\ IsSlot(slots[s])
  BY <1>1 DEF SlotAt, IsSlot
<1>4. IsSlot(x) /\ x.pending = "none" /\ (x.here /\ ~x.retired <=> slots[s].here /\ ~slots[s].retired)
  BY <1>3, ReportedFacts
<1> HIDE DEF x
<1>5. slots'[s] = x /\ \A t \in Services : t # s => slots'[t] = slots[t]
  BY <1>1, <1>2 DEF Types
<1>6. who \in Clients => doing[who].at = "taken"
  BY <1>1 DEF PendingAt
<1>7. slots' = [t \in Services |-> slots'[t]] /\ task' \in [Services -> {"none", "fresh", "up", "over"}]
  BY <1>1, <1>2 DEF Types
<1>8. \A t \in Services : SlotAt(t)'
  <2>1. x.held \in BOOLEAN
    BY <1>4 DEF IsSlot
  <2>2. task'[s] = (IF x.held THEN "fresh" ELSE "none") /\ \A t \in Services : t # s => task'[t] = task[t]
    BY <1>1, <1>2, <1>5 DEF Types
  <2> QED BY <1>1, <1>4, <1>5, <2>1, <2>2 DEF SlotAt
<1>9. /\ control' \in Seq(Messages) /\ Posted(control', doing)
      /\ \A i \in 1..Len(control') : who \in Clients => control'[i].who # who
  BY <1>1, <1>2, <1>6 DEF Posted, Types
<1>10. \A t \in Services : slots'[t].pending \in Clients =>
         slots'[t].pending = slots[t].pending /\ slots'[t].pending # who
  BY <1>1, <1>4, <1>5, ClientsAssumption DEF PendingAt
<1>11. ReloadAt'
  <2>1. StackPlans' = StackPlans
    BY <1>4, <1>5 DEF StackPlans
  <2>2. who \in Clients => doing[who].what # "reload"
    BY <1>1, <1>6 DEF JobAt
  <2> QED BY <1>2, <1>3, <2>1, <2>2, OtherAnswer
<1> QED BY <1>2, <1>3, <1>6, <1>7, <1>8, <1>9, <1>10, <1>11, AnswerIInv

\* A command for one service; the queue is what is left of it.
LEMMA CommandStep ==
  ASSUME IInv, NEW who \in Clients \cup {"watcher"}, NEW what \in Verbs, NEW s \in Services,
         TakeCommand(who, what, s),
         phase = "serving", UNCHANGED <<phase, events, registry, word>>, UnchangedBySession,
         control' \in Seq(Messages), Posted(control', doing),
         \A i \in 1..Len(control') : who \in Clients => control'[i].who # who,
         who \in Clients => doing[who].at = "queued" /\ doing[who].what = what
  PROVE  IInv'
<1>1. /\ Types /\ PendingAt /\ ReloadAt /\ FileAt
      /\ \A t \in Services : SlotAt(t)
      /\ \A c \in Clients : JobAt(c)
  BY DEF IInv
<1>2. who \in Callers /\ who # "none" /\ (who \in Clients => doing[who].what # "reload")
  BY ClientsAssumption DEF Callers, Verbs
<1>3. who \in Clients => \A t \in Services : slots[t].pending # who
  BY <1>1 DEF PendingAt
<1>4. ASSUME NEW ok \in BOOLEAN, Answer(who, ok), UNCHANGED <<slots, task>>
      PROVE  IInv'
  <2>1. /\ slots' = [t \in Services |-> slots'[t]]
        /\ task' \in [Services -> {"none", "fresh", "up", "over"}]
        /\ \A t \in Services : SlotAt(t)'
        /\ StackPlans' = StackPlans
    BY <1>1, <1>4 DEF Types, SlotAt, StackPlans
  <2>2. ReloadAt'
    BY <1>2, <1>4, <2>1, OtherAnswer
  <2>3. \A t \in Services : slots'[t].pending \in Clients =>
          slots'[t].pending = slots[t].pending /\ slots'[t].pending # who
    BY <1>3, <1>4
  <2> QED BY <1>2, <1>4, <2>1, <2>2, <2>3, AnswerIInv
<1>5. ASSUME Stack!Free(slots[s]), ~slots[s].held, Answer(who, TRUE), Spawn(s)
      PROVE  IInv'
  <2> DEFINE x == Stack!Spawned(slots[s])
  <2>1. slots[s].here /\ slots[s].pending = "none" /\ IsSlot(slots[s])
    BY <1>1, <1>5 DEF Stack!Free, SlotAt
  <2>2. IsSlot(x) /\ x.here /\ x.held /\ x.retired = slots[s].retired /\ x.pending = "none"
    BY <2>1, SpawnedFacts
  <2>3. slots' = [slots EXCEPT ![s] = x] /\ task' = [task EXCEPT ![s] = "fresh"]
    BY <1>5 DEF Spawn
  <2> HIDE DEF x
  <2>4. slots'[s] = x /\ task'[s] = "fresh"
        /\ \A t \in Services : t # s => slots'[t] = slots[t] /\ task'[t] = task[t]
    BY <1>1, <2>3 DEF Types
  <2>5. /\ slots' = [t \in Services |-> slots'[t]]
        /\ task' \in [Services -> {"none", "fresh", "up", "over"}]
    BY <1>1, <2>3 DEF Types
  <2>6. \A t \in Services : SlotAt(t)'
    BY <1>1, <2>2, <2>4 DEF SlotAt
  <2>7. StackPlans' = StackPlans
    BY <2>1, <2>2, <2>4 DEF StackPlans
  <2>8. ReloadAt'
    BY <1>2, <1>5, <2>7, OtherAnswer
  <2>9. \A t \in Services : slots'[t].pending \in Clients =>
          slots'[t].pending = slots[t].pending /\ slots'[t].pending # who
    BY <1>3, <2>2, <2>4, ClientsAssumption
  <2> QED BY <1>2, <1>5, <2>5, <2>6, <2>8, <2>9, AnswerIInv
<1>6. ASSUME Stack!Free(slots[s]), slots[s].held,
             NEW x \in {Stack!Stopping(slots[s], who), Stack!Restarting(slots[s], who)},
             Await(who, [slots EXCEPT ![s] = x])
      PROVE  IInv'
  <2>1. slots[s].here /\ slots[s].pending = "none" /\ IsSlot(slots[s])
    BY <1>1, <1>6 DEF Stack!Free, SlotAt
  <2>2. /\ IsSlot(x) /\ x.here = slots[s].here /\ x.held = slots[s].held
        /\ x.retired = slots[s].retired /\ x.pending = who
    <3> DEFINE old == slots[s]
    <3>1. /\ IsSlot(old) /\ who \in Callers
          /\ x \in {Stack!Stopping(old, who), Stack!Restarting(old, who)}
      BY <1>2, <1>6, <2>1
    <3>2. /\ IsSlot(x) /\ x.here = old.here /\ x.held = old.held
          /\ x.retired = old.retired /\ x.pending = who
      <4> HIDE DEF old
      <4> QED BY <3>1, AwaitedFacts
    <3> QED BY <3>2
  <2>3. /\ slots' = [slots EXCEPT ![s] = x] /\ task' = task
        /\ doing' = [c \in Clients |-> IF c = who THEN [doing[c] EXCEPT !.at = "taken"] ELSE doing[c]]
    BY <1>6 DEF Await
  <2>4. slots'[s] = x /\ \A t \in Services : t # s => slots'[t] = slots[t]
    BY <1>1, <2>3 DEF Types
  <2>5. \A t \in Services : SlotAt(t)'
    BY <1>1, <2>2, <2>3, <2>4 DEF SlotAt
  <2>6. StackPlans' = StackPlans
    BY <2>2, <2>4 DEF StackPlans
  <2>7. doing' \in [Clients -> Jobs]
    <3>1. ASSUME NEW c \in Clients
          PROVE  [doing[c] EXCEPT !.at = "taken"] \in Jobs
      <4>1. doing[c] \in Jobs
        BY <1>1 DEF Types
      <4> QED BY <4>1 DEF Jobs
    <3> QED BY <1>1, <2>3, <3>1 DEF Types
  <2>8. /\ \A c \in Clients : c # who => doing'[c] = doing[c]
        /\ who \in Clients =>
             /\ doing'[who].at = "taken" /\ doing'[who].what = what /\ doing'[who].svc = doing[who].svc
             /\ doing'[who].cfg = doing[who].cfg
    BY <1>1, <2>3 DEF Types, Jobs
  <2>9. \A c \in Clients : JobAt(c)'
    <3> SUFFICES ASSUME NEW c \in Clients PROVE JobAt(c)'
      OBVIOUS
    <3>1. CASE c # who
      BY <1>1, <2>8, <3>1 DEF JobAt, UnchangedBySession
    <3>2. CASE c = who
      BY <1>1, <2>8, <3>2 DEF JobAt, Verbs
    <3> QED BY <3>1, <3>2
  <2>10. PendingAt'
    <3> SUFFICES ASSUME NEW t \in Services, slots'[t].pending \in Clients
                 PROVE  /\ doing'[slots'[t].pending].at = "taken"
                        /\ \A u \in Services : slots'[u].pending = slots'[t].pending => u = t
      BY DEF PendingAt
    <3>1. CASE t = s
      BY <1>3, <2>2, <2>4, <2>8, <3>1
    <3>2. CASE t # s
      <4>1. slots'[t].pending = slots[t].pending /\ slots[t].pending # who
        BY <1>3, <2>4, <3>2
      <4> QED BY <1>1, <2>2, <2>4, <2>8, <4>1 DEF PendingAt
    <3> QED BY <3>1, <3>2
  <2>11. Posted(control', doing')
    BY <2>8, PostedChange
  <2>12. Types'
    <3>1. slots' = [t \in Services |-> slots'[t]] /\ task' = task
      BY <1>1, <2>3 DEF Types
    <3>2. /\ events' = events /\ phase' = phase /\ registry' = registry /\ word' = word
          /\ control' \in Seq(Messages)
          /\ UNCHANGED <<names, reloading, file, writing>>
      BY <1>1 DEF UnchangedBySession
    <3> QED BY <1>1, <2>7, <3>1, <3>2 DEF Types
  <2>13. ReloadAt'
    <3>1. reloading.by # Nobody => reloading.by \in Clients /\ doing[reloading.by].what = "reload"
      BY <1>1 DEF Types, ReloadAt
    <3>2. reloading.by # Nobody => doing'[reloading.by] = doing[reloading.by]
      BY <1>2, <2>8, <3>1
    <3> QED BY <1>1, <2>6, <3>2 DEF ReloadAt, UnchangedBySession
  <2>14. FileAt'
    <3>1. writing # Nobody => writing \in Clients /\ doing'[writing] = doing[writing]
      BY <1>1, <2>8 DEF Types, FileAt
    <3> QED BY <1>1, <3>1 DEF FileAt, UnchangedBySession
  <2> QED BY <2>5, <2>9, <2>10, <2>11, <2>12, <2>13, <2>14 DEF IInv
<1>7. slots[s].held \in BOOLEAN
  BY <1>1 DEF SlotAt, IsSlot
<1> QED BY <1>4, <1>5, <1>6, <1>7 DEF TakeCommand

\* The stack works a reload off: retired, replaced and inserted slots.
LEMMA ReloadStep ==
  ASSUME IInv, NEW who \in Clients, NEW cfg \in Configs, TakeReload(who, cfg),
         phase = "serving", UNCHANGED <<phase, events, registry, word>>, UnchangedBySession,
         control' \in Seq(Messages), Posted(control', doing),
         \A i \in 1..Len(control') : control'[i].who # who,
         doing[who].at = "queued", doing[who].what = "reload", doing[who].cfg = cfg
  PROVE  IInv'
<1>1. /\ Types /\ PendingAt /\ ReloadAt
      /\ \A t \in Services : SlotAt(t)
      /\ \A c \in Clients : JobAt(c)
  BY DEF IInv
<1>2. who \in Callers /\ who # Nobody /\ reloading.by = who /\ doing[who] \in Jobs
  BY <1>1, ClientsAssumption DEF Callers, JobAt, Types
<1>3. \A t \in Services : slots[t].pending # who
  BY <1>1 DEF PendingAt
<1>4. ASSUME NEW ok \in BOOLEAN, Answer(who, ok)
      PROVE  /\ doing'[who].at = "answered" /\ doing'[who].ok = ok /\ doing'[who].what = "reload"
             /\ doing'[who].cfg = cfg
  <2>1. doing'[who] = Answered(doing[who], ok)
    BY <1>4 DEF Answer
  <2> QED BY <1>2, <2>1, AnsweredFacts
<1>5. names = Planned(cfg) /\ StackPlans = reloading.previous
  BY <1>1, <1>2 DEF ReloadAt
<1>6. ASSUME Answer(who, FALSE), UNCHANGED <<slots, task>>
      PROVE  IInv'
  <2>1. /\ slots' = [t \in Services |-> slots'[t]]
        /\ task' \in [Services -> {"none", "fresh", "up", "over"}]
        /\ \A t \in Services : SlotAt(t)'
        /\ StackPlans' = StackPlans
    BY <1>1, <1>6 DEF Types, SlotAt, StackPlans
  <2>2. ReloadAt'
    BY <1>1, <1>2, <1>4, <1>5, <1>6, <2>1 DEF ReloadAt, UnchangedBySession
  <2>3. \A t \in Services : slots'[t].pending \in Clients =>
          slots'[t].pending = slots[t].pending /\ slots'[t].pending # who
    BY <1>3, <1>6
  <2> QED BY <1>2, <1>6, <2>1, <2>2, <2>3, AnswerIInv
<1>7. ASSUME \A s \in Services : slots[s].pending = "none",
             slots' = [s \in Services |-> Stack!Reloaded(slots[s], s \in Planned(cfg), cfg.ver[s])],
             task' = [s \in Services |-> IF slots'[s].held /\ ~slots[s].held THEN "fresh" ELSE task[s]],
             Answer(who, TRUE)
      PROVE  IInv'
  <2>1. ASSUME NEW s \in Services
        PROVE  /\ IsSlot(slots'[s]) /\ slots'[s].pending = "none" /\ (slots[s].held => slots'[s].held)
               /\ slots'[s].here /\ ~slots'[s].retired <=> s \in Planned(cfg)
    <3> DEFINE planned == s \in Planned(cfg)
               x == slots[s]
               y == Stack!Reloaded(x, planned, cfg.ver[s])
    <3>1. IsSlot(x) /\ x.pending = "none" /\ planned \in BOOLEAN
      BY <1>1, <1>7 DEF SlotAt
    <3>2. slots'[s] = y
      BY <1>7
    <3>3. /\ IsSlot(y) /\ y.pending = "none" /\ (x.held => y.held)
          /\ y.here /\ ~y.retired <=> planned
      <4> HIDE DEF planned, x
      <4> QED BY <3>1, ReloadedFacts
    <3> QED BY <3>2, <3>3
  <2>2. slots' = [t \in Services |-> slots'[t]]
    BY <1>7
  <2>3. task' \in [Services -> {"none", "fresh", "up", "over"}]
    BY <1>1, <1>7 DEF Types
  <2>4. \A s \in Services : SlotAt(s)'
    BY <1>1, <1>7, <2>1 DEF SlotAt
  <2>5. StackPlans' = Planned(cfg)
    <3>1. Planned(cfg) \subseteq Services
      BY ConfigsAssumption DEF Planned
    <3> QED BY <2>1, <3>1 DEF StackPlans
  <2>6. ReloadAt'
    BY <1>1, <1>2, <1>4, <1>5, <1>7, <2>5 DEF ReloadAt, UnchangedBySession
  <2>7. \A t \in Services : slots'[t].pending \in Clients =>
          slots'[t].pending = slots[t].pending /\ slots'[t].pending # who
    BY <2>1, ClientsAssumption
  <2> QED BY <1>2, <1>7, <2>2, <2>3, <2>4, <2>6, <2>7, AnswerIInv
<1> QED BY <1>6, <1>7 DEF TakeReload

\* The stack takes a control message.
LEMMA TakeControlStep ==
  ASSUME IInv, TakeControl
  PROVE  IInv'
<1> DEFINE msg == Head(control)
<1>1. /\ phase = "serving" /\ control # <<>> /\ control' = Tail(control)
      /\ IF msg.what = "reload" THEN TakeReload(msg.who, msg.cfg)
         ELSE TakeCommand(msg.who, msg.what, msg.svc)
      /\ UNCHANGED <<phase, events, registry, word>> /\ UnchangedBySession
  BY DEF TakeControl
<1>2. control \in Seq(Messages) /\ Posted(control, doing)
  BY DEF IInv, Types
<1>3. /\ control' \in Seq(Messages) /\ Posted(control', doing)
      /\ msg \in Messages
      /\ \A i \in 1..Len(control') : msg.who \in Clients => control'[i].who # msg.who
      /\ msg.who = "watcher" => msg.what # "reload"
      /\ msg.what # "reload" => msg.svc \in Services
      /\ msg.who \in Clients =>
           doing[msg.who].at = "queued" /\ doing[msg.who].what = msg.what /\ doing[msg.who].cfg = msg.cfg
  BY <1>1, <1>2, PostedTail
<1>4. msg.who \in Clients \cup {"watcher"} /\ msg.what \in Verbs \cup {"reload"}
  BY <1>3 DEF Messages
<1> HIDE DEF msg
<1>5. CASE msg.what = "reload"
  <2>1. msg.who \in Clients
    BY <1>3, <1>4, <1>5
  <2>2. msg.cfg \in Configs
    BY <1>3, <1>5, <2>1 DEF IInv, JobAt
  <2> QED BY <1>1, <1>3, <1>5, <2>1, <2>2, ReloadStep
<1>6. CASE msg.what # "reload"
  <2>1. msg.what \in Verbs /\ msg.svc \in Services
    BY <1>3, <1>4, <1>6
  <2> QED BY <1>1, <1>3, <1>4, <1>6, <2>1, CommandStep
<1> QED BY <1>5, <1>6

\* The collector moves an event into the registry.
LEMMA CollectStep ==
  ASSUME IInv, Collect
  PROVE  IInv'
<1> DEFINE e == Head(events)
<1>1. /\ events # <<>> /\ events' = Tail(events)
      /\ registry' = [registry EXCEPT ![e.svc] = Applied(@, e)]
      /\ UNCHANGED <<phase, slots, task, control, doing, word>>
      /\ UNCHANGED <<names, watching, reloading, file, writing>>
  BY DEF Collect, UnchangedBySession
<1>2. Types /\ ReloadAt /\ FileAt /\ PendingAt /\ Posted(control, doing)
  BY DEF IInv
<1>3. /\ events' \in Seq({events'[i] : i \in DOMAIN events'})
      /\ \A i \in DOMAIN events' : events'[i].state \in {"up", "down"}
      /\ e.state \in {"up", "down"}
  <2> DEFINE S == {events[i] : i \in DOMAIN events}
  <2>1. events \in Seq(S) /\ \A x \in S : x.state \in {"up", "down"}
    BY <1>2 DEF Types
  <2> HIDE DEF S
  <2>2. events' \in Seq(S) /\ e \in S
    BY <1>1, <2>1
  <2>3. events' \in Seq({events'[i] : i \in DOMAIN events'})
    BY <2>2, SeqOfItsRange
  <2>4. \A i \in DOMAIN events' : events'[i] \in S
    BY <2>2
  <2> QED BY <2>1, <2>2, <2>3, <2>4
<1> HIDE DEF e
<1>4. /\ registry' \in [Services -> {"absent", "pending", "up", "down"}]
      /\ \A s \in Services : registry'[s] = "absent" <=> registry[s] = "absent"
  <2>1. registry \in [Services -> {"absent", "pending", "up", "down"}]
    BY <1>2 DEF Types
  <2>2. registry' = [s \in Services |-> IF s = e.svc THEN Applied(registry[s], e) ELSE registry[s]]
    BY <1>1, <2>1
  <2>3. \A s \in Services : /\ Applied(registry[s], e) \in {"absent", "pending", "up", "down"}
                            /\ Applied(registry[s], e) = "absent" <=> registry[s] = "absent"
    BY <1>3, <2>1 DEF Applied
  <2> QED BY <2>1, <2>2, <2>3
<1>5. Types'
  BY <1>1, <1>2, <1>3, <1>4 DEF Types
<1>6. /\ \A t \in Services : SlotAt(t)'
      /\ \A c \in Clients : JobAt(c)'
  BY <1>1 DEF IInv, JobAt, SlotAt
<1>7. ReloadAt' /\ FileAt' /\ PendingAt' /\ Posted(control, doing)'
  <2>1. StackPlans' = StackPlans
    BY <1>1 DEF StackPlans
  <2> QED BY <1>1, <1>2, <1>4, <2>1 DEF ReloadAt, FileAt, PendingAt, Posted
<1> QED BY <1>5, <1>6, <1>7 DEF IInv

\* A client that was idle sends a message and waits.
LEMMA AskedFacts ==
  ASSUME IInv, NEW c \in Clients, doing[c].at = "idle", NEW job \in Jobs, job.at = "queued",
         NEW m \in Messages, m.who = c, m.what = job.what, m.cfg = job.cfg,
         m.what # "reload" => m.svc \in Services,
         doing' = [doing EXCEPT ![c] = job], Post(m), UNCHANGED slots
  PROVE  /\ doing' \in [Clients -> Jobs] /\ doing'[c] = job
         /\ \A d \in Clients : d # c => doing'[d] = doing[d]
         /\ control' \in Seq(Messages) /\ Posted(control, doing)' /\ PendingAt'
<1>1. Types /\ PendingAt /\ Posted(control, doing)
  BY DEF IInv
<1>2. /\ doing' \in [Clients -> Jobs] /\ doing'[c] = job
      /\ \A d \in Clients : d # c => doing'[d] = doing[d]
  BY <1>1 DEF Types
<1>3. control \in Seq(Messages) /\ \A i \in 1..Len(control) : control[i].who # c
  BY <1>1 DEF Types, Posted
<1>4. Posted(control, doing')
  <2>1. \A i \in 1..Len(control) : control[i].who \in Clients =>
          doing'[control[i].who] = doing[control[i].who]
    BY <1>2, <1>3
  <2>2. Posted(control, doing) /\ control \in Seq(Messages)
    BY <1>1, <1>3
  <2> QED BY <2>1, <2>2 DEF Posted
<1>5. m.who # "watcher"
  BY ClientsAssumption
<1>6. Append(control, m) \in Seq(Messages) /\ Posted(Append(control, m), doing')
  BY <1>2, <1>3, <1>4, <1>5, PostedAppend
<1>7. PendingAt'
  BY <1>1, <1>2 DEF PendingAt
<1> QED BY <1>2, <1>6, <1>7 DEF Post

\* A client asks for a stop or a restart.
LEMMA AskStep ==
  ASSUME IInv, NEW c \in Clients, NEW what \in Verbs, NEW s \in Services, Ask(c, what, s)
  PROVE  IInv'
<1> DEFINE a == [Idle EXCEPT !.at = "queued"]
           b == [a EXCEPT !.what = what]
           job == [b EXCEPT !.svc = s]
           m == [who |-> c, what |-> what, svc |-> s, cfg |-> Nobody]
<1>1. /\ phase = "serving" /\ doing[c].at = "idle"
      /\ doing' = [doing EXCEPT ![c] = [Idle EXCEPT !.at = "queued", !.what = what, !.svc = s]]
      /\ Post(m) /\ word' = [word EXCEPT ![s] = @ /\ what = "stop"]
      /\ UNCHANGED <<phase, slots, task, events, registry>>
      /\ UNCHANGED <<names, watching, reloading, file, writing>>
  BY DEF Ask, UnchangedBySession
<1>2. Types /\ ReloadAt /\ FileAt /\ \A d \in Clients : JobAt(d)
  BY DEF IInv
<1>3. /\ doing' = [doing EXCEPT ![c] = job] /\ job \in Jobs /\ job.at = "queued"
      /\ job.what = what /\ job.svc = s /\ job.cfg = Nobody
  BY <1>1 DEF Idle, Jobs
<1>4. /\ m \in Messages /\ m.who = c /\ m.what = job.what /\ m.cfg = job.cfg
      /\ m.svc \in Services /\ slots' = slots
  BY <1>1, <1>3 DEF Messages
<1> HIDE DEF job, m
<1>5. /\ doing' \in [Clients -> Jobs] /\ doing'[c] = job
      /\ \A d \in Clients : d # c => doing'[d] = doing[d]
      /\ control' \in Seq(Messages) /\ Posted(control, doing)' /\ PendingAt'
  BY <1>1, <1>3, <1>4, AskedFacts
<1>6. word' \in [Services -> BOOLEAN] /\ \A t \in Services : word'[t] => word[t]
  <2>1. word \in [Services -> BOOLEAN] /\ (word[s] /\ what = "stop") \in BOOLEAN
    BY <1>2 DEF Types
  <2> QED BY <1>1, <2>1
<1>7. Types'
  BY <1>1, <1>2, <1>5, <1>6 DEF Types
<1>8. what # "none" /\ what # "reload"
  BY DEF Verbs
<1>9. ASSUME NEW d \in Clients
      PROVE  JobAt(d)'
  <2>1. CASE d = c
    BY <1>1, <1>3, <1>5, <1>8, <2>1 DEF JobAt
  <2>2. CASE d # c
    BY <1>1, <1>2, <1>5, <2>2 DEF JobAt
  <2> QED BY <2>1, <2>2
<1>10. ReloadAt'
  <2>1. StackPlans' = StackPlans
    BY <1>1 DEF StackPlans
  <2>2. reloading.by # Nobody => reloading.by \in Clients /\ reloading.by # c
    BY <1>1, <1>2 DEF Types, ReloadAt, JobAt
  <2>3. reloading.by # Nobody => doing'[reloading.by] = doing[reloading.by]
    BY <1>5, <2>2
  <2> QED BY <1>1, <1>2, <2>1, <2>3 DEF ReloadAt
<1>11. FileAt'
  <2>1. writing # Nobody => writing \in Clients /\ writing # c
    BY <1>1, <1>2 DEF Types, FileAt
  <2>2. writing # Nobody => doing'[writing] = doing[writing]
    BY <1>5, <2>1
  <2> QED BY <1>1, <1>2, <1>6, <2>2 DEF FileAt
<1>12. \A t \in Services : SlotAt(t)'
  BY <1>1 DEF IInv, SlotAt
<1> QED BY <1>5, <1>7, <1>9, <1>10, <1>11, <1>12 DEF IInv

\* What the registry holds after a reload that plans these services.
LEMMA SyncedFacts ==
  ASSUME Types, NEW plan \in SUBSET Services
  PROVE  /\ Synced(plan) \in [Services -> {"absent", "pending", "up", "down"}]
         /\ plan = {s \in Services : Synced(plan)[s] # "absent"}
BY DEF Synced, Types

\* A client asks for a reload.
LEMMA AskReloadStep ==
  ASSUME IInv, NEW c \in Clients, NEW cfg \in Configs, AskReload(c, cfg)
  PROVE  IInv'
<1> DEFINE a == [Idle EXCEPT !.at = "queued"]
           b == [a EXCEPT !.what = "reload"]
           job == [b EXCEPT !.cfg = cfg]
           m == [who |-> c, what |-> "reload", svc |-> Nobody, cfg |-> cfg]
<1>1. /\ phase = "serving" /\ doing[c].at = "idle" /\ reloading.by = Nobody
      /\ reloading' = [by |-> c, previous |-> names]
      /\ registry' = Synced(Planned(cfg)) /\ names' = Planned(cfg)
      /\ doing' = [doing EXCEPT ![c] = [Idle EXCEPT !.at = "queued", !.what = "reload", !.cfg = cfg]]
      /\ Post(m)
      /\ UNCHANGED <<phase, slots, task, events, watching, file, writing, word>>
  BY DEF AskReload
<1>2. Types /\ ReloadAt /\ FileAt /\ \A d \in Clients : JobAt(d)
  BY DEF IInv
<1>3. /\ doing' = [doing EXCEPT ![c] = job] /\ job \in Jobs /\ job.at = "queued"
      /\ job.what = "reload" /\ job.cfg = cfg
  BY <1>1 DEF Idle, Jobs
<1>4. m \in Messages /\ m.who = c /\ m.what = "reload" /\ m.cfg = cfg
  BY DEF Messages
<1> HIDE DEF job, m
<1>5. /\ doing' \in [Clients -> Jobs] /\ doing'[c] = job
      /\ \A d \in Clients : d # c => doing'[d] = doing[d]
      /\ control' \in Seq(Messages) /\ Posted(control, doing)' /\ PendingAt'
  <2>1. doing[c].at = "idle" /\ Post(m) /\ UNCHANGED slots /\ m.what = job.what /\ m.cfg = job.cfg
    BY <1>1, <1>3, <1>4
  <2> QED BY <1>3, <1>4, <2>1, AskedFacts
<1>6. Planned(cfg) \in SUBSET Services
  BY ConfigsAssumption DEF Planned
<1>7. /\ registry' \in [Services -> {"absent", "pending", "up", "down"}]
      /\ names' = {s \in Services : registry'[s] # "absent"}
  BY <1>1, <1>2, <1>6, SyncedFacts
<1>8. reloading' \in [by : Clients \cup {Nobody}, previous : SUBSET Services]
      /\ reloading'.by = c /\ reloading'.previous = names
  BY <1>1, <1>2 DEF Types
<1>9. Types'
  BY <1>1, <1>2, <1>5, <1>6, <1>7, <1>8 DEF Types
<1>10. ASSUME NEW d \in Clients
       PROVE  JobAt(d)'
  <2>1. CASE d = c
    BY <1>1, <1>3, <1>5, <1>8, <2>1 DEF JobAt, Verbs
  <2>2. CASE d # c
    <3>1. JobAt(d) /\ d # Nobody
      BY <1>2, ClientsAssumption
    <3>2. doing[d].what # "reload"
      BY <1>1, <3>1 DEF JobAt
    <3> QED BY <1>1, <1>5, <2>2, <3>1, <3>2 DEF JobAt
  <2> QED BY <2>1, <2>2
<1>11. ReloadAt'
  <2>1. StackPlans' = StackPlans
    BY <1>1 DEF StackPlans
  <2>2. c # Nobody /\ StackPlans = names
    BY <1>1, <1>2, ClientsAssumption DEF ReloadAt
  <2> QED BY <1>1, <1>3, <1>5, <1>7, <1>8, <2>1, <2>2 DEF ReloadAt
<1>12. FileAt'
  <2>1. writing # Nobody => writing \in Clients /\ writing # c
    BY <1>1, <1>2 DEF Types, FileAt
  <2>2. writing # Nobody => doing'[writing] = doing[writing]
    BY <1>5, <2>1
  <2> QED BY <1>1, <1>2, <2>2 DEF FileAt
<1>13. \A t \in Services : SlotAt(t)'
  BY <1>1 DEF IInv, SlotAt
<1> QED BY <1>5, <1>9, <1>10, <1>11, <1>12, <1>13 DEF IInv

\* The watcher asks for a restart, and waits for nobody.
LEMMA WatcherAsksStep ==
  ASSUME IInv, NEW s \in Services, WatcherAsks(s)
  PROVE  IInv'
<1> DEFINE m == [who |-> "watcher", what |-> "restart", svc |-> s, cfg |-> Nobody]
<1>1. /\ phase = "serving" /\ Post(m)
      /\ UNCHANGED <<phase, slots, task, events, registry, doing, word>>
      /\ UNCHANGED <<names, watching, reloading, file, writing>>
  BY DEF WatcherAsks, UnchangedBySession
<1>2. Types /\ ReloadAt /\ FileAt /\ PendingAt /\ Posted(control, doing)
  BY DEF IInv
<1>3. /\ m \in Messages /\ m.who = "watcher" /\ m.what # "reload" /\ m.svc \in Services
      /\ m.who \notin Clients
  BY ClientsAssumption DEF Messages, Verbs
<1> HIDE DEF m
<1>4. control' \in Seq(Messages) /\ Posted(control', doing)
  <2>1. control \in Seq(Messages)
    BY <1>2 DEF Types
  <2> QED BY <1>1, <1>2, <1>3, <2>1, PostedAppend DEF Post
<1>5. Types'
  BY <1>1, <1>2, <1>4 DEF Types
<1>6. /\ \A t \in Services : SlotAt(t)'
      /\ \A c \in Clients : JobAt(c)'
  BY <1>1 DEF IInv, JobAt, SlotAt
<1>7. ReloadAt' /\ FileAt' /\ PendingAt'
  <2>1. StackPlans' = StackPlans
    BY <1>1 DEF StackPlans
  <2> QED BY <1>1, <1>2, <2>1 DEF ReloadAt, FileAt, PendingAt
<1>8. Posted(control, doing)'
  BY <1>1, <1>4
<1> QED BY <1>5, <1>6, <1>7, <1>8 DEF IInv

\* A client's job goes on without the stack, and ends no wait.
LEMMA JobFacts ==
  ASSUME IInv, NEW c \in Clients, doing[c].at \notin {"queued", "taken"}, NEW job \in Jobs,
         doing' = [doing EXCEPT ![c] = job], UNCHANGED <<slots, task, control>>
  PROVE  /\ doing' \in [Clients -> Jobs] /\ doing'[c] = job
         /\ \A d \in Clients : d # c => doing'[d] = doing[d]
         /\ \A s \in Services : SlotAt(s)'
         /\ Posted(control, doing)' /\ PendingAt'
         /\ StackPlans' = StackPlans
<1>1. Types /\ PendingAt /\ Posted(control, doing) /\ \A s \in Services : SlotAt(s)
  BY DEF IInv
<1>2. /\ doing' \in [Clients -> Jobs] /\ doing'[c] = job
      /\ \A d \in Clients : d # c => doing'[d] = doing[d]
  BY <1>1 DEF Types
<1>3. \A i \in 1..Len(control) : control[i].who # c
  BY <1>1 DEF Posted
<1>4. Posted(control, doing)'
  BY <1>1, <1>2, <1>3 DEF Posted
<1>5. PendingAt'
  BY <1>1, <1>2 DEF PendingAt
<1> QED BY <1>1, <1>2, <1>4, <1>5 DEF SlotAt, StackPlans

\* A client hears that its reload was refused: the session goes back to what it was.
LEMMA HearRefusalStep ==
  ASSUME IInv, NEW c \in Clients, HearRefusal(c)
  PROVE  IInv'
<1>1. /\ doing[c].at = "answered" /\ ~doing[c].ok
      /\ doing' = [doing EXCEPT ![c] = Idle]
      /\ registry' = Synced(reloading.previous) /\ names' = reloading.previous
      /\ reloading' = NoReload
      /\ UNCHANGED <<phase, slots, task, control, events, watching, file, writing, word>>
  BY DEF HearRefusal
<1>2. Types /\ ReloadAt /\ FileAt /\ \A d \in Clients : JobAt(d)
  BY DEF IInv
<1>3. /\ doing' \in [Clients -> Jobs] /\ doing'[c] = Idle
      /\ \A d \in Clients : d # c => doing'[d] = doing[d]
      /\ \A s \in Services : SlotAt(s)'
      /\ Posted(control, doing)' /\ PendingAt'
      /\ StackPlans' = StackPlans
  BY <1>1, IdleFacts, JobFacts
<1>4. reloading.by = c /\ c # Nobody /\ reloading.previous \in SUBSET Services
  BY <1>1, <1>2, ClientsAssumption DEF JobAt, Types
<1>5. reloading' \in [by : Clients \cup {Nobody}, previous : SUBSET Services]
      /\ reloading'.by = Nobody
  BY <1>1 DEF NoReload
<1>6. /\ registry' \in [Services -> {"absent", "pending", "up", "down"}]
      /\ names' = {s \in Services : registry'[s] # "absent"}
  BY <1>1, <1>2, <1>4, SyncedFacts
<1>7. Types'
  BY <1>1, <1>2, <1>3, <1>4, <1>5, <1>6 DEF Types
<1>8. ASSUME NEW d \in Clients
      PROVE  JobAt(d)'
  <2>1. CASE d = c
    BY <1>3, <2>1, IdleFacts DEF JobAt, Verbs
  <2>2. CASE d # c
    BY <1>1, <1>2, <1>3, <1>4, <2>2 DEF JobAt
  <2> QED BY <2>1, <2>2
<1>9. ReloadAt'
  BY <1>1, <1>2, <1>3, <1>4, <1>5, <1>6 DEF ReloadAt
<1>10. FileAt'
  <2>1. writing # Nobody => writing \in Clients /\ writing # c
    BY <1>1, <1>2 DEF Types, FileAt
  <2> QED BY <1>1, <1>2, <1>3, <2>1 DEF FileAt
<1> QED BY <1>3, <1>7, <1>8, <1>9, <1>10 DEF IInv

\* A client hears that its reload was made: the watchers follow the new plan.
LEMMA HearReloadedStep ==
  ASSUME IInv, NEW c \in Clients, HearReloaded(c)
  PROVE  IInv'
<1>1. /\ doing[c].at = "answered" /\ doing[c].ok /\ doing[c].what = "reload"
      /\ doing' = [doing EXCEPT ![c] = Idle] /\ reloading' = NoReload
      /\ UNCHANGED <<phase, slots, task, control, events, registry, names, file, writing, word>>
  BY DEF HearReloaded
<1>2. Types /\ ReloadAt /\ FileAt /\ \A d \in Clients : JobAt(d)
  BY DEF IInv
<1>3. /\ doing' \in [Clients -> Jobs] /\ doing'[c] = Idle
      /\ \A d \in Clients : d # c => doing'[d] = doing[d]
      /\ \A s \in Services : SlotAt(s)'
      /\ Posted(control, doing)' /\ PendingAt'
      /\ StackPlans' = StackPlans
  BY <1>1, IdleFacts, JobFacts
<1>4. reloading.by = c /\ c # Nobody
  BY <1>1, <1>2, ClientsAssumption DEF JobAt
<1>5. reloading' \in [by : Clients \cup {Nobody}, previous : SUBSET Services]
      /\ reloading'.by = Nobody
  BY <1>1 DEF NoReload
<1>6. Types'
  BY <1>1, <1>2, <1>3, <1>5 DEF Types
<1>7. ASSUME NEW d \in Clients
      PROVE  JobAt(d)'
  <2>1. CASE d = c
    BY <1>3, <2>1, IdleFacts DEF JobAt, Verbs
  <2>2. CASE d # c
    BY <1>1, <1>2, <1>3, <1>4, <2>2 DEF JobAt
  <2> QED BY <2>1, <2>2
<1>8. ReloadAt'
  BY <1>1, <1>2, <1>3, <1>4, <1>5 DEF ReloadAt
<1>9. FileAt'
  <2>1. writing # Nobody => writing \in Clients /\ writing # c
    BY <1>1, <1>2 DEF Types, FileAt
  <2> QED BY <1>1, <1>2, <1>3, <2>1 DEF FileAt
<1> QED BY <1>3, <1>6, <1>7, <1>8, <1>9 DEF IInv

\* A job that is no reload leaves a reload where it is.
LEMMA ReloadStays ==
  ASSUME IInv, NEW c \in Clients, doing[c].what # "reload",
         \A d \in Clients : d # c => doing'[d] = doing[d],
         UNCHANGED <<phase, slots, control, registry, names, reloading>>
  PROVE  ReloadAt'
<1>1. Types /\ ReloadAt
  BY DEF IInv
<1>2. reloading.by # Nobody => reloading.by \in Clients /\ reloading.by # c
  BY <1>1 DEF Types, ReloadAt
<1>3. StackPlans' = StackPlans
  BY DEF StackPlans
<1> QED BY <1>1, <1>2, <1>3 DEF ReloadAt

\* The stopped file is read and rewritten under its lock.
LEMMA RememberStep ==
  ASSUME IInv, NEW c \in Clients, Remember(c)
  PROVE  IInv'
<1> DEFINE a == [doing[c] EXCEPT !.at = "recording"]
           job == [a EXCEPT !.read = file]
<1>1. /\ doing[c].at = "answered" /\ doing[c].ok /\ doing[c].what # "reload"
      /\ writing = Nobody /\ writing' = c
      /\ doing' = [doing EXCEPT ![c].at = "recording", ![c].read = file]
      /\ UNCHANGED <<phase, slots, task, control, events, registry, names, watching,
                     reloading, file, word>>
  BY DEF Remember
<1>2. Types /\ ReloadAt /\ FileAt /\ \A d \in Clients : JobAt(d)
  BY DEF IInv
<1>3. /\ a \in Jobs /\ a.at = "recording" /\ a.what = doing[c].what /\ a.svc = doing[c].svc
  <2>1. doing[c] \in Jobs
    BY <1>2 DEF Types
  <2> QED BY <2>1 DEF Jobs
<1>4. /\ job \in Jobs /\ job.at = "recording" /\ job.what = doing[c].what /\ job.svc = doing[c].svc
      /\ job.read = file
  <2>1. file \in SUBSET Services
    BY <1>2 DEF Types
  <2> HIDE DEF a
  <2> QED BY <1>3, <2>1 DEF Jobs
<1>5. doing' = [doing EXCEPT ![c] = job]
  <2> DEFINE one == [doing EXCEPT ![c] = a]
  <2>1. doing \in [Clients -> Jobs]
    BY <1>2 DEF Types
  <2>2. doing' = [one EXCEPT ![c] = [one[c] EXCEPT !.read = file]]
    BY <1>1, Zenon
  <2>3. one[c] = a
    BY <2>1
  <2>4. doing' = [one EXCEPT ![c] = job]
    BY <2>2, <2>3
  <2> HIDE DEF a, job
  <2>5. [one EXCEPT ![c] = job] = [doing EXCEPT ![c] = job]
    BY <2>1
  <2> QED BY <2>4, <2>5
<1> HIDE DEF a, job
<1>6. /\ doing' \in [Clients -> Jobs] /\ doing'[c] = job
      /\ \A d \in Clients : d # c => doing'[d] = doing[d]
      /\ \A s \in Services : SlotAt(s)'
      /\ Posted(control, doing)' /\ PendingAt'
      /\ StackPlans' = StackPlans
  BY <1>1, <1>4, <1>5, JobFacts
<1>7. Types'
  BY <1>1, <1>2, <1>6 DEF Types
<1>8. ASSUME NEW d \in Clients
      PROVE  JobAt(d)'
  <2>1. CASE d = c
    BY <1>1, <1>2, <1>4, <1>6, <2>1 DEF JobAt
  <2>2. CASE d # c
    BY <1>1, <1>2, <1>6, <2>2 DEF JobAt
  <2> QED BY <2>1, <2>2
<1>9. ReloadAt'
  BY <1>1, <1>6, ReloadStays
<1>10. FileAt'
  BY <1>1, <1>2, <1>4, <1>6 DEF FileAt, JobAt
<1> QED BY <1>6, <1>7, <1>8, <1>9, <1>10 DEF IInv

\* A client gets its answer.
LEMMA RespondStep ==
  ASSUME IInv, NEW c \in Clients, Respond(c)
  PROVE  IInv'
<1> DEFINE job == doing[c]
<1>1. /\ job.at = "recording" /\ doing' = [doing EXCEPT ![c] = Idle]
      /\ writing' = IF writing = c THEN Nobody ELSE writing
      /\ UNCHANGED <<phase, slots, task, control, events, registry, names, watching, reloading>>
  BY DEF Respond
<1>2. Types /\ ReloadAt /\ FileAt /\ \A d \in Clients : JobAt(d)
  BY DEF IInv
<1>3. /\ doing' \in [Clients -> Jobs] /\ doing'[c] = Idle
      /\ \A d \in Clients : d # c => doing'[d] = doing[d]
      /\ \A s \in Services : SlotAt(s)'
      /\ Posted(control, doing)' /\ PendingAt'
      /\ StackPlans' = StackPlans
  BY <1>1, IdleFacts, JobFacts
<1>4. job.what \in Verbs /\ job.svc \in Services /\ job.read \in SUBSET Services
  <2>1. job \in Jobs /\ JobAt(c)
    BY <1>2 DEF Types
  <2>2. job.what \in Verbs
    BY <1>1, <2>1 DEF JobAt, Jobs
  <2> QED BY <2>1, <2>2 DEF JobAt, Jobs
<1>5. job.what # "reload" /\ c # Nobody
  BY <1>4, ClientsAssumption DEF Verbs
<1> DEFINE kept == Recorded(c)
<1>6. /\ kept \in SUBSET Services
      /\ job.what = "stop" => job.svc \in kept
      /\ \A s \in Services : s \in job.read /\ s # job.svc => s \in kept
  BY <1>4 DEF Recorded
<1>7. \/ /\ file' = (IF kept = job.read THEN file ELSE kept)
         /\ word' = IF Late(c) THEN [s \in Services |-> FALSE]
                    ELSE [word EXCEPT ![job.svc] =
                            job.what = "stop" /\ (@ \/ (~TakenBack(c) /\ job.read = file))]
      \/ file' = file /\ word' = [word EXCEPT ![job.svc] = FALSE]
  BY DEF Respond
<1> HIDE DEF kept, job
<1> DEFINE Written == file' \in SUBSET Services /\ word' \in [Services -> BOOLEAN] /\ FileAt'
<1>8. ASSUME file' = (IF kept = job.read THEN file ELSE kept),
             word' = [s \in Services |-> FALSE]
      PROVE  Written
  <2>1. file' \in SUBSET Services /\ word' \in [Services -> BOOLEAN]
    BY <1>2, <1>6, <1>8 DEF Types
  <2>2. \A s \in Services : ~word'[s]
    BY <1>8
  <2>3. FileAt'
    <3>1. writing' # Nobody => writing \in Clients /\ writing # c /\ writing' = writing
      BY <1>1, <1>2 DEF Types
    <3> QED BY <1>1, <1>2, <1>3, <2>2, <3>1 DEF FileAt
  <2> QED BY <2>1, <2>3
<1>9. ASSUME file' = (IF kept = job.read THEN file ELSE kept), ~Late(c),
             word' = [word EXCEPT ![job.svc] =
                        job.what = "stop" /\ (@ \/ (~TakenBack(c) /\ job.read = file))]
      PROVE  Written
  <2>1. writing = c /\ writing' = Nobody
    BY <1>1, <1>9 DEF Late, job
  <2>2. word \in [Services -> BOOLEAN] /\ file \in SUBSET Services
    BY <1>2 DEF Types
  <2> DEFINE told == job.what = "stop" /\ (word[job.svc] \/ (~TakenBack(c) /\ job.read = file))
  <2>3. word' = [word EXCEPT ![job.svc] = told] /\ told \in BOOLEAN
    BY <1>9, <2>2
  <2>4. job.read = file \/ \A s \in Services : ~word[s]
    BY <1>2, <1>5, <2>1 DEF FileAt, job
  <2>5. told => job.what = "stop" /\ job.read = file
    BY <1>4, <2>4
  <2> HIDE DEF told
  <2>6. file' \in SUBSET Services /\ word' \in [Services -> BOOLEAN]
    BY <1>4, <1>6, <1>9, <2>2, <2>3
  <2>7. ASSUME NEW s \in Services, word'[s]
        PROVE  s \in file'
    <3>1. CASE s = job.svc
      <4>1. told
        BY <1>4, <2>2, <2>3, <2>7, <3>1
      <4> QED BY <1>6, <1>9, <2>5, <3>1, <4>1
    <3>2. CASE s # job.svc
      <4>1. word[s]
        BY <1>4, <2>2, <2>3, <2>7, <3>2
      <4>2. s \in file /\ job.read = file
        BY <1>2, <2>4, <4>1 DEF FileAt
      <4> QED BY <1>6, <1>9, <3>2, <4>2
    <3> QED BY <3>1, <3>2
  <2>8. FileAt'
    BY <2>1, <2>7 DEF FileAt
  <2> QED BY <2>6, <2>8
<1>10. ASSUME file' = file, word' = [word EXCEPT ![job.svc] = FALSE]
       PROVE  Written
  <2>1. /\ word' \in [Services -> BOOLEAN] /\ file' \in SUBSET Services
        /\ \A s \in Services : word'[s] => word[s]
    BY <1>2, <1>4, <1>10 DEF Types
  <2>2. writing' # Nobody => writing \in Clients /\ writing # c /\ writing' = writing
    BY <1>1, <1>2 DEF Types
  <2>3. FileAt'
    BY <1>1, <1>2, <1>3, <1>10, <2>1, <2>2 DEF FileAt
  <2> QED BY <2>1, <2>3
<1>11. Written
  <2> HIDE DEF Written
  <2>1. CASE Late(c)
    BY <1>7, <1>8, <1>10, <2>1
  <2>2. CASE ~Late(c)
    BY <1>7, <1>9, <1>10, <2>2
  <2> QED BY <2>1, <2>2
<1>12. Types'
  <2>1. writing' \in Clients \cup {Nobody}
    BY <1>1, <1>2 DEF Types
  <2> QED BY <1>1, <1>2, <1>3, <1>11, <2>1 DEF Types
<1>13. ASSUME NEW d \in Clients
       PROVE  JobAt(d)'
  <2>1. CASE d = c
    BY <1>3, <2>1, IdleFacts DEF JobAt, Verbs
  <2>2. CASE d # c
    BY <1>1, <1>2, <1>3, <2>2 DEF JobAt
  <2> QED BY <2>1, <2>2
<1>14. ReloadAt'
  BY <1>1, <1>3, <1>5, ReloadStays DEF job
<1> QED BY <1>3, <1>11, <1>12, <1>13, <1>14 DEF IInv

\* The stack has ended.
LEMMA ReleasedFacts ==
  ASSUME Released
  PROVE  /\ slots' = [s \in Services |-> slots'[s]]
         /\ task' \in [Services -> {"none", "fresh", "up", "over"}]
         /\ control' \in Seq(Messages) /\ control' = <<>>
         /\ events' \in Seq({events'[i] : i \in DOMAIN events'})
         /\ \A i \in DOMAIN events' : events'[i].state \in {"up", "down"}
         /\ \A s \in Services : SlotAt(s)'
         /\ Posted(control, doing)' /\ PendingAt'
<1>1. \A s \in Services : slots'[s] = Stack!NoSlot /\ task'[s] = "none"
  BY DEF Released
<1>2. \A s \in Services : SlotAt(s)' /\ slots'[s].pending = "none"
  BY <1>1, NoSlotFacts DEF SlotAt
<1>3. PendingAt'
  BY <1>2, ClientsAssumption DEF PendingAt
<1>4. Posted(control, doing)'
  BY DEF Released, Posted
<1> QED BY <1>2, <1>3, <1>4 DEF Released

\* The daemon begins to shut down.
LEMMA ShutdownStep ==
  ASSUME IInv, Shutdown
  PROVE  IInv'
<1>1. /\ phase = "serving" /\ phase' = "closing" /\ Released
      /\ doing' = [c \in Clients |-> IF Waits(c) THEN Answered(doing[c], FALSE) ELSE doing[c]]
      /\ UNCHANGED <<registry, names, reloading, file, writing, word>>
  BY DEF Shutdown
<1>2. Types /\ ReloadAt /\ FileAt /\ \A d \in Clients : JobAt(d)
  BY DEF IInv
<1>3. /\ slots' = [s \in Services |-> slots'[s]]
      /\ task' \in [Services -> {"none", "fresh", "up", "over"}]
      /\ control' \in Seq(Messages) /\ control' = <<>>
      /\ events' \in Seq({events'[i] : i \in DOMAIN events'})
      /\ \A i \in DOMAIN events' : events'[i].state \in {"up", "down"}
      /\ \A s \in Services : SlotAt(s)'
      /\ Posted(control, doing)' /\ PendingAt'
  BY <1>1, ReleasedFacts
<1>4. ASSUME NEW c \in Clients
      PROVE  /\ doing'[c] \in Jobs /\ JobAt(c)'
             /\ doing[c].what = "reload" => doing'[c].what = "reload"
             /\ doing[c].at = "recording" => doing'[c] = doing[c]
  <2>1. doing[c] \in Jobs /\ JobAt(c)
    BY <1>2 DEF Types
  <2>2. CASE ~Waits(c)
    <3>1. doing'[c] = doing[c]
      BY <1>1, <2>2
    <3> QED BY <1>1, <2>1, <3>1 DEF JobAt
  <2>3. CASE Waits(c) /\ doing[c].what # "reload"
    <3>1. doing'[c] = Idle
      BY <1>1, <2>1, <2>3, AnsweredFacts
    <3> QED BY <2>3, <3>1, IdleFacts DEF JobAt, Verbs, Waits
  <2>4. CASE Waits(c) /\ doing[c].what = "reload"
    <3>1. doing'[c] = Answered(doing[c], FALSE)
      BY <1>1, <2>4
    <3>2. /\ doing'[c] \in Jobs /\ doing'[c].at = "answered" /\ doing'[c].what = "reload"
          /\ doing'[c].cfg = doing[c].cfg
      <4> DEFINE job == doing[c]
      <4>1. job \in Jobs /\ job.what = "reload" /\ FALSE \in BOOLEAN
        BY <2>1, <2>4
      <4> HIDE DEF job
      <4>2. /\ Answered(job, FALSE) \in Jobs /\ Answered(job, FALSE).at = "answered"
            /\ Answered(job, FALSE).what = job.what /\ Answered(job, FALSE).cfg = job.cfg
        BY <4>1, AnsweredFacts
      <4> QED BY <3>1, <4>1, <4>2 DEF job
    <3> QED BY <1>1, <2>1, <2>4, <3>2 DEF JobAt, Verbs, Waits
  <2> QED BY <2>2, <2>3, <2>4
<1>5. doing' \in [Clients -> Jobs]
  BY <1>1, <1>4
<1>6. Types'
  BY <1>1, <1>2, <1>3, <1>5 DEF Types
<1>7. ReloadAt'
  <2>1. reloading.by # Nobody => doing'[reloading.by].what = "reload"
    BY <1>2, <1>4 DEF ReloadAt, Types
  <2> QED BY <1>1, <1>2, <1>3, <2>1 DEF ReloadAt
<1>8. FileAt'
  <2>1. writing # Nobody => doing'[writing] = doing[writing]
    BY <1>2, <1>4 DEF FileAt, Types
  <2> QED BY <1>1, <1>2, <2>1 DEF FileAt
<1> QED BY <1>3, <1>4, <1>6, <1>7, <1>8 DEF IInv

\* The daemon has gone: only a write may be left of it.
LEMMA GoneStep ==
  ASSUME IInv, Gone, doing' = [c \in Clients |-> doing'[c]],
         \A c \in Clients : doing'[c] = Idle \/ (doing'[c] = doing[c] /\ doing[c].at = "recording")
  PROVE  IInv'
<1>1. /\ phase' = "down" /\ Released
      /\ registry' = [s \in Services |-> "absent"] /\ names' = {}
      /\ reloading' = NoReload /\ writing' = Nobody
      /\ UNCHANGED <<file, word>>
  BY DEF Gone
<1>2. Types /\ FileAt /\ \A d \in Clients : JobAt(d)
  BY DEF IInv
<1>3. /\ slots' = [s \in Services |-> slots'[s]]
      /\ task' \in [Services -> {"none", "fresh", "up", "over"}]
      /\ control' \in Seq(Messages) /\ control' = <<>>
      /\ events' \in Seq({events'[i] : i \in DOMAIN events'})
      /\ \A i \in DOMAIN events' : events'[i].state \in {"up", "down"}
      /\ \A s \in Services : SlotAt(s)'
      /\ Posted(control, doing)' /\ PendingAt'
  BY <1>1, ReleasedFacts
<1>4. reloading' \in [by : Clients \cup {Nobody}, previous : SUBSET Services]
      /\ reloading'.by = Nobody
  BY <1>1 DEF NoReload
<1>5. ASSUME NEW c \in Clients
      PROVE  doing'[c] \in Jobs /\ JobAt(c)'
  <2>1. doing[c] \in Jobs /\ JobAt(c)
    BY <1>2 DEF Types
  <2>2. CASE doing'[c] = Idle
    BY <2>2, IdleFacts DEF JobAt, Verbs
  <2>3. CASE doing'[c] = doing[c] /\ doing[c].at = "recording"
    BY <2>1, <2>3 DEF JobAt
  <2> QED BY <2>2, <2>3
<1>6. Types'
  <2>1. doing' \in [Clients -> Jobs]
    BY <1>5
  <2> QED BY <1>1, <1>2, <1>3, <1>4, <2>1 DEF Types
<1>7. ReloadAt'
  BY <1>1, <1>3, <1>4 DEF ReloadAt
<1>8. FileAt'
  BY <1>1, <1>2 DEF FileAt
<1> QED BY <1>3, <1>5, <1>6, <1>7, <1>8 DEF IInv

\* A daemon ends, or dies, and may leave a write of the stopped file behind.
LEMMA EndStep ==
  ASSUME IInv, Exit \/ Crash
  PROVE  IInv'
<1>1. CASE Exit
  BY <1>1, GoneStep DEF Exit
<1>2. CASE Crash
  BY <1>2, GoneStep DEF Crash, Late
<1> QED BY <1>1, <1>2

\* What a starting daemon holds back has the remembered services that may stay
\* down, and everything that depends on them.
LEMMA HeldBackFacts ==
  ASSUME NEW cfg \in Configs, NEW remembered
  PROVE  LET held == HeldBack(cfg, remembered)
         IN  /\ held \subseteq Planned(cfg) /\ Cardinality(held) \in Nat
             /\ \A s \in remembered \cap Planned(cfg) \cap cfg.unless, t \in Planned(cfg) :
                  t = s \/ s \in cfg.deps[t] => t \in held
<1> DEFINE seeds == remembered \cap Planned(cfg) \cap cfg.unless
           held == HeldBack(cfg, remembered)
<1>1. held = WithDependents(cfg, seeds) /\ seeds \subseteq Planned(cfg)
  BY DEF HeldBack
<1> HIDE DEF held
<1>2. /\ seeds \subseteq held /\ held \subseteq Planned(cfg)
      /\ \A t \in Planned(cfg) : cfg.deps[t] \cap seeds # {} => t \in held
  <2> HIDE DEF seeds
  <2> QED BY <1>1, WithDependentsFacts
<1>3. IsFiniteSet(Planned(cfg))
  <2>1. cfg.plan \in Seq(Services) /\ Len(cfg.plan) \in Nat /\ DOMAIN cfg.plan = 1..Len(cfg.plan)
    BY ConfigsAssumption
  <2>2. IsFiniteSet(1..Len(cfg.plan))
    BY <2>1, FS_Interval
  <2>3. cfg.plan \in Surjection(1..Len(cfg.plan), Planned(cfg))
    BY <2>1 DEF Planned, Range, Surjection
  <2> QED BY <2>2, <2>3, FS_Surjection
<1>4. Cardinality(held) \in Nat
  BY <1>2, <1>3, FS_Subset, FS_CardinalityType
<1> QED BY <1>2, <1>4 DEF held

\* A daemon starts with the names it finds in the stopped file.
LEMMA StepOfStart ==
  ASSUME IInv, NEW cfg \in Configs, Start(cfg)
  PROVE  IInv'
<1> DEFINE held == HeldBack(cfg, file')
           q == SelectSeq(cfg.plan, LAMBDA s : s \in held)
           n == Cardinality(held)
<1>1. /\ phase = "down" /\ phase' = "serving" /\ file' \in {file, Reconciled(cfg)}
      /\ slots' = [s \in Services |->
                     CASE s \notin Planned(cfg) -> Stack!NoSlot
                       [] s \in held -> Stack!Inserted(cfg.ver[s])
                       [] OTHER -> Stack!Spawned(Stack!Inserted(cfg.ver[s]))]
      /\ task' = [s \in Services |-> IF s \in Planned(cfg) \ held THEN "fresh" ELSE "none"]
      /\ events' = [i \in 1..n |-> [svc |-> q[i], state |-> "down"]]
      /\ word' = [s \in Services |-> word[s] /\ s \in cfg.declared /\ task'[s] = "none"]
      /\ registry' = [s \in Services |-> IF s \in Planned(cfg) THEN "pending" ELSE "absent"]
      /\ names' = Planned(cfg)
      /\ UNCHANGED <<control, doing, reloading, writing>>
  BY DEF Start
<1> HIDE DEF q
<1>2. Types /\ ReloadAt /\ FileAt /\ PendingAt /\ Posted(control, doing)
      /\ \A c \in Clients : JobAt(c)
  BY DEF IInv
<1>3. n \in Nat /\ held \subseteq Planned(cfg) /\ Planned(cfg) \in SUBSET Services
  <2>1. Planned(cfg) \in SUBSET Services
    BY ConfigsAssumption DEF Planned
  <2> QED BY <2>1, HeldBackFacts
<1> HIDE DEF held, n
<1>4. /\ events' \in Seq({events'[i] : i \in DOMAIN events'})
      /\ \A i \in DOMAIN events' : events'[i].state \in {"up", "down"}
  <2> DEFINE E(i) == [svc |-> q[i], state |-> "down"]
             S == {events'[i] : i \in DOMAIN events'}
  <2>1. DOMAIN events' = 1..n /\ \A i \in 1..n : events'[i] = E(i) /\ E(i).state = "down"
    BY <1>1
  <2>2. events' \in [1..n -> S]
    BY <1>1, <2>1
  <2> HIDE DEF S
  <2>3. events' \in Seq(S)
    BY <1>3, <2>2, SeqDef
  <2> QED BY <2>1, <2>3 DEF S
<1>5. ASSUME NEW s \in Services
      PROVE  /\ SlotAt(s)' /\ slots'[s].pending = "none"
             /\ slots'[s].here /\ ~slots'[s].retired <=> s \in Planned(cfg)
  <2> DEFINE x == Stack!Inserted(cfg.ver[s])
  <2>1. IsSlot(x) /\ x.here /\ ~x.held /\ ~x.retired /\ x.pending = "none"
    BY InsertedFacts
  <2>2. CASE s \notin Planned(cfg)
    <3>1. task'[s] = "none"
      BY <1>1, <2>2
    <3>2. slots'[s] = CASE s \notin Planned(cfg) -> Stack!NoSlot
                        [] s \in held -> x
                        [] OTHER -> Stack!Spawned(x)
      BY <1>1
    <3> HIDE DEF x
    <3>3. s \notin held
      BY <1>3, <2>2
    <3>4. slots'[s] = Stack!NoSlot
      BY <2>2, <3>2, <3>3, Zenon
    <3> QED BY <2>2, <3>1, <3>4, NoSlotFacts DEF SlotAt
  <2>3. CASE s \in held
    <3>1. slots'[s] = x /\ task'[s] = "none"
      BY <1>1, <1>3, <2>3
    <3> QED BY <1>3, <2>1, <2>3, <3>1 DEF SlotAt
  <2>4. CASE s \in Planned(cfg) \ held
    <3>1. slots'[s] = Stack!Spawned(x) /\ task'[s] = "fresh"
      <4>1. /\ s \in Planned(cfg) /\ s \notin held
            /\ slots'[s] = CASE s \notin Planned(cfg) -> Stack!NoSlot
                             [] s \in held -> x
                             [] OTHER -> Stack!Spawned(x)
        BY <1>1, <2>4
      <4>2. task'[s] = "fresh"
        BY <1>1, <2>4
      <4> HIDE DEF x
      <4>3. slots'[s] = Stack!Spawned(x)
        BY <4>1, Zenon
      <4> QED BY <4>2, <4>3
    <3> HIDE DEF x
    <3>2. LET y == Stack!Spawned(x)
          IN  IsSlot(y) /\ y.here /\ y.held /\ y.retired = x.retired /\ y.pending = x.pending
      BY <2>1, SpawnedFacts
    <3> QED BY <2>1, <2>4, <3>1, <3>2 DEF SlotAt
  <2> QED BY <2>2, <2>3, <2>4
<1>6. Types'
  <2>1. task' \in [Services -> {"none", "fresh", "up", "over"}]
    BY <1>1
  <2>2. registry' \in [Services -> {"absent", "pending", "up", "down"}]
    BY <1>1
  <2>3. file' \in SUBSET Services
    BY <1>1, <1>2 DEF Types, Reconciled
  <2>4. word' \in [Services -> BOOLEAN]
    BY <1>1
  <2>5. slots' = [s \in Services |-> slots'[s]]
    BY <1>1
  <2> QED BY <1>1, <1>2, <1>3, <1>4, <2>1, <2>2, <2>3, <2>4, <2>5 DEF Types
<1>7. Posted(control, doing)'
  BY <1>1, <1>2
<1>8. PendingAt'
  BY <1>5, ClientsAssumption DEF PendingAt
<1>9. \A c \in Clients : JobAt(c)'
  BY <1>1, <1>2 DEF JobAt
<1>10. ReloadAt'
  <2>1. names' = {s \in Services : registry'[s] # "absent"}
    BY <1>1, <1>3
  <2>2. StackPlans' = Planned(cfg)
    BY <1>3, <1>5 DEF StackPlans
  <2> QED BY <1>1, <1>2, <2>1, <2>2 DEF ReloadAt
<1>11. FileAt'
  <2>1. \A s \in Services : word'[s] => s \in file'
    BY <1>1, <1>2 DEF FileAt, Reconciled
  <2> QED BY <1>1, <1>2, <2>1 DEF FileAt
<1> QED BY <1>5, <1>6, <1>7, <1>8, <1>9, <1>10, <1>11 DEF IInv

\* Every step keeps the invariant.
LEMMA NextIInv ==
  ASSUME IInv, [Next]_vars
  PROVE  IInv'
<1>1. ASSUME NEW cfg \in Configs, Start(cfg)
      PROVE  IInv'
  BY <1>1, StepOfStart
<1>2. ASSUME NEW s \in Services, Announces(s) \/ TakeReport(s) \/ WatcherAsks(s)
      PROVE  IInv'
  BY <1>2, AnnouncesStep, TakeReportStep, WatcherAsksStep
<1>3. CASE TakeControl \/ Collect \/ Shutdown \/ Exit \/ Crash
  BY <1>3, TakeControlStep, CollectStep, ShutdownStep, EndStep
<1>4. ASSUME NEW c \in Clients, Connection(c)
      PROVE  IInv'
  <2>1. ASSUME NEW what \in Verbs, NEW s \in Services, Ask(c, what, s)
        PROVE  IInv'
    BY <2>1, AskStep
  <2>2. ASSUME NEW cfg \in Configs, AskReload(c, cfg)
        PROVE  IInv'
    BY <2>2, AskReloadStep
  <2>3. CASE HearRefusal(c) \/ HearReloaded(c) \/ Remember(c) \/ Respond(c)
    BY <2>3, HearRefusalStep, HearReloadedStep, RememberStep, RespondStep
  <2> QED BY <1>4, <2>1, <2>2, <2>3 DEF Connection, Verbs
<1>5. CASE UNCHANGED vars
  <2>1. /\ UNCHANGED <<phase, slots, task, control, events, registry, names>>
        /\ UNCHANGED <<doing, reloading, file, writing, word>>
    BY <1>5 DEF vars
  <2>2. StackPlans' = StackPlans
    BY <2>1 DEF StackPlans
  <2> QED BY <2>1, <2>2 DEF IInv, Types, SlotAt, Posted, PendingAt, JobAt, ReloadAt, FileAt
<1> QED BY <1>1, <1>2, <1>3, <1>4, <1>5 DEF Next

\* The invariant holds throughout.
LEMMA Invariance == Spec => []IInv
<1>1. Init => IInv
  BY InitIInv
<1>2. IInv /\ [Next]_vars => IInv'
  BY NextIInv
<1> QED BY <1>1, <1>2, PTL DEF Spec

-----------------------------------------------------------------------------
(* Theorems.                                                                *)

\* Every variable has its type, and a slot holds a task exactly when there is one.
THEOREM TypeCorrect == Spec => []TypeOK
<1>1. IInv => TypeOK
  <2> SUFFICES ASSUME IInv PROVE TypeOK
    OBVIOUS
  <2>1. Types /\ \A s \in Services : SlotAt(s)
    BY DEF IInv
  <2>2. \A s \in Services : /\ slots[s].pending \in Clients \cup {"none", "watcher"}
                            /\ slots[s].held <=> task[s] # "none"
    BY <2>1 DEF SlotAt, IsSlot, Callers
  <2>3. \A c \in Clients : doing[c].at \in {"idle", "queued", "taken", "answered", "recording"}
    BY <2>1 DEF Types, Jobs
  <2> QED BY <2>1, <2>2, <2>3 DEF TypeOK, Types
<1> QED BY <1>1, Invariance, PTL

\* The names of the session and the registry are those of the stack's slots whenever
\* no reload is under way, whatever clients asked for, and was refused, before.
THEOREM SessionFollows == Spec => []SessionFollowsStack
<1>1. IInv => SessionFollowsStack
  BY DEF IInv, ReloadAt, StackPlans, SessionFollowsStack
<1> QED BY <1>1, Invariance, PTL

\* No daemon starts a service while the last word on it was a stop that was answered
\* and written, nor what depends on it: with_dependents holds all of them back.
THEOREM StopOutlives == Spec => StopOutlivesDaemon
<1> DEFINE A == \A cfg \in Configs, s, t \in Services :
                  (Start(cfg) /\ word[s] /\ s \in cfg.unless \cap Planned(cfg)
                     /\ (t = s \/ s \in cfg.deps[t]))
                    => task'[t] = "none"
<1>1. IInv /\ [Next]_vars => [A]_vars
  <2> SUFFICES ASSUME IInv, NEW cfg \in Configs, NEW s \in Services, NEW t \in Services,
                      Start(cfg), word[s], s \in cfg.unless \cap Planned(cfg),
                      t = s \/ s \in cfg.deps[t]
               PROVE  task'[t] = "none"
    OBVIOUS
  <2> DEFINE held == HeldBack(cfg, file')
  <2>1. /\ file' \in {file, Reconciled(cfg)}
        /\ task' = [u \in Services |-> IF u \in Planned(cfg) \ held THEN "fresh" ELSE "none"]
    BY DEF Start
  <2>2. s \in file'
    <3>1. s \in file /\ s \in cfg.declared
      BY ConfigsAssumption DEF IInv, FileAt, Planned
    <3> QED BY <2>1, <3>1 DEF Reconciled
  <2>3. t \in Planned(cfg) => t \in held
    BY <2>2, HeldBackFacts
  <2> QED BY <2>1, <2>3
<1>2. Spec => [][A]_vars
  BY <1>1, Invariance, PTL DEF Spec
<1> QED BY <1>2 DEF StopOutlivesDaemon

-----------------------------------------------------------------------------
(* The door. *)

\* Where a daemon holds a lock; behind the check it is the lock of the pidfile.
Locking == {"check", "ask", "unlink", "bind", "bound", "watching", "serve", "closing",
            "unsock", "unpid", "unlock"}

\* A lock is held exactly by the daemon that has the file open and has locked it, and
\* a daemon has a file open only from open(2) on.
LocksAtPlace ==
    /\ \A d \in Daemons : fd[d] # None => at[d] \in Locking \cup {"flock"}
    /\ \A d \in Daemons : at[d] = "flock" => fd[d] # None
    /\ \A d \in Daemons : at[d] \in Locking => fd[d] # None /\ holder[fd[d]] = d
    /\ \A f \in Files, d \in Daemons : holder[f] = d => at[d] \in Locking /\ fd[d] = f

\* Where a `start' may be.
Commands == {"idle", "none", "watch", "ping", "ok", "error"}

\* The strengthening that makes both properties inductive: that a daemon is alone
\* rests on which file its lock is on.
DoorIInv ==
    /\ DoorTypeOK
    /\ LocksAtPlace
    /\ \A d \in Daemons : Inside(d) => fd[d] = pidfile
    /\ ServingIsReachable
    /\ \A d \in Daemons : start[d] = "idle" => at[d] = "none"

USE DEF Goes, Ends, Fails

-----------------------------------------------------------------------------
(* There is always a file that nobody has open: fewer daemons than files.   *)
LEMMA FreeFile ==
    ASSUME fd \in [Daemons -> {None} \cup Files]
    PROVE  \E f \in Files : \A e \in Daemons : fd[e] # f
<1> SUFFICES ASSUME \A f \in Files : \E e \in Daemons : fd[e] = f
             PROVE  FALSE
    OBVIOUS
<1> DEFINE opener == [f \in Files |-> CHOOSE e \in Daemons : fd[e] = f]
<1>1. \A f \in Files : opener[f] \in Daemons /\ fd[opener[f]] = f
    OBVIOUS
<1>2. opener \in [Files -> Daemons]
    BY <1>1
<1>3. Cardinality(Daemons) < Cardinality(Files)
    BY DoorAssumption, FS_CardinalityType
<1> HIDE DEF opener
<1>4. PICK f, g \in Files : f # g /\ opener[f] = opener[g]
    BY <1>2, <1>3, FS_PigeonHole, DoorAssumption
<1> QED BY <1>1, <1>4

(* The daemon behind the check is alone there, and the pidfile is its own.  *)
LEMMA Alone == DoorIInv => OneDaemonPerProject
<1> SUFFICES ASSUME DoorIInv PROVE OneDaemonPerProject
    OBVIOUS
<1>1. \A d \in Daemons : Inside(d) => pidfile = fd[d] /\ holder[pidfile] = d
    BY DEF DoorIInv, LocksAtPlace, Inside, Locking
<1> QED BY <1>1 DEF OneDaemonPerProject

(* Nobody is there, and nothing is locked, at first.                        *)
LEMMA DoorInitIInv == DoorInit => DoorIInv
BY DoorAssumption DEF DoorInit, DoorIInv, DoorTypeOK, LocksAtPlace, Locking, Inside, ServingIsReachable,
                      Listening

-----------------------------------------------------------------------------
(* A daemon's own steps: only open(2) and the end of the lock change what the *)
(* pidfile's name stands for, and only the daemon behind the check touches the *)
(* socket's.                                                                   *)
LEMMA StepOfDaemon ==
    ASSUME DoorIInv, NEW d \in Daemons, DaemonStep(d)
    PROVE  DoorIInv'
<1> USE DoorAssumption
<1>0. /\ DoorTypeOK /\ LocksAtPlace /\ ServingIsReachable
      /\ \A e \in Daemons : Inside(e) => fd[e] = pidfile
      /\ \A e \in Daemons : start[e] = "idle" => at[e] = "none"
      /\ OneDaemonPerProject
    BY Alone DEF DoorIInv
<1>1. CASE ClaimSignals(d)
    BY <1>0, <1>1 DEF ClaimSignals, DoorIInv, DoorTypeOK, LocksAtPlace, Locking, Inside, Starting,
                  ServingIsReachable, Listening, localVars, doorVars
<1>2. CASE OpenPid(d)
  <2>1. CASE pidfile # None
      BY <1>0, <1>2, <2>1 DEF OpenPid, Opened, DoorIInv, DoorTypeOK, LocksAtPlace, Locking, Inside, Starting,
                          ServingIsReachable, Listening
  <2>2. CASE pidfile = None
    <3> DEFINE new == CHOOSE f \in Files : \A e \in Daemons : fd[e] # f
    <3>1. new \in Files /\ \A e \in Daemons : fd[e] # new
        BY <1>0, FreeFile DEF DoorTypeOK
    <3>2. /\ fd' = [fd EXCEPT ![d] = new] /\ pidfile' = new
          /\ pid' = [pid EXCEPT ![new] = None]
        BY <1>2, <2>2 DEF OpenPid, Opened
    <3>3. /\ at[d] = "open" /\ at' = [at EXCEPT ![d] = "flock"]
          /\ UNCHANGED <<tries, early, asked, exit, holder, socket, start>>
        BY <1>2 DEF OpenPid
    <3> HIDE DEF new
    <3>4. \A e \in Daemons : ~Inside(e)
        BY <1>0, <2>2 DEF LocksAtPlace, Inside, Locking, DoorTypeOK
    <3> QED BY <1>0, <3>1, <3>2, <3>3, <3>4
            DEF DoorIInv, DoorTypeOK, LocksAtPlace, Locking, Inside, Starting, ServingIsReachable, Listening
  <2> QED BY <2>1, <2>2
<1>3. CASE Flock(d)
  <2> DEFINE f == fd[d]
  <2>1. f \in Files /\ at[d] = "flock" /\ UNCHANGED <<tries, asked, pidfile, pid, socket, start>>
      BY <1>0, <1>3 DEF Flock, DoorTypeOK, LocksAtPlace
  <2>2. CASE holder[f] = None
    <3>1. /\ holder' = [holder EXCEPT ![f] = d] /\ at' = [at EXCEPT ![d] = "check"]
          /\ UNCHANGED <<fd, early, exit>>
        BY <1>0, <1>3, <2>2 DEF Flock
    <3> HIDE DEF f
    <3>2. DoorTypeOK'
        BY <1>0, <2>1, <3>1 DEF DoorTypeOK, Starting
    <3>3. LocksAtPlace'
        BY <1>0, <2>1, <2>2, <3>1 DEF DoorTypeOK, LocksAtPlace, Locking, f
    <3> QED BY <1>0, <2>1, <3>1, <3>2, <3>3 DEF DoorIInv, DoorTypeOK, Inside, ServingIsReachable, Listening
  <2>3. CASE holder[f] # None
    <3>1. /\ at' = [at EXCEPT ![d] = "failed"] /\ fd' = [fd EXCEPT ![d] = None]
          /\ early' = [early EXCEPT ![d] = FALSE] /\ UNCHANGED <<holder, exit>>
        BY <1>0, <1>3, <2>3 DEF Flock
    <3> QED BY <1>0, <2>1, <3>1 DEF DoorIInv, DoorTypeOK, LocksAtPlace, Locking, Inside, Over,
                                    ServingIsReachable, Listening
  <2> QED BY <2>2, <2>3
<1>4. CASE Check(d)
  <2>1. CASE StillAt(d)
    <3>1. /\ at[d] = "check" /\ fd[d] = pidfile /\ fd[d] \in Files
          /\ at' = [at EXCEPT ![d] = "ask"] /\ pid' = [pid EXCEPT ![fd[d]] = d]
          /\ UNCHANGED <<fd, tries, early, holder, asked, exit, pidfile, socket, start>>
        BY <1>0, <1>4, <2>1 DEF Check, StillAt, DoorTypeOK, LocksAtPlace, Locking
    <3> QED BY <1>0, <3>1 DEF DoorIInv, DoorTypeOK, LocksAtPlace, Locking, Inside, Starting,
                              ServingIsReachable, Listening
  <2>2. CASE ~StillAt(d)
    <3>1. /\ at[d] = "check" /\ fd[d] \in Files /\ holder[fd[d]] = d
          /\ holder' = [holder EXCEPT ![fd[d]] = None]
          /\ tries' = [tries EXCEPT ![d] = @ + 1] /\ tries[d] + 1 <= Attempts
          /\ at' \in {[at EXCEPT ![d] = there] : there \in {"open", "failed"}}
          /\ fd' = [fd EXCEPT ![d] = None]
          /\ early' \in {early, [early EXCEPT ![d] = FALSE]}
          /\ UNCHANGED <<pid, asked, exit, pidfile, socket, start>>
        BY <1>0, <1>4, <2>2 DEF Check, DoorTypeOK, LocksAtPlace, Locking
    <3>2. DoorTypeOK'
      <4>1. tries' \in [Daemons -> 0..Attempts]
          BY <1>0, <3>1 DEF DoorTypeOK
      <4>2. at' \in [Daemons -> {"none", "serve"} \cup Starting \cup Leaving \cup Over]
          BY <1>0, <3>1 DEF DoorTypeOK, Starting, Over
      <4>3. early' \in [Daemons -> BOOLEAN] /\ asked' \in [Daemons -> BOOLEAN]
          BY <1>0, <3>1 DEF DoorTypeOK
      <4> QED BY <1>0, <3>1, <4>1, <4>2, <4>3 DEF DoorTypeOK
    <3>3. LocksAtPlace'
        BY <1>0, <3>1 DEF DoorTypeOK, LocksAtPlace, Locking
    <3> QED BY <1>0, <3>1, <3>2, <3>3 DEF DoorIInv, DoorTypeOK, Inside, ServingIsReachable, Listening
  <2> QED BY <2>1, <2>2
<1>5. CASE AskSocket(d)
    BY <1>0, <1>5 DEF AskSocket, DoorIInv, DoorTypeOK, LocksAtPlace, Locking, Inside, Starting, Leaving,
                  ServingIsReachable, Listening, doorVars
<1>6. CASE UnlinkStale(d)
    BY <1>0, <1>6 DEF UnlinkStale, DoorIInv, DoorTypeOK, LocksAtPlace, Locking, Inside, Starting,
                  ServingIsReachable, Listening, localVars, OneDaemonPerProject
<1>7. CASE Bind(d)
    BY <1>0, <1>7 DEF Bind, DoorIInv, DoorTypeOK, LocksAtPlace, Locking, Inside, Starting, Leaving,
                  ServingIsReachable, Listening, OneDaemonPerProject
<1>8. CASE Watch(d)
    BY <1>0, <1>8 DEF Watch, FailToServe, DoorIInv, DoorTypeOK, LocksAtPlace, Locking, Inside, Starting,
                  Leaving, ServingIsReachable, Listening, localVars, doorVars
<1>9. CASE Serve(d)
    BY <1>0, <1>9 DEF Serve, Fed, DoorIInv, DoorTypeOK, LocksAtPlace, Locking, Inside, Starting,
                  ServingIsReachable, Listening, doorVars
<1>10. CASE StackEnds(d)
    BY <1>0, <1>10 DEF StackEnds, DoorIInv, DoorTypeOK, LocksAtPlace, Locking, Inside, Leaving,
                   ServingIsReachable, Listening, doorVars
<1>11. CASE CloseDoor(d)
    BY <1>0, <1>11 DEF CloseDoor, DoorIInv, DoorTypeOK, LocksAtPlace, Locking, Inside, Leaving,
                   ServingIsReachable, Listening, localVars, doorVars
<1>12. CASE UnlinkSocket(d)
    BY <1>0, <1>12 DEF UnlinkSocket, DoorIInv, DoorTypeOK, LocksAtPlace, Locking, Inside, Leaving,
                   ServingIsReachable, Listening, localVars, OneDaemonPerProject
<1>13. CASE UnlinkPid(d)
    BY <1>0, <1>13 DEF UnlinkPid, DoorIInv, DoorTypeOK, LocksAtPlace, Locking, Inside, Leaving,
                   ServingIsReachable, Listening, localVars, OneDaemonPerProject
<1>14. CASE Unlock(d)
    BY <1>0, <1>14 DEF Unlock, DoorIInv, DoorTypeOK, LocksAtPlace, Locking, Inside, Over,
                   ServingIsReachable, Listening
<1> QED BY <1>1, <1>2, <1>3, <1>4, <1>5, <1>6, <1>7, <1>8, <1>9, <1>10, <1>11, <1>12, <1>13,
           <1>14 DEF DaemonStep

(* A daemon that dies takes its lock along and leaves its files.            *)
LEMMA DiesIInv ==
    ASSUME DoorIInv, NEW d \in Daemons, Dies(d), start[d] # "idle",
           start' \in [Daemons -> Commands], start'[d] # "idle",
           \A e \in Daemons : e # d => start'[e] = start[e]
    PROVE  DoorIInv'
<1> USE DoorAssumption
<1>1. /\ at' = [at EXCEPT ![d] = "killed"] /\ fd' = [fd EXCEPT ![d] = None]
      /\ early' = [early EXCEPT ![d] = FALSE]
      /\ holder' = [f \in Files |-> IF holder[f] = d THEN None ELSE holder[f]]
      /\ UNCHANGED <<tries, asked, exit, pidfile, pid, socket>>
    BY DEF Dies
<1>2. DoorTypeOK'
    BY <1>1 DEF DoorIInv, DoorTypeOK, Over, Commands
<1>3. LocksAtPlace'
    BY <1>1 DEF DoorIInv, DoorTypeOK, LocksAtPlace, Locking
<1> QED BY <1>1, <1>2, <1>3 DEF DoorIInv, DoorTypeOK, Inside, ServingIsReachable, Listening

(* Signals and `start' open, lock and bind nothing.                         *)
LEMMA StepOfWorld ==
    ASSUME DoorIInv, NEW d \in Daemons, Kill(d) \/ Signal(d) \/ StartStep(d)
    PROVE  DoorIInv'
<1> USE DoorAssumption
<1>0. DoorTypeOK /\ start \in [Daemons -> Commands]
    BY DEF DoorIInv, DoorTypeOK, Commands
<1>1. CASE Kill(d)
    BY <1>0, <1>1, DiesIInv DEF Kill, Alive, Starting, Leaving, DoorIInv
<1>2. CASE Signal(d)
  <2>1. CASE at[d] = "fresh"
    <3>1. Dies(d) /\ UNCHANGED start
        BY <1>2, <2>1 DEF Signal, Starting
    <3> QED BY <1>0, <2>1, <3>1, DiesIInv DEF DoorIInv
  <2>2. CASE at[d] # "fresh"
    <3>1. /\ early' = [early EXCEPT ![d] = TRUE]
          /\ asked' = [asked EXCEPT ![d] = @ \/ at[d] \in {"watching", "serve"}]
          /\ UNCHANGED <<at, fd, tries, exit, pidfile, holder, pid, socket, start>>
        BY <1>2, <2>2 DEF Signal, doorVars
    <3>2. early' \in [Daemons -> BOOLEAN] /\ asked' \in [Daemons -> BOOLEAN]
        BY <1>0, <3>1 DEF DoorTypeOK
    <3> QED BY <3>1, <3>2 DEF DoorIInv, DoorTypeOK, LocksAtPlace, Inside, ServingIsReachable, Listening
  <2> QED BY <2>1, <2>2
<1>3. ASSUME start[d] = "idle", Spawned(d), start' \in [Daemons -> Commands], start'[d] # "idle",
             \A e \in Daemons : e # d => start'[e] = start[e]
      PROVE  DoorIInv'
    BY <1>3 DEF Spawned, DoorIInv, DoorTypeOK, LocksAtPlace, Locking, Inside, Starting,
                ServingIsReachable, Listening, localVars, doorVars, Commands
<1>4. CASE RunDaemon(d)
    BY <1>0, <1>3, <1>4 DEF RunDaemon, Commands
<1>5. CASE StartCheck(d)
  <2>1. CASE UNCHANGED doorState
      BY <2>1 DEF doorState, DoorIInv, DoorTypeOK, LocksAtPlace, Inside, ServingIsReachable, Listening
  <2>2. CASE start' = [start EXCEPT ![d] = "watch"] /\ Spawned(d)
      BY <1>0, <1>3, <1>5, <2>2 DEF StartCheck, Commands
  <2> QED BY <1>5, <2>1, <2>2 DEF StartCheck
<1>6. ASSUME NEW there \in Commands \ {"idle"}, StartGoes(d, there)
      PROVE  DoorIInv'
    BY <1>6 DEF StartGoes, DoorIInv, DoorTypeOK, LocksAtPlace, Inside, ServingIsReachable, Listening,
                localVars, doorVars, Commands
<1>7. CASE StartSeesExit(d) \/ StartSeesPid(d) \/ StartPings(d)
    BY <1>6, <1>7 DEF StartSeesExit, StartSeesPid, StartPings, Commands
<1>8. CASE StartGivesUp(d)
    BY <1>0, <1>8, DiesIInv DEF StartGivesUp, Alive, Starting, Leaving, DoorIInv, Commands
<1>9. CASE StartAfresh(d)
    BY <1>9 DEF StartAfresh, DoorIInv, DoorTypeOK, LocksAtPlace, Locking, Inside, Over,
                ServingIsReachable, Listening
<1> QED BY <1>1, <1>2, <1>4, <1>5, <1>7, <1>8, <1>9 DEF StartStep

(* Every step keeps the invariant.                                          *)
LEMMA DoorNextIInv == DoorIInv /\ [DoorNext]_doorState => DoorIInv'
<1> SUFFICES ASSUME DoorIInv, [DoorNext]_doorState PROVE DoorIInv'
    OBVIOUS
<1>1. CASE DownAsks
    BY <1>1, DoorAssumption DEF DownAsks, Answers, Listening, DoorIInv, DoorTypeOK, LocksAtPlace, Inside,
                                ServingIsReachable, doorVars
<1>2. CASE UNCHANGED doorState
    BY <1>2 DEF doorState, DoorIInv, DoorTypeOK, LocksAtPlace, Inside, ServingIsReachable, Listening
<1> QED BY <1>1, <1>2, StepOfDaemon, StepOfWorld DEF DoorNext

-----------------------------------------------------------------------------
(* serve(), call by call, keeps the types of what daemons and files are.       *)
THEOREM DoorTypeCorrect == DoorSpec => []DoorTypeOK
<1>1. DoorIInv => DoorTypeOK
    BY DEF DoorIInv
<1> QED BY <1>1, DoorInitIInv, DoorNextIInv, PTL DEF DoorSpec

(* ProjectLock::acquire lets one daemon at a time pass, and its lock is on the *)
(* file that has the pidfile's name, whoever starts, stops and dies meanwhile. *)
THEOREM OneDaemon == DoorSpec => []OneDaemonPerProject
<1>1. DoorSpec => []DoorIInv
    BY DoorInitIInv, DoorNextIInv, PTL DEF DoorSpec
<1> QED BY <1>1, Alone, PTL

(* The socket file of a daemon that listens is its own: no other daemon, on its *)
(* way in or out, removes or replaces it.                                       *)
THEOREM Reachable == DoorSpec => []ServingIsReachable
<1>1. DoorSpec => []DoorIInv
    BY DoorInitIInv, DoorNextIInv, PTL DEF DoorSpec
<1>2. DoorIInv => ServingIsReachable
    BY DEF DoorIInv
<1> QED BY <1>1, <1>2, PTL

-----------------------------------------------------------------------------
(* What `start' may conclude from the pidfile and an answered ping.          *)

\* A daemon that has written its pid.
Past == {"ask", "unlink", "bind", "bound", "watching", "serve"} \cup Leaving \cup Over

\* A pid is in a file only of a daemon that came past the check, and `start' pings
\* only when it has seen its child's there.
StartInv ==
    /\ \A f \in Files, d \in Daemons : pid[f] = d => at[d] \in Past
    /\ \A d \in Daemons : start[d] = "ping" => at[d] \in Past

(* A daemon goes on from where it is, and writes no pid but its own.         *)
LEMMA DaemonGoesOn ==
    ASSUME DoorIInv, NEW d \in Daemons, DaemonStep(d)
    PROVE  /\ start' = start
           /\ \A e \in Daemons : e # d => at'[e] = at[e]
           /\ at[d] \in Past => at'[d] \in Past
           /\ \A f \in Files : pid'[f] = pid[f] \/ pid'[f] = None \/ (pid'[f] = d /\ at'[d] \in Past)
<1> USE DEF DoorIInv, DoorTypeOK, Past, Leaving, Over
<1>1. CASE ClaimSignals(d) \/ Flock(d)
    BY <1>1 DEF ClaimSignals, Flock, doorVars
<1>2. CASE OpenPid(d)
  <2>1. /\ at[d] = "open" /\ at' = [at EXCEPT ![d] = "flock"] /\ UNCHANGED start
        /\ pid' = pid \/ \E f : pid' = [pid EXCEPT ![f] = None]
      BY <1>2 DEF OpenPid, Opened
  <2> QED BY <2>1
<1>3. CASE Check(d)
    BY <1>3 DEF Check
<1>4. CASE AskSocket(d) \/ UnlinkStale(d) \/ Bind(d) \/ Watch(d) \/ Serve(d)
    BY <1>4 DEF AskSocket, UnlinkStale, Bind, Watch, FailToServe, Serve, doorVars
<1>5. CASE StackEnds(d) \/ CloseDoor(d) \/ UnlinkSocket(d) \/ UnlinkPid(d) \/ Unlock(d)
    BY <1>5 DEF StackEnds, CloseDoor, UnlinkSocket, UnlinkPid, Unlock, localVars, doorVars
<1> QED BY <1>1, <1>2, <1>3, <1>4, <1>5 DEF DaemonStep

(* Every step keeps what `start' relies on.                                  *)
LEMMA NextStartInv == DoorIInv /\ StartInv /\ [DoorNext]_doorState => StartInv'
<1> SUFFICES ASSUME DoorIInv, StartInv, [DoorNext]_doorState PROVE StartInv'
    OBVIOUS
<1> USE DoorAssumption
<1>0. DoorTypeOK /\ OneDaemonPerProject
    BY Alone DEF DoorIInv
<1>1. ASSUME NEW d \in Daemons, DaemonStep(d) PROVE StartInv'
    BY <1>1, DaemonGoesOn DEF StartInv
<1>2. ASSUME NEW d \in Daemons, Dies(d), start' \in {start, [start EXCEPT ![d] = "error"]}
      PROVE  StartInv'
    BY <1>0, <1>2 DEF Dies, DoorTypeOK, StartInv, Past, Over
<1>3. ASSUME NEW d \in Daemons, Kill(d) \/ Signal(d) PROVE StartInv'
  <2>1. CASE Dies(d) /\ UNCHANGED start
      BY <1>2, <2>1
  <2>2. CASE ~(Dies(d) /\ UNCHANGED start)
      BY <1>3, <2>2 DEF Kill, Signal, doorVars, StartInv
  <2> QED BY <2>1, <2>2
<1>4. ASSUME NEW d \in Daemons, RunDaemon(d) \/ StartCheck(d) PROVE StartInv'
  <2>1. CASE UNCHANGED doorState
      BY <2>1 DEF doorState, StartInv
  <2>2. CASE ~UNCHANGED doorState
    <3>1. /\ start[d] = "idle" /\ at' = [at EXCEPT ![d] = "fresh"] /\ UNCHANGED pid
          /\ start' = [start EXCEPT ![d] = "none"] \/ start' = [start EXCEPT ![d] = "watch"]
        BY <1>4, <2>2 DEF RunDaemon, StartCheck, Spawned, doorVars
    <3>2. at[d] = "none"
        BY <3>1 DEF DoorIInv
    <3> QED BY <1>0, <3>1, <3>2 DEF DoorTypeOK, StartInv, Past, Leaving, Over
  <2> QED BY <2>1, <2>2
<1>5. ASSUME NEW d \in Daemons, StartSeesExit(d) \/ StartSeesPid(d) PROVE StartInv'
    BY <1>0, <1>5 DEF StartSeesExit, StartSeesPid, Ours, StartGoes, doorVars, DoorTypeOK, StartInv
<1>6. ASSUME NEW d \in Daemons, StartPings(d) PROVE StartInv'
    BY <1>0, <1>6 DEF StartPings, StartGoes, doorVars, DoorTypeOK, StartInv
<1>7. ASSUME NEW d \in Daemons, StartGivesUp(d) PROVE StartInv'
    BY <1>2, <1>7 DEF StartGivesUp
<1>8. ASSUME NEW d \in Daemons, StartAfresh(d) PROVE StartInv'
  <2>1. /\ at' = [at EXCEPT ![d] = "none"] /\ start' = [start EXCEPT ![d] = "idle"]
        /\ pid' = [f \in Files |-> IF pid[f] = d THEN None ELSE pid[f]]
      BY <1>8 DEF StartAfresh
  <2> QED BY <1>0, <2>1 DEF DoorTypeOK, StartInv
<1>9. CASE DownAsks \/ UNCHANGED doorState
    BY <1>9 DEF DownAsks, doorState, doorVars, StartInv
<1> QED BY <1>1, <1>3, <1>4, <1>5, <1>6, <1>7, <1>8, <1>9 DEF DoorNext, StartStep

(* The child that exits without a failure has served, and the one that is    *)
(* behind the check when another daemon answers has left.                    *)
LEMMA StartStepTells ==
    ASSUME DoorIInv, StartInv, [DoorNext]_doorState, NEW d \in Daemons,
           start[d] # "ok", start'[d] = "ok"
    PROVE  \/ at[d] \in {"serve", "done"}
           \/ /\ start[d] = "ping" /\ at[d] \in {"unlock", "failed", "killed"}
              /\ \E e \in Daemons \ {d} : at[e] = "serve"
<1>0. DoorTypeOK /\ OneDaemonPerProject
    BY Alone DEF DoorIInv
<1>1. ASSUME NEW e \in Daemons, DaemonStep(e) PROVE start' = start
    BY <1>1, DaemonGoesOn
<1>2. ASSUME NEW e \in Daemons, Kill(e) \/ Signal(e) PROVE start' = start
    BY <1>2 DEF Kill, Signal
<1>3. ASSUME DownAsks \/ UNCHANGED doorState PROVE start' = start
    BY <1>3 DEF DownAsks, doorState
<1>4. PICK e \in Daemons : StartStep(e)
  <2>1. DoorNext /\ start' # start /\ ~DownAsks
    <3>1. start' # start
        OBVIOUS
    <3> QED BY <1>3, <3>1
  <2>2. PICK e \in Daemons : DaemonStep(e) \/ StartStep(e) \/ Kill(e) \/ Signal(e)
      BY <2>1, Zenon DEF DoorNext
  <2> QED BY <1>1, <1>2, <2>1, <2>2
<1>5. CASE StartSeesExit(e)
  <2>1. e = d /\ at[d] = "done"
      BY <1>0, <1>5 DEF StartSeesExit, StartGoes, DoorTypeOK
  <2> QED BY <2>1
<1>6. CASE StartPings(e)
  <2>1. PICK answer \in Answers : StartGoes(e, IF answer = "pong" THEN "ok" ELSE "watch")
      BY <1>6 DEF StartPings
  <2>2. e = d /\ answer = "pong" /\ start[d] = "ping"
      BY <1>0, <1>6, <2>1 DEF StartPings, StartGoes, DoorTypeOK
  <2>3. socket \in Daemons /\ at[socket] = "serve"
      BY <2>2 DEF Answers, Listening
  <2>4. at[d] \in Past
      BY <2>2 DEF StartInv
  <2>5. CASE socket = d
      BY <2>3, <2>5
  <2>6. CASE socket # d
    <3>1. ~Inside(d)
        BY <1>0, <2>3, <2>6 DEF OneDaemonPerProject, Inside
    <3>2. at[d] \in {"unlock", "done", "failed", "killed"}
        BY <2>4, <3>1 DEF Past, Inside, Leaving, Over
    <3> QED BY <2>2, <2>3, <2>6, <3>2
  <2> QED BY <2>5, <2>6
<1>7. ASSUME NEW there, there # "ok", start' = start \/ start' = [start EXCEPT ![e] = there]
      PROVE  FALSE
  <2>1. start' = start \/ d # e
      BY <1>0, <1>7 DEF DoorTypeOK
  <2> QED BY <1>0, <1>7, <2>1 DEF DoorTypeOK
<1>8. CASE StartCheck(e)
  <2>1. start' = start \/ start' = [start EXCEPT ![e] = "watch"]
      BY <1>8 DEF StartCheck, doorState
  <2> QED BY <1>7, <2>1
<1>9. CASE StartAfresh(e) \/ RunDaemon(e)
  <2>1. start' = [start EXCEPT ![e] = "none"] \/ start' = [start EXCEPT ![e] = "idle"]
      BY <1>9 DEF StartAfresh, RunDaemon
  <2> QED BY <1>7, <2>1
<1>10. CASE StartSeesPid(e) \/ StartGivesUp(e)
  <2>1. start' = [start EXCEPT ![e] = "ping"] \/ start' = [start EXCEPT ![e] = "error"]
      BY <1>10 DEF StartSeesPid, StartGoes, StartGivesUp
  <2> QED BY <1>7, <2>1
<1> QED BY <1>4, <1>5, <1>6, <1>8, <1>9, <1>10 DEF StartStep

(* When `start' reports success, the child it spawned serves or has served and  *)
(* left without a failure; or it was seen in the pidfile, has gone, and another *)
(* daemon has answered in its place.                                            *)
THEOREM StartIsTruthful == DoorSpec => StartTellsTheTruth
<1>1. DoorInit => StartInv
    BY DoorAssumption DEF DoorInit, StartInv
<1>2. DoorIInv /\ StartInv /\ [DoorNext]_doorState =>
        [\A d \in Daemons : start[d] # "ok" /\ start'[d] = "ok" =>
            \/ at[d] \in {"serve", "done"}
            \/ /\ start[d] = "ping" /\ at[d] \in {"unlock", "failed", "killed"}
               /\ \E e \in Daemons \ {d} : at[e] = "serve"]_doorState
    BY StartStepTells
<1> QED BY <1>1, <1>2, DoorInitIInv, DoorNextIInv, NextStartInv, PTL DEF DoorSpec, StartTellsTheTruth
=============================================================================
