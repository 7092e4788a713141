---------------------------- MODULE StatusStream ----------------------------
(***************************************************************************)
(* What the daemon lets its clients know: the events the supervisor         *)
(* announces, the collector that folds them into the status registry        *)
(* (core/runtime/status.rs) and hands them to the fan-out channel            *)
(* (collect() and stream_events() of cli/daemon/server.rs), and how a        *)
(* client reads a snapshot (readiness() of cli/commands/daemon.rs).          *)
(*                                                                         *)
(* One service with a health check is followed; another one, without a       *)
(* check, is up all the time and writes log lines.  An event is known by its *)
(* number in the order of announcement, so the registry needs no variable:   *)
(* it is what the events applied so far make of a new entry.                 *)
(***************************************************************************)
EXTENDS Integers, FiniteSets, SequencesExt

CONSTANT StreamBacklog   \* STREAM_BACKLOG: events the fan-out channel holds

ASSUME StreamAssumption == StreamBacklog \in Nat \ {0}

VARIABLES
    life,       \* what the supervisor last announced of the service
    events,     \* the kinds of all events, in the order of announcement
    applied,    \* how many the collector has put into the registry
    sent        \* how many it has handed to the fan-out channel

streamVars == <<life, events, applied, sent>>

StateKinds  == {"Starting", "Running", "Backoff", "Stopping", "Stopped", "Exited", "Failed"}
HealthKinds == {"Healthy", "Unhealthy"}
Kinds       == StateKinds \cup HealthKinds \cup {"Log"}
Over        == {"Stopped", "Exited", "Failed"}

\* The states the supervision loop of a service without dependencies announces after
\* each other.  "asked": a run was started, and its task has announced nothing yet.
Leads ==
    [asked    |-> {"Starting", "Stopped"},
     Starting |-> {"Running", "Backoff", "Failed"},
     Running  |-> {"Backoff", "Exited", "Failed", "Stopping"},
     Backoff  |-> {"Starting", "Stopped"},
     Stopping |-> {"Stopped", "Exited", "Backoff", "Failed"},
     Stopped  |-> {}, Exited |-> {}, Failed |-> {}]

Spots(past, S) == {i \in DOMAIN past : past[i] \in S}
Before(past, i) == SubSeq(past, 1, i - 1)

LifeAfter(past) ==
    LET announced == Spots(past, StateKinds)
    IN IF announced = {} THEN "asked" ELSE past[Max(announced)]

\* The monitor of a process probes from just before the process is announced until the
\* loop goes round or returns: all through the stop, and the backoff, which after a
\* failed spawn there was no process to precede.
Monitored(past) ==
    \/ LifeAfter(past) \in {"Starting", "Running", "Stopping"}
    \/ /\ LifeAfter(past) = "Backoff"
       /\ LifeAfter(Before(past, Max(Spots(past, StateKinds)))) # "Starting"

\* After that only the probe in flight is allowed to finish, whatever has been announced
\* in the meantime: one verdict at the most of each process.
Given(past) == Cardinality({i \in Spots(past, HealthKinds) : ~Monitored(Before(past, i))})
Ended(past) ==
    Cardinality({i \in Spots(past, {"Running"}) :
                   \E j \in Spots(past, Over \cup {"Starting"}) : i < j})

Announces(past, now) ==
    Leads[now] \cup (IF Monitored(past) \/ Given(past) < Ended(past) THEN HealthKinds ELSE {})

\* A daemon whose clients have been told the events of `past'.
StreamInit(past) ==
    /\ \A i \in 1..Len(past) :
          LET told == Before(past, i) IN past[i] \in Announces(told, LifeAfter(told))
    /\ life = LifeAfter(past) /\ events = past /\ applied = Len(past) /\ sent = Len(past)

Announce(kind) ==
    /\ kind \in Announces(events, life) \cup {"Log"}
    /\ events' = Append(events, kind)
    /\ life' = IF kind \in StateKinds THEN kind ELSE life
    /\ UNCHANGED <<applied, sent>>

\* collect(): first the registry, then whoever has subscribed.
CollectApply ==
    /\ applied = sent /\ applied < Len(events)
    /\ applied' = applied + 1
    /\ UNCHANGED <<life, events, sent>>

CollectSend ==
    /\ sent < applied
    /\ sent' = sent + 1
    /\ UNCHANGED <<life, events, applied>>

-----------------------------------------------------------------------------
(* StatusRegistry *)

\* Entry::new for a service with a health check.
NewEntry == [state |-> "Pending", health |-> "Starting"]

\* The verdict on the previous process stays when the next one starts.
ApplyKeepingHealth(entry, kind) ==                                \* mutant
    CASE kind \in StateKinds  -> [entry EXCEPT !.state = kind]
      [] kind \in HealthKinds -> [entry EXCEPT !.health = kind]
      [] OTHER                -> entry

\* StatusRegistry::apply; messages, pids and counters are left out.
Apply(entry, kind) ==
    CASE kind = "Starting" -> [state |-> "Starting", health |-> "Starting"]
      [] kind \in StateKinds \ {"Starting"} -> [entry EXCEPT !.state = kind]
      [] kind \in HealthKinds -> [entry EXCEPT !.health = kind]
      [] OTHER -> entry

\* The registry when the collector has applied the first n events.
Registry[n \in Nat] == IF n = 0 THEN NewEntry ELSE Apply(Registry[n - 1], events[n])

\* StatusRegistry::snapshot.
Snapshot(n) == Registry[n]

\* readiness() of one service of a snapshot.
Readiness(entry) ==
    IF \/ entry.state = "Running" /\ entry.health = "Healthy"
       \/ entry.state = "Exited" /\ entry.health # "Unhealthy"
      THEN "ready"
      ELSE IF entry.state \in Over THEN "gone" ELSE "waiting"

-----------------------------------------------------------------------------
(* The fan-out channel, for a receiver that has seen everything up to `pos'. *)

Behind(pos)  == pos < sent
Lagging(pos) == sent - pos > StreamBacklog

\* The oldest event the channel still holds comes after this one.
Oldest == sent - StreamBacklog

\* Filter::wants of a subscriber that left out the logs, or asked for everything.
Wants(logs, i) == logs \/ events[i] # "Log"

-----------------------------------------------------------------------------
(* What was announced, read off the events themselves: the state is the last *)
(* one, the verdict the last since the service last began to start.          *)

Indices(S, from, to) == {i \in from..to : events[i] \in S}
Latest(S, from, to)  ==
    IF Indices(S, from, to) = {} THEN "none" ELSE events[Max(Indices(S, from, to))]
Begun(n) == IF Indices({"Starting"}, 1, n) = {} THEN 1 ELSE Max(Indices({"Starting"}, 1, n))

AnnouncedReady(n) ==
    LET state == Latest(StateKinds, 1, n) verdict == Latest(HealthKinds, Begun(n), n) IN
    \/ state = "Running" /\ verdict = "Healthy"
    \/ state = "Exited" /\ verdict # "Unhealthy"

AnnouncedGone(n) == Latest(StateKinds, 1, n) \in Over /\ ~AnnouncedReady(n)
=============================================================================
