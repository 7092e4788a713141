------------------------------ MODULE Planning ------------------------------
(***************************************************************************)
(* The dependency graph (graph.rs) and the choice of what to start          *)
(* (runtime/plan.rs).  A service is a number, and the order of numbers is   *)
(* the order of names.  A graph gives every service the sequence of the     *)
(* services that it depends on.                                             *)
(***************************************************************************)
EXTENDS Integers, Sequences, SequencesExt, FiniteSets, FiniteSetsExt

-----------------------------------------------------------------------------
(* topological_sort: Kahn's algorithm. *)

\* How often n waits for `name': in_degree and adj count entries, not services.
Entries(deps, n, name) == Cardinality({i \in DOMAIN deps[n] : deps[n][i] = name})

\* One turn of the loop: the head of the queue is scheduled, and whoever waited for
\* nothing else is inserted.  partition_point keeps the queue sorted, so it is a set
\* and its head the smallest member.
Scheduled(deps, s) ==
    IF s.queue = {} THEN s
    ELSE LET name  == Min(s.queue)
             deg   == [n \in DOMAIN deps |-> s.deg[n] - Entries(deps, n, name)]
             ready == {n \in DOMAIN deps : Entries(deps, n, name) > 0 /\ deg[n] = 0}
         IN  [queue |-> (s.queue \ {name}) \cup ready,
              deg   |-> deg,
              order |-> Append(s.order, name)]

KahnStart(deps) ==
    [queue |-> {n \in DOMAIN deps : deps[n] = <<>>},
     deg   |-> [n \in DOMAIN deps |-> Len(deps[n])],
     order |-> <<>>]

\* The loop, which takes one service off the queue each time.
Kahn(deps) ==
    LET turns == Cardinality(DOMAIN deps)
        after[t \in 0..turns] == IF t = 0 THEN KahnStart(deps) ELSE Scheduled(deps, after[t - 1])
    IN  after[turns]

SortsCompletely(deps) == Len(Kahn(deps).order) = Cardinality(DOMAIN deps)

\* The services that the loop has left: the ones that a cycle is looked for among.
Remaining(deps) == {n \in DOMAIN deps : Kahn(deps).deg[n] > 0}

-----------------------------------------------------------------------------
(* plan_stack.  A configuration gives every service its dependencies, its   *)
(* profiles and whether it starts on its own, and has a start order.        *)

Dependencies(cfg, n) == ToSet(cfg.deps[n])

\* collect_with_dependencies, for all names it is called with.
Collected(cfg, selected) == selected \cup UNION {Dependencies(cfg, n) : n \in selected}

WithDependencies(cfg, names) ==
    LET after[t \in 0..Len(cfg.order)] == IF t = 0 THEN names ELSE Collected(cfg, after[t - 1])
    IN  after[Len(cfg.order)]

\* Selection::enabled.
Enabled(cfg, n, profiles) ==
    cfg.profiles[n] = {} \/ cfg.profiles[n] \cap profiles # {}

\* Who is asked for: everything that starts on its own, or the services named.
Roots(cfg, selection) ==
    IF selection.services = {}
      THEN {n \in DOMAIN cfg.deps : cfg.autostart[n] /\ Enabled(cfg, n, selection.profiles)}
      ELSE selection.services

\* The first error is the one that is returned.
PlanErrors(cfg, selection) ==
    IF \E p \in selection.profiles : \A n \in DOMAIN cfg.deps : p \notin cfg.profiles[n]
                                                              THEN {"UnknownProfile"}
    ELSE IF ~(selection.services \subseteq DOMAIN cfg.deps)    THEN {"UnknownService"}
    ELSE IF Roots(cfg, selection) = {}                        THEN {"NothingToStart"}
    ELSE {}

\* The members of `selected', in start order.
Filtered(order, selected) ==
    LET kept[i \in 0..Len(order)] == IF i = 0 THEN <<>>
                                     ELSE IF order[i] \in selected THEN Append(kept[i - 1], order[i])
                                     ELSE kept[i - 1]
    IN  kept[Len(order)]

PlanStackFlat(cfg, selection) ==                                 \* mutant
    Filtered(cfg.order, Roots(cfg, selection))

\* plan_stack, when there is something to start: the start order, filtered.
PlanStack(cfg, selection) ==
    Filtered(cfg.order, WithDependencies(cfg, Roots(cfg, selection)))

\* with_dependents: one pass over the plan, in start order.
Joined(cfg, held, n) == IF Dependencies(cfg, n) \cap held # {} THEN held \cup {n} ELSE held

WithDependents(cfg, plan, seeds) ==
    LET held[i \in 0..Len(plan)] == IF i = 0 THEN seeds \cap ToSet(plan)
                                    ELSE Joined(cfg, held[i - 1], plan[i])
    IN  held[Len(plan)]
=============================================================================
