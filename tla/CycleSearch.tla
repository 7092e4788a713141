----------------------------- MODULE CycleSearch -----------------------------
(***************************************************************************)
(* find_cycle of graph.rs: the depth-first search that names one cycle of a *)
(* dependency graph that topological_sort could not sort.                   *)
(*                                                                         *)
(* The stack of dfs is the path.  A call that returns at once, for a node   *)
(* that is finished or was scheduled, changes nothing and is passed over;   *)
(* a node whose dependencies are all passed over returns.  Nodes are        *)
(* visited in the order of their names.                                     *)
(***************************************************************************)
EXTENDS Planning

\* The nodes that the loop of the innermost call has still to visit.
Ahead(deps, remaining, s) ==
    (IF s.path = <<>> THEN remaining ELSE ToSet(deps[Last(s.path)]) \cap remaining) \ s.finished

\* The loop from path[i] back to where it was met again.
Closed(path, node) ==
    Append(SubSeq(path, CHOOSE i \in DOMAIN path : path[i] = node, Len(path)), node)

\* One call of dfs, or its return.
Visited(deps, remaining, s) ==
    LET ahead == Ahead(deps, remaining, s)
        node  == Min(ahead)
    IN  IF s.cycle # <<>> \/ (ahead = {} /\ s.path = <<>>) THEN s
        ELSE IF ahead = {}
          THEN [s EXCEPT !.path = Front(@), !.finished = @ \cup {Last(s.path)}]
        ELSE IF node \in ToSet(s.path) THEN [s EXCEPT !.cycle = Closed(s.path, node)]
        ELSE [s EXCEPT !.path = Append(@, node)]

\* Every node is called once and returns once, then a cycle has been closed or there
\* is none.
FindCycle(deps, remaining) ==
    LET turns == 2 * Cardinality(remaining) + 1
        after[t \in 0..turns] == IF t = 0 THEN [path |-> <<>>, finished |-> {}, cycle |-> <<>>]
                                 ELSE Visited(deps, remaining, after[t - 1])
    IN  after[turns].cycle
=============================================================================
