--------------------------- MODULE StackContract ---------------------------
(***************************************************************************)
(* What the slots of a stack promise to whoever sends commands: a slot as   *)
(* runtime/stack.rs keeps it, without the task behind it.  StackSupervisor  *)
(* implements it; DaemonSession relies on it.                               *)
(*                                                                          *)
(* `pending' is "none" or whoever is owed an acknowledgement.               *)
(***************************************************************************)

NoSlot == [here |-> FALSE, held |-> FALSE, restart |-> FALSE, retired |-> FALSE,
           pending |-> "none", def |-> "none"]

Inserted(def) == [NoSlot EXCEPT !.here = TRUE, !.def = def]

Spawned(slot) == [slot EXCEPT !.held = TRUE]

\* One command at a time.
Free(slot) == slot.here /\ slot.pending = "none"

Stopping(slot, who) == [slot EXCEPT !.pending = who]

Restarting(slot, who) == [slot EXCEPT !.pending = who, !.restart = TRUE]

\* The task behind the slot has ended: the slot is removed, spawned again or idle.
Reported(slot) ==
  CASE slot.retired -> NoSlot
    [] ~slot.retired /\ slot.restart -> [slot EXCEPT !.restart = FALSE, !.pending = "none"]
    [] OTHER -> [slot EXCEPT !.held = FALSE, !.pending = "none"]

\* A reload that plans the service with this definition, or no longer plans it.
\* A running service is never replaced: it is asked to stop, and what comes
\* next waits for its report.
Reloaded(slot, planned, def) ==
  CASE planned /\ ~slot.here -> Spawned(Inserted(def))
    [] planned /\ slot.retired ->
         [slot EXCEPT !.retired = FALSE, !.def = def, !.restart = slot.held]
    [] planned /\ slot.here /\ ~slot.retired /\ slot.def # def ->
         [slot EXCEPT !.def = def, !.restart = @ \/ slot.held]
    [] ~planned /\ slot.held -> [slot EXCEPT !.retired = TRUE, !.restart = FALSE]
    [] ~planned /\ ~slot.held -> NoSlot
    [] OTHER -> slot

\* A command or the report of one slot.
SlotStep(old, new) ==
  \/ /\ Free(old) /\ ~old.held /\ new = Spawned(old)
  \/ /\ Free(old) /\ old.held /\ new.pending # "none"
     /\ \/ new = Stopping(old, new.pending)
        \/ new = Restarting(old, new.pending)
  \/ old.held /\ new = Reported(old)

\* A reload touches every slot at once, and none of them is busy.
ReloadStep(old, new) ==
  \A s \in DOMAIN old :
    /\ old[s].pending = "none"
    /\ \E planned \in BOOLEAN : new[s] = Reloaded(old[s], planned, new[s].def)

\* The stack ends: whoever still waits is told so.
EndStep(old, new) == \A s \in DOMAIN old : new[s] = [old[s] EXCEPT !.pending = "none"]

Step(old, new) ==
  \/ \E s \in DOMAIN old : SlotStep(old[s], new[s]) /\ new = [old EXCEPT ![s] = new[s]]
  \/ ReloadStep(old, new)
  \/ EndStep(old, new)
=============================================================================
