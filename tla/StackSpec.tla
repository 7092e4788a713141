----------------------------- MODULE StackSpec -----------------------------
(* The slots of a stack as its clients see them: a specification whose only *)
(* steps are the ones that StackContract allows.                            *)
EXTENDS StackContract

VARIABLE view

\* A planned service has been spawned, or is held back.
Init == \A s \in DOMAIN view : \/ view[s] = NoSlot
                               \/ view[s] = Inserted(view[s].def)
                               \/ view[s] = Spawned(Inserted(view[s].def))

Next == Step(view, view')

Spec == Init /\ [][Next]_view
=============================================================================
