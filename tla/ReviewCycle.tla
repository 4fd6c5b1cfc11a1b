---------------------------- MODULE ReviewCycle ----------------------------
(***************************************************************************)
(* What the checklist of a task promises, without commands, revisions,     *)
(* receipts or roles: the life of each item and the moment the task closes.*)
(* ChecklistWorkflow implements it.                                        *)
(***************************************************************************)
EXTENDS Naturals

CONSTANT Items

VARIABLES
    phase,      \* of each item
    attempts,   \* how many times it was submitted
    closed      \* the task is completed

cycle == <<phase, attempts, closed>>

Phases == {"absent", "open", "review", "accepted", "delegated", "finished"}

\* "delegated" work is done by a child task, "finished" when the child is.
Over == {"accepted", "finished"}

\* A task closes in the very step that ends its last open item.
Closes(ph) ==
    /\ \E i \in Items : ph[i] # "absent"
    /\ \A i \in Items : ph[i] \in Over \cup {"absent"}

Becomes(i, from, to) ==
    /\ phase[i] = from
    /\ phase' = [phase EXCEPT ![i] = to]
    /\ closed' = Closes(phase')

Define(i) == ~closed /\ attempts[i] = 0 /\ Becomes(i, "absent", "open") /\ UNCHANGED attempts

\* Only an item nobody ever submitted may disappear.
Drop(i) == ~closed /\ attempts[i] = 0 /\ Becomes(i, "open", "absent") /\ UNCHANGED attempts

Submit(i) ==
    /\ Becomes(i, "open", "review")
    /\ attempts' = [attempts EXCEPT ![i] = @ + 1]

Return(i) == Becomes(i, "review", "open") /\ UNCHANGED attempts

Accept(i) == Becomes(i, "review", "accepted") /\ UNCHANGED attempts

\* Work under review or accepted cannot be handed to a child task.
Delegate(i) == Becomes(i, "open", "delegated") /\ UNCHANGED attempts

Finish(i) == Becomes(i, "delegated", "finished") /\ UNCHANGED attempts

Init ==
    /\ phase = [i \in Items |-> "absent"]
    /\ attempts = [i \in Items |-> 0]
    /\ closed = FALSE

Next ==
    \E i \in Items :
        \/ Define(i) \/ Drop(i) \/ Submit(i) \/ Return(i) \/ Accept(i)
        \/ Delegate(i) \/ Finish(i)

Spec == Init /\ [][Next]_cycle
=============================================================================
