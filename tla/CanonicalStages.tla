-------------------------- MODULE CanonicalStages --------------------------
(***************************************************************************)
(* The canonical stages of work and how the stage of a task follows from   *)
(* the stages of its parts.                                                *)
(*   src/src/tasks/workflow/workflow-domain.ts                             *)
(***************************************************************************)
EXTENDS Naturals

(***************************************************************************)
(* STAGES in order, so that comparing indexes is comparing numbers.        *)
(***************************************************************************)
NoStage == 0
TODO == 1
IN_PROGRESS == 2
IN_REVIEW == 3
DONE == 4
Stages == TODO .. DONE

\* reduceStages(): the lowest stage of the work, TODO when there is none.
reduceStages(stages) ==
    IF stages = {} THEN TODO
    ELSE CHOOSE s \in stages : \A t \in stages : s <= t
=============================================================================
