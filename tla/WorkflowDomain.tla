--------------------------- MODULE WorkflowDomain ---------------------------
(***************************************************************************)
(* The pure part of the task workflow: the statuses of a project and the   *)
(* policy that decides which checklist transition a command stands for and *)
(* who may make it.                                                        *)
(*   src/src/tasks/workflow/workflow-domain.ts                             *)
(*   src/src/tasks/workflow/checklist-policy.ts                            *)
(***************************************************************************)
EXTENDS CanonicalStages

CONSTANTS
    Statuses,   \* the active status rows of one project
    stageOf     \* canonicalStage of each: a stage, or NoStage (null)

(***************************************************************************)
(* What canonicalStatuses() checks before every mutation (otherwise the    *)
(* command ends in WORKFLOW_MIGRATION_REQUIRED and changes nothing): every *)
(* stage has a status.  The map it builds keeps one status per stage.      *)
(***************************************************************************)
ASSUME CanonicalMapping ==
    /\ stageOf \in [Statuses -> Stages \cup {NoStage}]
    /\ \A s \in Stages : \E x \in Statuses : stageOf[x] = s
    /\ \A x, y \in Statuses : stageOf[x] = stageOf[y] /\ stageOf[x] # NoStage => x = y

StatusOf(stage) == CHOOSE x \in Statuses : stageOf[x] = stage

\* Mutant of the next: a custom status keeps any stage.
activeStage_KeepsReview(previous, target) ==
    IF target # NoStage THEN target ELSE previous

\* activeStage(): a custom status keeps TODO work at TODO and puts any other
\* work back in progress.
activeStage(previous, target) ==
    CASE target # NoStage -> target
      [] target = NoStage /\ previous = TODO -> TODO
      [] OTHER -> IN_PROGRESS

-----------------------------------------------------------------------------
(***************************************************************************)
(* authorizeTransition().  An item is a record with fields status, stage,  *)
(* completed and branched; roles is the pair of booleans relationships()   *)
(* computes from the live task.                                            *)
(***************************************************************************)
Intents == {"MOVE", "SUBMIT", "ACCEPT", "REJECT", "WITHDRAW"}
NoIntent == "NONE"

UnderReview(item) == stageOf[item.status] = IN_REVIEW

\* The intent a command stands for once its target is known.
InferredIntent(item, target, roles, requested) ==
    LET given == IF requested = NoIntent THEN "MOVE" ELSE requested
        moves == target # item.status
    IN  CASE moves /\ ~UnderReview(item) /\ stageOf[target] = IN_REVIEW -> "SUBMIT"
          [] moves /\ UnderReview(item) /\ stageOf[target] = DONE -> "ACCEPT"
          [] moves /\ UnderReview(item) /\ stageOf[target] # DONE /\ given = "MOVE" ->
                IF roles.reviewer THEN "REJECT" ELSE "WITHDRAW"
          [] OTHER -> given

\* A return from review by somebody who is assignee and reviewer at once.
AmbiguousReturn(item, target, roles, requested) ==
    /\ UnderReview(item)
    /\ target # item.status
    /\ stageOf[target] # DONE
    /\ requested \in {NoIntent, "MOVE"}
    /\ roles.assignee /\ roles.reviewer

ValidMove(item, target, intent) ==
    \/ /\ intent = "MOVE"
       /\ \/ target = item.status
          \/ ~UnderReview(item) /\ stageOf[target] \notin {IN_REVIEW, DONE}
    \/ intent = "SUBMIT" /\ ~UnderReview(item) /\ stageOf[target] = IN_REVIEW
    \/ intent = "ACCEPT" /\ UnderReview(item) /\ stageOf[target] = DONE
    \/ /\ intent \in {"REJECT", "WITHDRAW"}
       /\ UnderReview(item) /\ stageOf[target] \notin {IN_REVIEW, DONE}

\* authorizeTransition() returns InferredIntent instead of throwing.
Authorizes(item, target, roles, requested) ==
    LET intent == InferredIntent(item, target, roles, requested)
    IN  /\ ~item.branched
        /\ ~item.completed /\ stageOf[item.status] # DONE
        /\ UnderReview(item) \/ stageOf[target] # DONE
        /\ ~AmbiguousReturn(item, target, roles, requested)
        /\ requested \in {NoIntent, "MOVE", intent}
        /\ ValidMove(item, target, intent)
        /\ IF intent \in {"ACCEPT", "REJECT"} THEN roles.reviewer ELSE roles.assignee

(***************************************************************************)
(* checklistCapabilities(): what a read tells the client it may try.       *)
(* taskOpen stands for a task neither completed, deleted nor superseded.   *)
(***************************************************************************)
\* Mutant of the next: the state of the task is forgotten.
Live_WhateverTheTask(item, taskOpen) == ~item.completed /\ ~item.branched

Live(item, taskOpen) == ~item.completed /\ ~item.branched /\ taskOpen

allowedTargetStatusIds(item, roles, taskOpen) ==
    {s \in Statuses :
        /\ Live(item, taskOpen)
        /\ LET dualReturn == /\ UnderReview(item) /\ roles.assignee /\ roles.reviewer
                             /\ stageOf[s] # DONE /\ s # item.status
           IN  Authorizes(item, s, roles, IF dualReturn THEN "WITHDRAW" ELSE NoIntent)}

checklistCapabilities(item, roles, taskOpen) ==
    LET live == Live(item, taskOpen)
        underReview == UnderReview(item)
    IN  [allowedTargets |-> allowedTargetStatusIds(item, roles, taskOpen),
         canSubmit   |-> live /\ ~underReview /\ roles.assignee,
         canWithdraw |-> live /\ underReview /\ roles.assignee,
         canReview   |-> live /\ underReview /\ roles.reviewer,
         canEditSubmissionNotes |-> live /\ underReview /\ roles.reviewer,
         canUploadDeliverables |-> live /\ roles.assignee]
=============================================================================
