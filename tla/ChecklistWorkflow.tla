------------------------- MODULE ChecklistWorkflow -------------------------
(***************************************************************************)
(* The checklist of one task: its items, their review attempts and the     *)
(* receipts that make a command safe to send again.                        *)
(*   src/src/tasks/services/task-workflow.service.ts                       *)
(*   src/src/tasks/services/task-checklist.service.ts                      *)
(* Every operation is one transaction under the project's advisory lock    *)
(* (lockWorkflow), which re-reads the rows it decides on, so an operation  *)
(* is one action.  Clients may send any command at any time and any number *)
(* of times: lost answers, retries, duplicates and late commands are all   *)
(* choices of Next.                                                        *)
(***************************************************************************)
EXTENDS WorkflowDomain, Sequences, FiniteSets

CONSTANTS
    Users, Items,
    NoUser,             \* decider of an attempt nobody decided (null)
    Keys,               \* idempotency keys
    Drags,              \* the intents a drag may carry, NoIntent for none
    Teams,              \* the sets of users a manager may assign
    Leavers,            \* users who leave and join the project
    Creator,            \* creator of the task, its first reportee
    ParentReportee,     \* reportee of the parent task
    AncestorReportees,  \* reportees of the task's proper ancestors
    MaxRevision,        \* bound: no operation on an item past this revision
    MaxNotes            \* bound: notes of one attempt

ASSUME UsersAssumption ==
    /\ NoUser \notin Users
    /\ ParentReportee \in AncestorReportees
    /\ AncestorReportees \subseteq Users
    /\ Teams \subseteq SUBSET Users
    /\ Leavers \subseteq Users
    /\ Creator \in Users
    /\ Drags \subseteq Intents \cup {NoIntent}

ASSUME BoundsAssumption == MaxRevision \in Nat /\ MaxNotes \in Nat

NoAttempt == 0

VARIABLES
    present,        \* the item rows that exist
    items,          \* status, stage, completed, branched, version of each
    submissions,    \* the attempts of each item, oldest first
    receipts,       \* ChecklistWorkflowReceipt rows
    assignees, reportee, superseded,    \* the task row
    taskStage,      \* canonical stage of the task's status; DONE = completed
    members         \* users with an active project membership

task == <<assignees, reportee, superseded>>
vars == <<present, items, submissions, receipts, task, taskStage, members>>

-----------------------------------------------------------------------------
Outcomes == {"SUBMITTED", "ACCEPTED", "REJECTED", "WITHDRAWN"}
Decisions == {"ACCEPT", "REJECT", "WITHDRAW"}
OutcomeOf == [ACCEPT |-> "ACCEPTED", REJECT |-> "REJECTED", WITHDRAW |-> "WITHDRAWN"]

Item == [status : Statuses, stage : Stages, completed : BOOLEAN,
         branched : BOOLEAN, version : Nat]

\* notes holds the latest revision of each review note of the attempt.
Submission == [by : Users, outcome : Outcomes, decidedBy : Users \cup {NoUser},
               notes : Seq(Nat)]

\* What hash() keeps of a command, without the transport it came by.
CommandHash ==
    [target : Statuses, intent : Intents, expected : Nat,
     submission : Nat, reviewNote : BOOLEAN]
NoteHash ==
    [note : Nat, noteRevision : Nat, expected : Nat, submission : Nat]

\* The stored response tells the status change, the revision and the attempt.
Receipt == [item : Items, actor : Users, key : Keys, hash : CommandHash \cup NoteHash,
            moved : BOOLEAN, revision : Nat, attempt : Nat,
            outcome : Outcomes \cup {"NONE"}]

NewItem == [status |-> StatusOf(TODO), stage |-> TODO, completed |-> FALSE,
            branched |-> FALSE, version |-> 1]

-----------------------------------------------------------------------------
(***************************************************************************)
(* Who may do what on the live rows.                                       *)
(***************************************************************************)
\* Mutant of the next: reportees of ancestors review too.
relationships_Inherited(u) ==
    [assignee |-> u \in assignees, reviewer |-> u \in {reportee} \cup AncestorReportees]

relationships(u) == [assignee |-> u \in assignees, reviewer |-> u = reportee]

canManage(u) == u \in members /\ (u = reportee \/ u \in AncestorReportees)

canViewTask(u) == canManage(u) \/ (u \in members /\ u \in assignees)

\* load() answers 403 or 404 unless this holds.
Loads(i, u) == i \in present /\ canViewTask(u)

taskCompleted == taskStage = DONE

TaskOpen == ~taskCompleted /\ ~superseded

Active(i) == {n \in DOMAIN submissions[i] : submissions[i][n].outcome = "SUBMITTED"}

\* Mutant of the next: the first attempt found, of any outcome.
ActiveAttempt_AnyOutcome(i) ==
    IF submissions[i] = <<>> THEN NoAttempt ELSE 1

\* findOne(SUBMITTED): a unique index allows at most one.
ActiveAttempt(i) ==
    IF Active(i) = {} THEN NoAttempt ELSE CHOOSE n \in Active(i) : TRUE

\* assertOpenHierarchy(): no ancestor is completed while the task is not.
assertOpenHierarchy == ~taskCompleted

\* Mutant of the next: linked sources are left out.
rollupStage_OwnWork(rows, its) ==
    IF taskCompleted THEN DONE
    ELSE reduceStages({its[i].stage : i \in {j \in rows : ~its[j].branched}})

\* rollupStatuses() on the items its: the stage the task is left at.
rollupStage(rows, its) ==
    IF taskCompleted THEN DONE
    ELSE reduceStages({IF its[i].completed THEN DONE ELSE its[i].stage : i \in rows})

-----------------------------------------------------------------------------
(***************************************************************************)
(* Receipts.                                                               *)
(***************************************************************************)
Receipts(i, u, k) == {r \in receipts : r.item = i /\ r.actor = u /\ r.key = k}

\* receipt() finds the command: the stored answer is returned, nothing changes.
Replays(i, u, k, hash) ==
    /\ Loads(i, u)
    /\ Receipts(i, u, k) # {}
    /\ \A r \in Receipts(i, u, k) : r.hash = hash

\* receipt() finds nothing, so that the command is executed.
Fresh(i, u, k) == Loads(i, u) /\ Receipts(i, u, k) = {}

targetId(target, requested) ==
    CASE requested = "SUBMIT" -> StatusOf(IN_REVIEW)
      [] requested = "ACCEPT" -> StatusOf(DONE)
      [] OTHER -> target

\* Mutant of the next: the hash keeps the intent as sent.
hashIntent_AsSent(target, requested) == IF requested = NoIntent THEN "MOVE" ELSE requested

\* The intent in the hash is inferred from the target alone.
hashIntent(target, requested) ==
    IF requested # NoIntent THEN requested
    ELSE CASE stageOf[target] = IN_REVIEW -> "SUBMIT"
           [] stageOf[target] = DONE -> "ACCEPT"
           [] OTHER -> "MOVE"

hashOf(target, requested, expected, submission, reviewNote) ==
    [target |-> targetId(target, requested),
     intent |-> hashIntent(targetId(target, requested), requested),
     expected |-> expected, submission |-> submission, reviewNote |-> reviewNote]

-----------------------------------------------------------------------------
(***************************************************************************)
(* execute(): every state-changing checklist command, drag or explicit.    *)
(***************************************************************************)

\* The intent a command comes to, from the live roles.
IntentOf(i, u, target, requested) ==
    InferredIntent(items[i], target, relationships(u), requested)

AtRevision(i, expected) == items[i].version = expected

\* The checks after the receipt lookup.
Permits(i, u, target, requested, expected, submission) ==
    LET intent == IntentOf(i, u, target, requested)
    IN  /\ AtRevision(i, expected)
        /\ TaskOpen
        /\ Authorizes(items[i], target, relationships(u), requested)
        /\ submission # NoAttempt => submission = ActiveAttempt(i)
        /\ intent = "SUBMIT" => Active(i) = {}
        /\ intent \in Decisions => Active(i) # {}

NewAttempt(u) == [by |-> u, outcome |-> "SUBMITTED", decidedBy |-> NoUser, notes |-> <<>>]

Decided(attempt, u, intent, reviewNote) ==
    [attempt EXCEPT !.outcome = OutcomeOf[intent], !.decidedBy = u,
                    !.notes = IF reviewNote THEN Append(@, 1) ELSE @]

NextAttempts(i, u, intent, reviewNote) ==
    CASE intent = "SUBMIT" -> Append(submissions[i], NewAttempt(u))
      [] intent \in Decisions ->
            [submissions[i] EXCEPT ![ActiveAttempt(i)] = Decided(@, u, intent, reviewNote)]
      [] OTHER -> submissions[i]

\* A mutant of the next: the transition leaves the completed flag as it was.
Persisted_KeepsCompleted(item, target, version) ==
    [item EXCEPT !.status = target, !.stage = activeStage(@, stageOf[target]),
                 !.version = version]

\* persistAuthorizedTransition().  A reorder within a status writes the row
\* only when the rank it computes differs, so the revision may stay.
Persisted(item, target, version) ==
    [item EXCEPT !.status = target, !.stage = activeStage(@, stageOf[target]),
                 !.completed = stageOf[target] = DONE, !.version = version]

\* (Only commands that decide carry a review note: it is ignored in others.)
Execute(i, u, k, target, requested, expected, submission, reviewNote) ==
    LET version == items[i].version
        to == targetId(target, requested)
        intent == IntentOf(i, u, to, requested)
    IN  /\ Fresh(i, u, k)
        /\ version < MaxRevision
        /\ Permits(i, u, to, requested, expected, submission)
        /\ reviewNote => /\ intent \in {"ACCEPT", "REJECT"}
                         /\ Len(submissions[i][ActiveAttempt(i)].notes) < MaxNotes
        /\ submissions' = [submissions EXCEPT ![i] = NextAttempts(i, u, intent, reviewNote)]
        /\ \E step \in IF to # items[i].status THEN {1} ELSE {0, 1} :
             LET n == IF intent = "SUBMIT" THEN Len(submissions'[i]) ELSE ActiveAttempt(i)
             IN  /\ items' = [items EXCEPT ![i] = Persisted(@, to, version + step)]
                 /\ receipts' = receipts \cup
                      {[item |-> i, actor |-> u, key |-> k,
                        hash |-> hashOf(target, requested, expected, submission, reviewNote),
                        moved |-> to # items[i].status, revision |-> version + step,
                        attempt |-> n,
                        outcome |-> IF n = NoAttempt THEN "NONE" ELSE submissions'[i][n].outcome]}
        /\ taskStage' = rollupStage(present, items')
        /\ UNCHANGED <<present, task, members>>

(***************************************************************************)
(* notes(): the current reviewer adds a note to the active attempt, or     *)
(* replaces the latest revision of one; note = 0 stands for no noteId.     *)
(***************************************************************************)
\* Mutant of the next: decided attempts take notes too.
PermitsNote_AnyAttempt(i, u, note, noteRevision, expected, submission) ==
    /\ u = reportee
    /\ AtRevision(i, expected)
    /\ submission \in DOMAIN submissions[i]
    /\ note # 0 => /\ note \in DOMAIN submissions[i][submission].notes
                   /\ noteRevision = submissions[i][submission].notes[note]

PermitsNote(i, u, note, noteRevision, expected, submission) ==
    /\ u = reportee
    /\ AtRevision(i, expected)
    /\ submission \in Active(i)
    /\ ~items[i].completed /\ ~items[i].branched
    /\ note # 0 => /\ note \in DOMAIN submissions[i][submission].notes
                   /\ noteRevision = submissions[i][submission].notes[note]

Notes(i, u, k, note, expected, submission) ==
    LET version == items[i].version
        kept == submissions[i][submission].notes
        noteRevision == IF note \in DOMAIN kept THEN kept[note] ELSE 0
    IN  /\ Fresh(i, u, k)
        /\ version < MaxRevision
        /\ PermitsNote(i, u, note, noteRevision, expected, submission)
        /\ note = 0 => Len(kept) < MaxNotes
        /\ submissions' = [submissions EXCEPT ![i][submission].notes =
                             IF note = 0 THEN Append(kept, 1)
                             ELSE [kept EXCEPT ![note] = noteRevision + 1]]
        /\ items' = [items EXCEPT ![i].version = version + 1]
        /\ receipts' = receipts \cup
             {[item |-> i, actor |-> u, key |-> k,
               hash |-> [note |-> note, noteRevision |-> noteRevision,
                         expected |-> expected, submission |-> submission],
               moved |-> FALSE, revision |-> version + 1, attempt |-> submission,
               outcome |-> "NONE"]}
        /\ UNCHANGED <<present, taskStage, task, members>>

\* authorizeWrite() and assertUploadOpen(), for a new version of a deliverable of the
\* item: the documents themselves are not kept here.
PermitsUpload(i, u) ==
    /\ ~superseded
    /\ canManage(u) \/ u \in assignees
    /\ ~taskCompleted /\ ~items[i].completed
    /\ ~items[i].branched

-----------------------------------------------------------------------------
(***************************************************************************)
(* Definition edits, by the reportee of the task or of an ancestor.  Every *)
(* one ends in a rollup (buildTaskSummary or recalculation).               *)
(***************************************************************************)
AddItem(i) ==
    /\ \E u \in Users : canManage(u)
    /\ assertOpenHierarchy
    /\ i \notin present
    /\ present' = present \cup {i}
    /\ items' = [items EXCEPT ![i] = NewItem]
    /\ taskStage' = rollupStage(present', items')
    /\ UNCHANGED <<submissions, receipts, task, members>>

\* updateItem() checks neither the task nor the item for completion.
UpdateItem(i) ==
    /\ \E u \in Users : canManage(u)
    /\ i \in present
    /\ items[i].version < MaxRevision
    /\ items' = [items EXCEPT ![i].version = @ + 1]
    /\ taskStage' = rollupStage(present, items')
    /\ UNCHANGED <<present, submissions, receipts, task, members>>

\* A mutant of the next: work under review can be branched.
Branchable_InReview(i) == ~items[i].completed /\ ~items[i].branched

Branchable(i) == items[i].stage # IN_REVIEW /\ ~items[i].completed /\ ~items[i].branched

\* branchItem(): the new child starts Todo and the rollup that follows makes
\* the source mirror it, with a second write if its status is another one.
BranchItem(i) ==
    LET initial == StatusOf(TODO)
        writes == IF items[i].status = initial THEN 1 ELSE 2
    IN  /\ \E u \in Users : canManage(u) \/ (u \in members /\ u \in assignees)
        /\ assertOpenHierarchy
        /\ i \in present
        /\ Branchable(i)
        /\ items[i].version < MaxRevision
        /\ items' = [items EXCEPT ![i] = [NewItem EXCEPT !.branched = TRUE,
                                                         !.version = items[i].version + writes]]
        /\ taskStage' = rollupStage(present, items')
        /\ UNCHANGED <<present, submissions, receipts, task, members>>

\* A rollup finds the linked child at another stage; Done is its last.
ChildMoves(i, stage) ==
    /\ i \in present
    /\ items[i].branched
    /\ items[i].stage \notin {stage, DONE}
    /\ items[i].version < MaxRevision
    /\ items' = [items EXCEPT ![i] =
            [items[i] EXCEPT !.status = StatusOf(stage), !.stage = stage,
                             !.completed = stage = DONE, !.version = @ + 1]]
    /\ taskStage' = rollupStage(present, items')
    /\ UNCHANGED <<present, submissions, receipts, task, members>>

\* deleteItem() refuses an item with attempts; the foreign key of its
\* receipts (ON DELETE RESTRICT) aborts the removal of one with receipts.
DeleteItem(i) ==
    /\ \E u \in Users : canManage(u)
    /\ assertOpenHierarchy
    /\ i \in present
    /\ ~items[i].branched /\ ~items[i].completed
    /\ submissions[i] = <<>>
    /\ \A r \in receipts : r.item # i
    /\ present' = present \ {i}
    /\ items' = [items EXCEPT ![i] = NewItem]
    /\ taskStage' = rollupStage(present', items')
    /\ UNCHANGED <<submissions, receipts, task, members>>

-----------------------------------------------------------------------------
(***************************************************************************)
(* The task row and the project's members.                                 *)
(***************************************************************************)

\* updateTask(assignedMembers): the team may include invited non-members.
Reassign(team) ==
    /\ \E u \in Users : canManage(u)
    /\ assignees' = team
    /\ taskStage' = rollupStage(present, items)
    /\ UNCHANGED <<present, items, submissions, receipts, reportee, superseded, members>>

\* removeReportee(): the parent's reportee takes the review over.  The revision of the
\* task and the receipts of these requests are not kept: one with a stale revision or
\* an old key is refused, or answered again, and changes nothing either way.
RemoveReportee ==
    /\ members \cap AncestorReportees # {}
    /\ ParentReportee \in members
    /\ reportee' = ParentReportee
    /\ UNCHANGED <<present, items, submissions, receipts, assignees, superseded,
                   taskStage, members>>

\* protect_reportee_membership(): nobody leaves who is a live task's reportee.
Offboard(u) ==
    /\ u \in Leavers \cap members
    /\ u # reportee
    /\ u \notin AncestorReportees
    /\ members' = members \ {u}
    /\ UNCHANGED <<present, items, submissions, receipts, task, taskStage>>

\* The project takes a user in (again).
Join(u) ==
    /\ u \in Leavers \ members
    /\ members' = members \cup {u}
    /\ UNCHANGED <<present, items, submissions, receipts, task, taskStage>>

\* supersedeTask(), for the task that is replaced.
Supersede ==
    /\ \E u \in Users : canManage(u)
    /\ assertOpenHierarchy
    /\ ~superseded
    /\ superseded' = TRUE
    /\ UNCHANGED <<present, items, submissions, receipts, assignees, reportee,
                   taskStage, members>>

-----------------------------------------------------------------------------
\* A new child task without items: its creator reviews it.
Init ==
    /\ present = {}
    /\ items = [i \in Items |-> NewItem]
    /\ submissions = [i \in Items |-> <<>>]
    /\ receipts = {}
    /\ members = Users
    /\ reportee = Creator
    /\ assignees \in Teams
    /\ superseded = FALSE
    /\ taskStage = TODO

\* The four endpoints: move, submissions, decision and notes.
Drag(i, u, k, expected) ==
    \E target \in Statuses, requested \in Drags, reviewNote \in BOOLEAN :
        Execute(i, u, k, target, requested, expected, NoAttempt, reviewNote)

Submit(i, u, k, expected) ==
    Execute(i, u, k, StatusOf(IN_REVIEW), "SUBMIT", expected, NoAttempt, FALSE)

Decide(i, u, k, expected) ==
    \E target \in Statuses, decision \in Decisions, n \in DOMAIN submissions[i],
       reviewNote \in BOOLEAN :
        Execute(i, u, k, target, decision, expected, n, reviewNote)

Annotate(i, u, k, expected) ==
    \E n \in DOMAIN submissions[i], note \in 0 .. MaxNotes :
        Notes(i, u, k, note, expected, n)

Commands ==
    \E i \in present, u \in members, k \in Keys, expected \in 1 .. MaxRevision :
        /\ Fresh(i, u, k) /\ AtRevision(i, expected)
        /\ \/ Drag(i, u, k, expected)
           \/ Submit(i, u, k, expected)
           \/ Decide(i, u, k, expected)
           \/ Annotate(i, u, k, expected)

Definitions ==
    \/ \E i \in Items : AddItem(i) \/ UpdateItem(i) \/ BranchItem(i) \/ DeleteItem(i)
    \/ \E i \in Items, stage \in Stages : ChildMoves(i, stage)

Organisation ==
    \/ \E team \in Teams : Reassign(team)
    \/ \E u \in Users : Offboard(u) \/ Join(u)
    \/ RemoveReportee
    \/ Supersede

Next == Commands \/ Definitions \/ Organisation

Spec == Init /\ [][Next]_vars

-----------------------------------------------------------------------------
(***************************************************************************)
(* Every variable holds a value of its kind.                               *)
(***************************************************************************)
TypeOK ==
    /\ present \subseteq Items
    /\ items \in [Items -> Item]
    /\ submissions \in [Items -> Seq(Submission)]
    /\ receipts \subseteq Receipt
    /\ assignees \subseteq Users
    /\ reportee \in Users
    /\ superseded \in BOOLEAN
    /\ taskStage \in Stages
    /\ members \subseteq Users

(***************************************************************************)
(* The three columns that tell how far an item is agree: the status row,   *)
(* the effective stage and the completed flag.  (execute() sets the stage, *)
(* persistAuthorizedTransition() the other two, the rollup all three.)     *)
(***************************************************************************)
Agrees(item) ==
    /\ item.completed <=> item.stage = DONE
    /\ IF stageOf[item.status] = NoStage THEN item.stage \in {TODO, IN_PROGRESS}
       ELSE item.stage = stageOf[item.status]

StageAgrees == \A i \in Items : Agrees(items[i])

(***************************************************************************)
(* An item is under review exactly while its newest attempt is undecided,  *)
(* and no older attempt ever is; a branched item has no attempt open.      *)
(* What execute(), branchItem() and the rollup each do to the status has   *)
(* to match what execute() alone does to the attempts.                     *)
(***************************************************************************)
ReviewHasActiveAttempt ==
    \A i \in Items :
        Active(i) = IF UnderReview(items[i]) /\ ~items[i].branched
                    THEN {Len(submissions[i])} ELSE {}

(***************************************************************************)
(* Work of the task itself is Done exactly when an attempt was accepted:   *)
(* its newest, and the only one ever accepted.  Definition edits, branching*)
(* and the rollup all write the completed flag or the row it is in.        *)
(***************************************************************************)
Accepted(i) == {n \in DOMAIN submissions[i] : submissions[i][n].outcome = "ACCEPTED"}

DoneWasAccepted ==
    \A i \in Items :
        Accepted(i) = IF items[i].completed /\ ~items[i].branched
                      THEN {Len(submissions[i])} ELSE {}

(***************************************************************************)
(* The task's status is the lowest stage of its items, whatever operation  *)
(* came last; a completed task has items, all of them Done, and no attempt *)
(* waiting for a decision (workflow-audit.ts reports the contrary as       *)
(* COMPLETED_WITH_INCOMPLETE_WORK).                                        *)
(***************************************************************************)
TaskStatusIsDerived ==
    /\ taskStage = reduceStages({items[i].stage : i \in present})
    /\ taskCompleted => /\ present # {}
                        /\ \A i \in present : items[i].completed /\ Active(i) = {}

(***************************************************************************)
(* Each revision of an item is spent once: of all the commands that were   *)
(* executed for the same expected revision, one changed the revision.      *)
(***************************************************************************)
RevisionSpentOnce ==
    \A r, s \in receipts :
        /\ r.item = s.item
        /\ r.hash.expected = s.hash.expected
        /\ r.revision # r.hash.expected
        /\ s.revision # s.hash.expected
        => r = s

(***************************************************************************)
(* History is written exactly once per command: every attempt was opened   *)
(* by one receipted command of its submitter, and every decision is that   *)
(* of one receipted command of the user it names, however often commands   *)
(* were sent again (docs, "without repeating history").                    *)
(***************************************************************************)
OneReceipt(i, n, outcome, actor) ==
    \E r \in receipts :
        {s \in receipts : s.item = i /\ s.moved /\ s.attempt = n /\ s.outcome = outcome
                           /\ s.actor = actor} = {r}

HistoryWrittenOnce ==
    \A i \in Items : \A n \in DOMAIN submissions[i] :
        LET attempt == submissions[i][n]
        IN  /\ OneReceipt(i, n, "SUBMITTED", attempt.by)
            /\ attempt.outcome # "SUBMITTED" =>
                  OneReceipt(i, n, attempt.outcome, attempt.decidedBy)

\* Commands count once: for the revision they name, and in the history.
CommandsCountOnce == RevisionSpentOnce /\ HistoryWrittenOnce

(***************************************************************************)
(* A command that was executed can be sent again, by drag or as an         *)
(* explicit submission or decision, as long as its sender may see the      *)
(* task: it is answered from the receipt even though its revision is       *)
(* stale, and never executed or refused (docs, "Replay with the same key").*)
(***************************************************************************)
Spellings(hash) ==
    {hash.intent} \cup
        (IF \/ hash.intent = "SUBMIT" /\ stageOf[hash.target] = IN_REVIEW
            \/ hash.intent = "ACCEPT" /\ stageOf[hash.target] = DONE
            \/ hash.intent = "MOVE" /\ stageOf[hash.target] \notin {IN_REVIEW, DONE}
         THEN {NoIntent} ELSE {})

RetryIsAnswered ==
    \A r \in receipts :
        Loads(r.item, r.actor) /\ r.hash \in CommandHash =>
            \A requested \in Spellings(r.hash) :
                Replays(r.item, r.actor, r.key,
                        hashOf(r.hash.target, requested, r.hash.expected,
                               r.hash.submission, r.hash.reviewNote))

(***************************************************************************)
(* What a read offers can be done, and nothing else: a user who may see    *)
(* the task can drag an item exactly to the statuses it lists, and can do  *)
(* what each flag says, if the revision is still the one that was read.    *)
(***************************************************************************)
Can(i, u, target, requested) ==
    Permits(i, u, target, requested, items[i].version, ActiveAttempt(i))

CapabilitiesAreHonest ==
    \A i \in present, u \in Users :
        LET roles == relationships(u)
            may == checklistCapabilities(items[i], roles, TaskOpen)
            returning == IF UnderReview(items[i]) /\ roles.assignee /\ roles.reviewer
                         THEN "WITHDRAW" ELSE NoIntent
        IN  /\ \A s \in Statuses :
                  s \in may.allowedTargets <=>
                      Can(i, u, s, NoIntent) \/ Can(i, u, s, returning)
            /\ may.canSubmit <=> Can(i, u, StatusOf(IN_REVIEW), "SUBMIT")
            /\ may.canReview <=> Can(i, u, StatusOf(DONE), "ACCEPT")
            /\ may.canReview <=> Can(i, u, StatusOf(TODO), "REJECT")
            /\ may.canWithdraw <=> Can(i, u, StatusOf(TODO), "WITHDRAW")
            /\ may.canEditSubmissionNotes =>
                  PermitsNote(i, u, 0, 0, items[i].version, ActiveAttempt(i))
            /\ may.canUploadDeliverables <=> roles.assignee /\ PermitsUpload(i, u)

(***************************************************************************)
(* Done is terminal: a completed item keeps its status and its row, a      *)
(* completed task stays completed and takes no new item.                   *)
(***************************************************************************)
DoneStays ==
    /\ taskCompleted => taskCompleted' /\ present' = present
    /\ \A i \in present : items[i].completed =>
          /\ i \in present'
          /\ items'[i].completed /\ items'[i].status = items[i].status

DoneIsTerminal == [][DoneStays]_vars

(***************************************************************************)
(* A decided attempt and its notes are never rewritten, and no attempt     *)
(* disappears, whatever happens to the item afterwards.                    *)
(***************************************************************************)
HistoryStays ==
    \A i \in Items : \A n \in DOMAIN submissions[i] :
        /\ n \in DOMAIN submissions'[i]
        /\ submissions[i][n].outcome # "SUBMITTED" => submissions'[i][n] = submissions[i][n]

HistoryIsKept == [][HistoryStays]_vars

(***************************************************************************)
(* Decisions are made by those the live task names: the reviewer of the    *)
(* moment accepts or rejects, an assignee of the moment withdraws, each an *)
(* active member; also when a drag leaves the intent to be inferred.       *)
(***************************************************************************)
DecidesRightly ==
    \A i \in Items : \A n \in DOMAIN submissions[i] :
        submissions[i][n].outcome = "SUBMITTED" /\ submissions'[i][n].outcome # "SUBMITTED" =>
            LET u == submissions'[i][n].decidedBy
            IN  /\ u \in members
                /\ IF submissions'[i][n].outcome = "WITHDRAWN" THEN u \in assignees
                   ELSE u = reportee

DecidedByTheRightUser == [][DecidesRightly]_vars

-----------------------------------------------------------------------------
(***************************************************************************)
(* The checklist implements ReviewCycle: whatever is sent, retried, edited *)
(* or reorganised, items go through open, review and accepted (or through  *)
(* delegated and finished) one step at a time, and the task closes in the  *)
(* same transaction as its last item.                                      *)
(***************************************************************************)
PhaseOf(i) ==
    CASE i \notin present -> "absent"
      [] i \in present /\ items[i].branched ->
            IF items[i].completed THEN "finished" ELSE "delegated"
      [] i \in present /\ ~items[i].branched ->
            IF items[i].completed THEN "accepted"
            ELSE IF UnderReview(items[i]) THEN "review" ELSE "open"

Cycle == INSTANCE ReviewCycle WITH
            phase <- [i \in Items |-> PhaseOf(i)],
            attempts <- [i \in Items |-> Len(submissions[i])],
            closed <- taskCompleted

ImplementsReviewCycle == Cycle!Spec
=============================================================================
