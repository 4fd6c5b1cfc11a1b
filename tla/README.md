# Verification of the archkalinga backend

The repository is a NestJS backend for construction projects: workspaces hold projects, projects hold a
tree of tasks, tasks hold checklist items that are executed, reviewed and accepted, and change requests
that are reviewed, escalated and resolved. All state is in PostgreSQL, reached through TypeORM, and in an
object store; every HTTP request and every background job is a process of its own, so requests interleave
wherever no lock or constraint stops them. This directory holds TLA+ models of the parts whose correctness
depends on those interleavings and on long sequences of legal calls, the TLC runs that check them on small
instances, and TLAPS proofs for every instance.

`PROJECT.json` lists the components, the runs, the mutants, the source lines each definition models, the
hazards and the theorems. Paths below are relative to the repository's `src/src/`, unless they begin with
`docs/`, which is in `src/`.

## 1. Inventory

| Component | State it keeps | Operations | Where it is hard |
|---|---|---|---|
| Checklist workflow (`tasks/services/task-workflow.service.ts`, `tasks/workflow/*`) | item status, stage, completion, version; submissions with revision and outcome; receipts of idempotency keys; reportee and assignees of the task | `execute` (move, submit, accept, reject, withdraw), `notes`, `removeReportee`, capabilities | retried and duplicated commands, late decisions on spent revisions, roles that change between read and command |
| Checklist items (`tasks/services/task-checklist.service.ts`) | items, branch link to a child task | add, update, branch, reorder, delete | branching while attempts exist |
| Task hierarchy, rollup and progress (`tasks/services/task-crud.service.ts`, `task-progress.service.ts`, `tasks/workflow/workflow-domain.ts`) | parent, stage, percentage, reportee, supersession, soft deletion | create, branch, reparent, delete, supersede, package, bulk progress; rollup of every ancestor | checks before the workflow lock; rows read before it and saved under it; derived values that are saved |
| Ordering (`tasks/services/task-ranking.service.ts`) | a rank of ten base-36 digits per card, an index per list entry | move, place last, rebalance, reorder | no gap between neighbours, the end of the range |
| Relations and dependencies (`tasks/services/task-relations.service.ts`) | edges between tasks, and between items | add, change, replace, delete | search for cycles without the lock |
| Schedule calculation (`tasks/services/schedule-calculation.service.ts`) | per task: duration, dates by hand, early, late and planned dates, floats, critical or not | recalculate a project | four types of dependencies with leads and lags, in both directions; nested summaries; results saved over inputs |
| Task authorization (`tasks/services/task-auth.service.ts`, `auth/guards/*`, `tasks/tasks.controller.ts`) | memberships, roles, people on tasks | a guard for each route, a question of each service | two layers written apart; a recursive query against a walk to the root |
| Reads (`task-query`, `task-dashboard-summary`, `activity-schedule-gantt`, `activity-schedule-query`, `task-activity`, `task-documents`, impact map, work queue) | none | lists, boards, trees, maps, timelines, dashboards | each has conditions and a traversal of its own |
| Change requests (`tasks/services/task-change-requests.service.ts`) | request status, resolver, escalation, reviews, audit trail | create, assign review, decide review, revise, reopen, escalate, resolve | check-then-act without lock or version; ORM save semantics |
| Offline sync, locations, comments (`task-sync-events`, `task-locations`, `task-comments`) | one receipt per client event; locations; comments | submit a batch, apply; forms that save the same rows | late, repeated, cut-off batches; forms without the lock |
| Documents and deliverables (`task-documents.service.ts`, `common/services/minio.service.ts`) | documents, attachments, revisions; stored objects | create, update, derive a starter, delete, submit as evidence | two stores without a common transaction |
| Outbox (`outbox/`) | outbox rows, the Bull queue | enqueue in a transaction, flush, prune, requeue, consume | crash between queue and save, overlapping flushes, retries running out |
| Projects, members, roles (`projects/`), invitations (`project-invites/`, `workspace-invites/`) | memberships of project and workspace, roles, invitations | create, resend, cancel, accept, decline, expire; assign, disable and delete roles | rows loaded, checked and saved later, without a lock |
| Project configuration (`projects/project-config.service.ts`) | statuses with their canonical stage, priorities, severities, types, labels | create, update, delete; seeding of a new project | creation in several transactions; the old default cleared before the new one is saved |
| Users and authentication (`auth/`, `users/`) | users, sessions | login, one-time code, refresh, reset, change, lock, log out | whole rows saved after a check; a token presented twice |
| Codes and schedule imports (`tasks/services/task-wbs.service.ts`, `activity-schedule-import.service.ts`) | codes of the work breakdown structure, reserved for good; tasks, days and dependencies made of sheets | import a sheet; give codes | tasks found before the transaction and saved without the lock; a sheet imported twice; codes on several levels |
| Reports, notifications, search, audit log, materials, resources, workspaces, templates | rows, or none | single requests | no protocol between them |

How they interact. A checklist command, an item's definition, a structural change of the task tree, a
placement, a sync event and a document's save all take the same per-project advisory lock (`lockWorkflow` in
`tasks/workflow/workflow-domain.ts:18`). Structural changes and checklist commands end in the same rollup,
which writes the stage of the task and of each of its ancestors, and in the same recalculation of progress.
Membership services do not take the lock; a database trigger refuses to deactivate a membership whose user is
the reportee of a task. Neither do dependencies added by themselves, forms about a location, comments or
change requests. A change of a task or of a dependency is followed, in a transaction of its own, by a
calculation of the project's schedule, which holds the lock as well. All of them record domain events through
the outbox in their own transaction. Every request about a task passes the guard of its route and then what
the service asks.

What makes each component correct:

- **Checklist workflow.** An item is under review exactly while one attempt is active; no command counts twice;
  history is not rewritten; a retry gets the answer of the original; what `capabilities` offers, `execute`
  accepts; an item done here was accepted by the reviewer of that moment.
- **Hierarchy.** The rollup never aborts on a tree the operations can build; every stage is what its work
  makes it, and so is every percentage; nothing open under Done; supersession pairs tasks one to one;
  reportees are members.
- **Ordering.** A card goes where it was asked to be and the others keep their order.
- **Dependencies.** Nothing depends on itself through others.
- **Authorization and reads.** The layers in front of a task agree with each other and with what readers are
  shown; the reads of a project show one picture; a tree that does not say it was cut is whole.
- **Imports.** A code is one task's for ever; an import puts every row where its codes say, and importing it again
  changes nothing; the tree stays whole.
- **Change requests.** A save writes a row that no other save changed since it was read; each final status
  has its audit entry; a final status is left by reopening only.
- **Schedule calculation.** Early dates are the earliest that keep every dependency; floats are what tasks can
  really move; the critical path hangs together; summaries span their children; calculating again finds the same dates, except where the code loses a part of a day or
  takes a summary's span for its duration.
- **Sync.** An event has its effect once, exactly if its receipt says so, however often it is sent.
- **Documents.** A saved file has its object; a document has one current file; evidence stays.
- **Outbox.** What is marked published was enqueued; what is marked failed was tried as often as promised;
  every event is eventually published or failed, and a published one is handled.
- **Membership.** Who has joined a project can work in it; roles in use are enabled.
- **Configuration.** The four canonical statuses keep their meaning; one active status means done; one default.
- **Sessions.** Ending all sessions ends all sessions; refreshing leaves one per login.

## 2. Modules

| Module | What it is |
|---|---|
| `CanonicalStages` | the four canonical stages and the stage derived from a set of stages (`deriveStage`) |
| `WorkflowDomain` | the pure functions of `workflow-domain.ts` and `checklist-policy.ts`: intents, authorization, capabilities, the active stage of a move |
| `ChecklistWorkflow` | one task with its items, attempts, receipts, assignees and reportee; each service method is one action, since each is one transaction under the workflow lock |
| `ReviewCycle` | the abstract specification: what the life of an item promises (open, review, accepted, delegated to a child task), without people, keys or revisions |
| `ChecklistRefinement`, `ChecklistWorkflowProofs` | proofs about the two above |
| `TaskHierarchy` | the task tree under the rollup, with operations split where the code reads before the lock |
| `Progress` | percentages of tasks, and the operations that recalculate them or do not |
| `HierarchyProofs` | proofs about the two above |
| `Board` | ranks and list positions of tasks and items |
| `Dependencies` | the edges between tasks and between items, with concurrent requests |
| `ScheduleImport` | codes, sheets, the imports and the edits they overlap with |
| `TaskAccess` | the guard of each route, the question of each service, visibility and management of tasks |
| `TaskReads` | what each read selects of a project or of a subtree; extends `TaskAccess` |
| `PlanningProofs` | proofs about `Dependencies`, `ScheduleImport`, `Board`, `TaskAccess` and `TaskReads` |
| `Outbox`, `OutboxProofs` | the transactional outbox, its flushes, crashes and the external queue |
| `ChangeRequests`, `ChangeRequestProofs` | one change request under concurrent requests, with the two halves of a TypeORM save |
| `ScheduleCalculation`, `ScheduleCalculationProofs` | the critical-path calculation, one action per turn of a loop, and repeated calculations |
| `ScheduleReference` | what the early dates are without an algorithm: the longest chain of dependencies that ends at a task |
| `Invitations` | invitations, memberships and project roles, with concurrent requests |
| `ProjectConfig` | the configuration of one project, and its creation in separate transactions |
| `Sessions` | one user's row and sessions, write by write |
| `FieldReports` | batches of events from devices, receipts, forms that do not take the lock |
| `Documents` | documents, attachments and the objects in the store |
| `AccessProofs` | proofs about the five modules above |
| `MC*` | values of the constants and symmetry sets for TLC |

`MCChecklistItems` looks at the items of a task from two sides, work and people, one in each behaviour. Three MC modules
compose several components. `MCTaskHierarchy` runs the tree's work, its people and its
progress, `MCPlanning` the board, the links, access, reads and imports, `MCAccess` invitations, configuration,
sessions, field reports and documents. The components of one module share no variable, so the composed
behaviour would only interleave steps that do not see each other; a behaviour picks its component at the start
and stays with it, which checks every component completely and none of the product.

Correspondence with the code:

- **`ChecklistWorkflow`.** `items[i]` is a row of `task_checklist_items` (`status`, `stage`, `completed`,
  `version`, `branched`); `submissions[i]` the rows of its submissions in order of attempt; `receipts` the rows
  under the unique key (item, actor, idempotency key); `taskStage` the stored stage of the task; `task` its
  people. `Execute` is `execute()` from the replay of a receipt through the optimistic revision check, intent,
  authorization, attempt, item and rollup to the new receipt; `Notes` is `notes()`; `AddItem`, `UpdateItem`,
  `BranchItem`, `DeleteItem` the methods of the checklist service; `ChildMoves` what the rollup of a child
  task does to the item branched into it. Evidence files and deliverables are part of a submission; `PermitsUpload` is what
  the documents service asks of an upload to an item, which `canUploadDeliverables` promises. `RemoveReportee` leaves out
  the revision of the task and the receipt it asks for: a stale or repeated request changes nothing.
  Statuses are a set with a canonical stage each, one of them without (a custom status).
- **`TaskHierarchy`.** `own[t]` is the set of stages of a task's checklist items, all that the rollup reads
  of them; `link[t]` the branch link. `Admit`/`Create` and `LoadSupersede`/`Supersede` are the halves of
  `createTask` and `supersedeTask` before and under the lock; everything else reads under the lock and is one
  action. `overwritten` is a history variable: a stale row was written over a changed one.
- **`Progress`.** `work[t]` is a task with its percentage and completion, `point[q]` an item, managed by the
  workflow or ticked. Most operations end in the recalculation of all percentages of the project, deepest
  first; `updateTask` does not, and `skipped` remembers that. `ReportProgress` is the event of a device, which reads and saves under the lock.
- **`Board`.** Ranks are numbers below `RankLimit`; `Placed` is the placement with its rebalancing, `Reordered`
  the renumbering of a list. Every operation that creates, moves or imports a card is an action.
- **`Dependencies`.** `dependency` is the table by row id. `AddDependency`, `LoadDependency`, `RecheckDependency`
  and `ReplaceDependencies` are what handlers do up to the check for a cycle, `SaveDependencies` the save; what
  others change in between makes the handler's check `fresh = FALSE`, and a save on such a check sets `outrun`.
  `Reaches` says in terms of closed sets what the search of the code visits.
- **`ScheduleImport`.** A sheet is a set of rows that name a code for each level; `node[t]` is a task with its code and
  parent, `reserved` the table of codes. `LoadSheet` is the validation and the look-up before the transaction,
  `SaveSheet` the transaction, which saves the tasks as they were found; `BeginUpdate` and `FinishUpdate` the
  load and the save of an update under the lock, likewise for deletions. `crossed` says that an import was saved
  after others had changed what it found, or between the two halves of an edit. Codes are sequences of numbers.
  `normalizeCode()` drops one last 0, and is applied again to a code that is reserved; `ImportAssumption` leaves
  out the codes for which that makes a difference (see the divergences).
- **`TaskAccess`.** `job[j]` is the row of a task with its people. `GuardPasses` is the guard of a route with the
  permission it names, `GatePasses` what the service asks; each kind of request is a pair of the two
  (`OfTasks`, `OfPermissions`), row by row in `Routes` and `Gates`. `office[u]` is the role an active member of the workspace has
  there: the guard takes its permissions, or that it is the administrator's, whatever its status; the services ask for an
  enabled administrator (`CanViewAll`). `InScope` is the recursive query of the lists, `CanView` the walk from one task.
- **`TaskReads`.** One definition per read, from the conditions of its own query and its own traversal. A loop over
  levels is a function of the level; `Pass` is one pass of the loop of `getTaskTree()`, with the limit on the
  number of nodes, and `TimelinePass` one of the timeline's, which stops after the level that brings it to `MaxTimeline`
  tasks (1000) and then says that it was truncated. The walks of the mindmap, of the impact map and of the documents are recursive functions.
- **`Outbox`.** `row[e]` is the outbox row of an event, with `open` for a row in a transaction that has not
  committed; `jobs`, `dead` and `handled` the Bull queue (external, modelled from the options `add()` is
  called with); `copy` and `todo` the batch in the memory of a flush. A crash empties the memory and loses
  nothing else.
- **`ChangeRequests`.** A call loads the request with its relations and checks it (`Create` ... `Resolve`),
  then, in its transaction, TypeORM's `save` re-reads the row (`Reload`) and writes the differences (`Commit`).
  `Linked` is TypeORM's rule that a loaded relation wins over the column beside it. `Grown` is a consequence
  of the same reload: a save that finds reviews or audit entries it does not hold detaches them, which the
  NOT NULL columns refuse, and the transaction rolls back. It is an accidental version check, and the reason
  why most of the races of this component end in an error and not in a lost update.
- **`ScheduleCalculation`.** The constant `Projects` holds what the database may contain before the first
  calculation; `Init` builds the nodes (`buildNodes()`). `Forward(t)` is one turn of `forwardPass()`, enabled in
  any order that `sortGraph()` may find; `FailOnCycle` its exception; `TurnBack` and `Backward(t)` are
  `backwardPass()`, `ComputeFloats(t)` and `RollUp(t)` the two loops after it, `Persist` the save. `Recalculate`
  starts again from the saved rows, for nothing of a calculation survives but those. The least and the greatest
  of a set of dates are chosen by `\E`, not computed, which keeps them in the prover's reach. Offsets, durations and
  lags are counted in parts of a working day, `Day` of them to a day (the code keeps two decimals). A date is a
  whole number of days: `OnDate` is what `offsetToWorkingDate()` and, in the next calculation, `workingDateToOffset()` make of
  an offset, as long as the calendar and the project's start stay. `Persist` saves the planned dates that way, and
  `cut` remembers the calculations in which a date the next one reads (that of a task scheduled by hand) lost
  a part of a day. `EPSILON` is left out, being smaller than any difference there can be.
- **`Invitations`, `ProjectConfig`, `Sessions`.** `call`, `edit` and `handler` hold what a request has loaded and
  will write; a request is one action up to its last check and one for each later write. TypeORM's save
  writes the columns in which the loaded copy differs from the row as it is then. `overtaken`,
  `editOvertaken` and `disturbed` are history variables: a handler wrote after others changed what it had
  loaded, or, in `Sessions` and in the creation of a project, was cut short.
- **`FieldReports`.** `receipt` is the table of sync events under their unique key; an event's turn is its own
  transaction with a savepoint, a batch ends at the first exception. `told` is what a device has learnt,
  `applied` counts effects, `Alike` is what makes an event sent again the same one (task, type, payload and actor, not its time); `late` and `stale` remember that an older report arrived after a newer one, and that a
  form or an edit saved over what it had not seen.
- **`Documents`.** `saving` is a request between its upload and its commit, `stored` the objects; `Undone` and
  `NotUndone` are the cleanup after a refused commit, `CommitUnanswered` a commit whose answer is lost.

## 3. Runs

Deadlock is checked except where the system may stop (a resolved change request, an outbox whose events
have all been handled, bounds that are reached, the last calculation of a schedule).

| Run | Instance | What it shows |
|---|---|---|
| `checklist_review` | one item, two keys, an assignee, who may leave and come back, and a reportee, revisions to 6, one note | the review cycle with retries, late decisions, withdrawals and notes; the refinement of `ReviewCycle` |
| `checklist_items` | two items, one key, one team and reportee that stay; or one item, three users, changing teams, leaving and joining, every spelling of a command | stages, completion, derived status of the task; capabilities, uploads and the right to decide |
| `hierarchy` | three tasks with work of their own; the same with two users, one request between its reads and the lock and one task deleted; three tasks with an item, percentages 0, 50, 100 and one request between its reads and its transaction | the rollup never aborts, derived stages, nothing open under Done, no orphans, offboarding against ownership, one-to-one supersession; percentages are what work, packages and subtasks make them |
| `hierarchy_overwritten` | three tasks, supersession without the restriction to fresh rows | violation: open work gets under Done, which the workflow document excludes |
| `progress_derived` | as `hierarchy`, progress only | violation: `updateTask` saves a percentage and leaves those above as they were |
| `outbox` | two events, two flushes, batch of one, two retries, one crash or requeue | the meaning of PUBLISHED and FAILED; every event leaves PENDING; what is published is handled |
| `change_requests` | two concurrent callers, two users, four audit entries, one reorganisation | fresh saves, decisions on record |
| `schedule` | three tasks, three calculations, days of two halves; dependencies of all types with leads and lags (any one with dates given by hand, any two, any three from finish to start), every forest of summaries with any one, parts of days in durations | both passes against the longest chain, floats, critical path, summaries; stability from the second calculation on |
| `schedule_rerun` | three tasks without summaries, two calculations, a start by hand and half a day | violation: the half day is lost to the saved date, so a second calculation finds other dates, against "Calculation can be re-run safely" |
| `planning` | board: three items, three tasks, two columns, ranks below 7 in steps of 2; links: three nodes, three rows, two requests; access and reads: three jobs, two people, three kinds of workspace roles (an administrator, enabled or not, and a member with some permissions) for one who is not a member of the project or may only create there, one change, trees cut at two levels and two nodes, timelines at three tasks; imports: five tasks, eight sheets of five codes, two importers, three requests | placement, cycles, layers of authorization, agreement of the reads, imports against each other and against edits |
| `access` | invitations: two clients, two invitations, four requests; configuration: two clients, three requests; sessions: two requests at a time, two sessions, four requests; reports: three events and a form, two devices, three batches of at most two, one change of access; documents: two of them, two files, one revision, one request at a time | membership, roles, configuration, sessions, receipts, stored objects |
| `sync_retry` | as `access`, reports only | violation: an event refused before its task was found is taken for another one when it is sent again |

Why these bounds are enough. Revisions: 6 is a submission, a return, a second submission and a decision,
with an edit in between, so that an old revision, an old attempt and a retry all meet a newer attempt; 3 is a
submission with its decision after a move. Tasks: three are a chain, or two siblings under a parent; the
rollup treats every level alike. Two flushes and two clients are the shortest race, and the code has no
step that waits for a third. Two retries distinguish the first failure, a further one and the last. Audit
entries: four are create, assign, decide or escalate, resolve, with a reopening in place of one of them.
Three tasks make a chain, a fork, a join, a cycle, and a summary with a nested one; each step of the
calculation looks at one task and its neighbours, and the proofs below cover the rest. Three calculations
are one that may cut dates, one that starts from what was cut, and one that starts from rows that no longer
change; halves are the least that makes a part of a day. Ranks below 7 in steps of 2 hold three cards
with no gap and run out at the fourth, as ten digits do after very many; a card is placed between two others, and
a third shows whether the order is kept. Three rows are a cycle of three or two opposite edges and a third. Three
jobs are a chain, whose middle is hidden, replaced or deleted; two levels and two nodes cut it in every place;
the reads are asked of every such project and of each that requests leave.
Three requests of imports are two sheets that cross an edit or each other; the sheets have one code in two places,
on two levels, a tree turned around, and both kinds. Requests: four are two that race, one that made what they race about and one after them. Three batches
are an event sent, repeated, and overtaken by another; batches of two have an event after the one that ends them.

In the `people` part of `hierarchy` no step follows a state where a stale row has been written over a changed one, and
one request at a time is between its reads and the lock (`PeopleStep`); the properties named `...IfFresh` say the same in their text.
The code reaches such states (`hierarchy_overwritten` shows how), and hardly anything holds of them; what is
claimed is that nothing else breaks the tree.

**What the histories excuse.** Several services check and save without a lock or a version. Where such a race is lost the
code has no property left to claim, so the model runs into it, remembers it (`overwritten`, `outrun`, `crossed`, `overtaken`,
`editOvertaken`, `disturbed`, `late`, `stale`) and claims nothing more of what it touches. What the properties with such a premise
cover is therefore not the race: it is the protocol of the requests one after the other, with loads that wait while unrelated requests run,
and, where the text of a property says so, a part that is claimed without the premise (the codes of imports, the
canonical statuses, who may enter a workspace, receipts against effects). The races themselves, all open in the code:
two overlapping supersessions of one task; opposite dependencies added at once; a comment edited while it is removed, or a form
about a location saved over a newer report; a login that overlaps the end of all sessions, or one refresh token presented twice at
the same time; a role disabled between the look of an invitation at it and its save; two updates of a default at once; a change request
escalated between the re-reading and the update of a decision; a project whose creation ends before its configuration.
`PROJECT.json` says so at each of these hazards.

Divergences met while modelling that have no run of their own.

Tasks and checklists:

- `supersedeTask` does its one-to-one checks before the lock, so two concurrent requests pair one task twice
  (`tasks/services/task-crud.service.ts:1314`, against `messages/error.ts:28-29`); the replacement's own replacement is not
  checked, so that two tasks can supersede each other.
- `createTask` verifies the membership of its user before it waits for the lock; a user offboarded in between
  becomes the reportee of the new task (`task-crud.service.ts:168`).
- `docs/task-status-progress-backend-implementation-plan.md:319` says never to save a rolled-up percentage;
  the recalculation saves all of them. A percentage reported for a leaf managed by packages is answered as
  the new one, though the recalculation in the same transaction overrides it.
- Some routes authorize with the row as it was before the lock; what was read may be changed until the save.
- The first item that is moved after an item without a rank stands before it, against `tasks/dtos/move-checklist-item.dto.ts:40`.
  With only `afterItemId` an item stands somewhere after it, not directly; with only `beforeItemId` it may tie with
  its predecessor. Ranks given by a request sort as strings of any width and are computed with as numbers, and one
  near `zzzzzzzzzz` leaves no room behind it. `PlacedAsAsked` claims what remains.

Access and reads:

- Who created a task and handed it to another reportee does not see it (`task-auth.service.ts:728`), although the
  creator is granted that in `projects/types/project-permission-matrix.type.ts:11`.
- The guard ignores whether a role is enabled, the service does not; an administrator of the workspace passes the guard, but the
  services ask for an active membership; a permission to view is not asked of active members. Progress, bulk,
  supersession and schedule routes ask for `update` at the guard, and the service for ownership only.
  A reviewer may be listed a change request of a task that does not open for him.
- The gantt of a superseded task is empty where its tree and dashboard show it; the mind map has edges of branched
  items to tasks it does not show; `truncated` is set on trees that end exactly at a limit; the documents of
  a subtree include tasks below superseded or hidden ones; `childCount` counts hidden children.

Change requests and schedule:

- An escalation or the assignment of a first review that re-read the row before a final decision was committed
  writes over it (`task-change-requests.service.ts:912`), although only a reopening may; this is why
  `FinalIsLeftByReopenIfFresh` speaks of saves that were not overtaken.
- A second escalation leaves `escalatedToUserId` as the first one set it, because the loaded relation wins
  (`:911`); reopening accepts requests that were never decided (`:816`) and keeps the user who resolved; two requests of
  one reviewer decide one review twice (`:655`).
- A lead lets its predecessor end after the project, and then nothing is critical
  (`docs/activity-schedule-automation-implementation-plan.md:600`). A summary's span, saved as its duration,
  lengthens the project next time, if something depends on it or it on something. A summary's dates are those of its children, set after the passes: a dependency
  on a summary, or of one, may be broken by them (`schedule-calculation.service.ts:796`); `DependenciesKept` is about
  the other tasks. Dates given by hand likewise stay the planned ones when the early dates move past them.
- A task scheduled by hand with one date and a part of a day (2.5 days) gets the other date in whole days, and the next
  calculation takes its duration from the two (`schedule-calculation.service.ts:945`, `:527`): run `schedule_rerun`.
- The FAILED status of a calculation is saved in the transaction its exception rolls back (`:137`).

Imports:

- A cell that ends in `.0.0` gives its task a code that ends in `.0`, which is reserved without it (`task-wbs.service.ts:12`,
  applied by `activity-schedule-import.service.ts:1455` and again by `reserveCode()`). A second import of the sheet finds the task and shortens
  its code, a third does not find it and fails on the reservation; until then an update may give the longer code to another
  task. The model leaves such codes out; a cell with one trailing `.0`, or none, is safe.
- An import saves the tasks as it found them: one that was deleted meanwhile is live again, one that was moved is
  back, and an update or deletion whose checks came before the import is saved over it
  (`activity-schedule-import.service.ts:440`, `:835`). It neither asks whether the tree is open where it writes
  nor rolls up, so work may appear under Done.
- It adds dependencies without a search for cycles and deletes none: two sheets without a cycle may make one, after
  which every calculation of the project fails. `LinksAreSound` is about the other handlers.
- A stage named under two phases silently goes to the last of them; a code used on two levels makes its task a
  task below itself, or, in a WBS sheet, a second schedule for one task, which the database refuses. The
  validation finds neither.
- A sheet whose task was deleted, or given another code, cannot be imported again: its codes are taken for good.

Field, documents, outbox:

- Sync events are applied in the order they arrive, whatever their `occurredAt`. The route's text names checklist toggles, which it
  refuses.
- A starter may be made from an attachment that has been replaced meanwhile; an update that only brings a file
  does not raise the document's version if its user does not change.
- A flush repeated after a crash, or one that overlaps another, adds an event a second time, since the job id
  of a completed job is free again (`removeOnComplete`): it is handled twice, which
  `outbox/outbox.service.ts:111` means to prevent.

**Fairness.** Only the outbox has any: a repeatable job flushes every few seconds, and Bull runs the jobs it
holds, so `Flush(f)` and `Consume(e)` are weakly fair. Nothing is assumed of transactions, crashes,
pruning or requeueing; crashes are bounded, since a process that always dies makes no progress. The other
components are driven by users, who owe the system no step.

## 4. Proofs

Assumptions are those of the modules, named and evaluated by TLC in the runs. They describe kinds of values
(`UsersAssumption`, `CanonicalMapping`, `ConfigAssumption`, ...), not sizes, with four exceptions. The events of the
outbox, the cards of a board, and the tasks and items of a project are finitely many (`WorksAssumption`,
`AccessAssumption`, `ImportAssumption`, where the ids of tasks are numbers, so that the next free one is defined). The ranks of a board leave room for a step between any
two of its cards (`BoardAssumption`: `RankStep * Cardinality(Tasks) < RankLimit`, in the code 1024 times the cards of a
column against 36^10), without which no renumbering could keep an order. A task depends on another once at most
(`LinksAssumption`, a constraint of the table `task_dependencies`). And whoever is a
member of a project at the start has a role there and is a member of its workspace (`MembershipsAssumption`).

- **Checklist workflow.** The inductive invariant `IInv` is the type invariant, `Consistent` for each item (status
  and stage agree; under review exactly with one active attempt, the last one; done by acceptance or through
  a child task), `Blank` for items not present, and the derived stage of the task. The published invariants
  follow from it; none of them is inductive alone: that an acceptance leaves an accepted attempt needs to know
  that the item under review had an active one. `DoneIsTerminal` and `HistoryIsKept` follow as action properties.
- **Commands and capabilities.** `CommandsCountOnce` needs that receipts, versions and attempts grow together: a
  receipt is never for a revision that is still to come, and a new attempt or decision writes the one receipt of
  its number. `RetryIsAnswered` needs only that one key of one actor has one receipt at an item, and that the fields of a hash
  determine how it may be spelled. `CapabilitiesAreHonest` is a fact about every state: it compares two
  definitions of the code (`checklistCapabilities()`, and `authorizeTransition()` with what surrounds it, or the documents service for
  uploads) status by status, and presupposes `Consistent` where one asks for the status and the other for the attempt.
- **Refinement.** `ChecklistRefinement` proves that every step of `ChecklistWorkflow` is a step of `ReviewCycle` or a
  stutter, under the map `PhaseOf`, so `ImplementsReviewCycle` holds for any number of items, users and keys.
- **Outbox.** `PublishedWasEnqueued` and `FailedAfterRetries` are about rows, but a flush works on copies: the
  invariant relates each copy to the queue and to the count it was read with.
- **Change requests.** `SavesAreFresh` needs an invariant about each call: what it has seen and counted is never
  ahead of the database, and when it is level with it the row is the one it read. `DecisionIsOnRecord`,
  `NewIsUnreviewed` and `FinalIsLeftByReopenIfFresh` follow from the same invariant.
- **Schedule calculation.** For any number of tasks, any dependencies (cycles included) and any dates:
  `TypeOK`, `DependenciesKept`, `FloatsAreCoherent`, `CriticalPathHolds` and
  `SummarySpansChildren`. The inductive invariant follows the passes. Forwards, the visited tasks are closed under
  predecessors and keep their dependencies; a driver is a predecessor whose dependency has no slack.
  Backwards, they are closed under successors, start no earlier than they can, and one dependency of each, if
  it has any, has no slack either: from it the total float bounds the free float. A critical task
  and a driver without slack force the driver's float to 0. A summary's children are final when it is rolled
  up, because those that are summaries came before. That the early starts are those of the longest chains
  (`EarliestIsAlwaysLongestChain`) has two halves. No chain is longer: along it each dependency is kept, and the
  first task of it that started sooner than the chain lets it would break one (`NoChainIsLonger`). And one is as
  long: `ChainInv` says that a visited task is the end of a chain through visited tasks, each once, that gives it
  just its start (`LongerReaches`); such a chain is no longer than there are tasks, so it is one of the reference's.
- **Dependencies.** `LinksAreSound` for any number of tasks, items, rows and requests, without paths: if u
  does not reach t, a set closed under the edges holds u and not t, and so a sink of that part of a set of nodes
  is a sink of the whole, whatever new edges start at t (`SafeEdges`). The invariant `LinksInv` says of each handler that has passed
  its check, and under whom nothing has changed, that the table is without cycles also after its save; a save
  outdates the others. Items need none of it, since their check and save are one step
  (`PointsAreAcyclicAlways`).
- **Imports.** `ImportsAreFaithful` and `ReservationsStay`, for any sheets, codes and number of imports. For the codes
  (`CodesArePermanent`): the code of every task is reserved, and for it; an import saves tasks as it found
  them, perhaps long ago, but throws if a code it writes is another task's, so its new rows agree with the
  reservations, and so do the rows it leaves alone. For the tree (`TreeStaysWhole`) the invariant `SheetsInv` relates
  what waits to what is saved: what a fresh import has found is live, and an edit whose second half is due still fits
  the tree. That no task is below itself is again said by closed sets (`Cut`); an import keeps it since each
  code of a sheet is on one level and its parent on the level before (`SheetHasNoLoops`). For the placement
  (`LastImportIsInPlace`): the new tasks are assigned by the sort order of their codes, which is a strict order
  (`CodesAreSorted`), so no two codes get one task (`AssignedIs`); from the saved rows (`InPlace`) and the
  reservations, the next import finds just these tasks, and writes what is there (`InPlaceIsStable`).
- **Hierarchy.** For any number of tasks and users, all that the run `hierarchy` checks of the tree and its people: `TreeIsSound`,
  `StatusIsDerived`, `NoOpenWorkUnderDoneIfFresh`, `SupersessionIsOneToOneIfFresh`, `DoneIsTerminal`, `ReporteeIsKept`.
  Trees are without recursion: what is below a task is what every set closed under children holds, and a tree is acyclic if each nonempty set
  of tasks has one whose parent is outside. A move makes no cycle because the part of it outside the
  moved subtree would have been one before. The rollup of the model fixes the new stages as the ones that agree with each other, so
  `RolledUp` says at once what it leaves. A completed task is the exception: the rollup keeps its stage whatever is below.
  That this is the lowest stage of its work still, is why `HierarchyInv` comes with `KeepsDone`: no step
  takes anything from a completed task or puts anything below it. Two halves of a supersession keep
  what the first one read (`PairsAreUnpaired`).
- **Progress.** `ProgressIsAlwaysSound`, for any finite project. The recalculation is recursive in the model as in the code: whether a
  task is finished and what its percentage is are functions of the same for the tasks below. That such functions
  exist and do what their equations say (`FinishedTurns`, `ValuesTurn`) is proved by a smallest counterexample: of the sets of
  tasks that remain when as many as possible have a value, a nonempty one would have a task without one of them below it.
  The mean is a fold over a finite set, and only its value for hundreds is needed, by a smallest counterexample again (`TotalOfHundreds`). The
  invariant `ProgressInv` is that the rows are a tree, that items that were branched are tasks below theirs, and that
  what is below a completed task is completed. `RecalculationIsSound` says that from such rows, whatever their
  percentages, a recalculation leaves the invariant and `ProgressIsSound`; every operation then only has to write
  such rows (`RowAdded`, `RowsRemoved`, `RowMoved`, `ProgressGiven`). `updateTask`, the one that does not recalculate, keeps `DoneIsFull`,
  since it refuses a completed task anything but 100.
- **Board.** `PlacedAsAsked` for any number of cards and columns. The proof is about finite strict orders: ranks,
  with the number of creation for ties, order the cards of a column (`BoardInv`: no two cards were created as the same); the place of
  a card is the number of those before it, so a renumbering by places preserves every order, and a midpoint
  that lies strictly between two ranks is between their cards. What has to be shown is that when there is no such
  midpoint, the code renumbers, and that the ranks then suffice.
- **Access.** `AccessIsCoherent` for any finite project, any members and any requests. The walk to the root and the recursive query of
  the lists are both recursive functions; each is shown to yield the least set that holds the task and
  the live parents of what it holds (`WalkReachesAbove`, `QueryFindsAbove`), again by a smallest counterexample: of the sets of tasks
  still to be seen from which the walk goes wrong, a smallest one is left by a step that does not. So lists and
  reads agree, and management reaches down because what is above a task above is above. Guards and services are compared row by row
  (`RoutesAreRight`, `GatesAreRight`). All that is needed of a state is that tasks have ids of the project.
- **Reads.** `ReadsAgree`, for any project, members and requests, any greatest depth and any limits. The
  invariant `AccessInv` is the types and that live tasks are trees (`TreeIn`): the parent of a live task is live, and of any
  tasks one has its parent outside. A deletion keeps it because it takes all that is below; a move, because of
  tasks whose parents are all among them, those above the new parent would have been such before (`TreeMoves`). In
  trees a task is one generation after its parent (`GenerationsAre`), so what a traversal by levels finds can be said without it:
  the tasks below the root such that all between are among the rows asked for (`Under`), level n those n generations below
  (`LevelsAre`). `LevelsFind` shows it of the loops, `PassKeeps` of the tree with its limit: while nothing is
  cut the tree has all levels so far, and with more room than tasks nothing is cut; the timeline, whose stop comes after a
  whole level, likewise (`TimelinePass`). The walks that add until nothing is new
  find a least closed set (`WalksFind`), which for the documents is the branch and for the two maps what no folded task hides.
- **Memberships.** `EntryIsGranted` survives any overlap of handlers because a handler that has loaded an
  invitation or a membership saves a row of the same user and scope, only an acceptance makes a row accepted, and what was
  found active still is (`Loaded`). `RolesInUseAreEnabledIfFresh` adds that, while nobody was overtaken, what a handler
  checked of a role still holds (`Checked`).
- **Configuration.** The canonical statuses keep their meaning always, even though rows are saved late: an edit of one neither
  removes it nor holds other values for its canonical columns (`EditOfStage`). One active done status and one default: an edit that
  nobody overtook still finds what it checked (`EditFinds`); between clearing the old default and saving the new one there
  is none.
- **Sessions.** A request is what it has yet to write, one of few lists (`Plans`). Undisturbed, one that will issue a
  session knows its login not ended and no session of it alive but the one it revokes first (`Expects`).
- **Sync.** The lock is held for one event at a time, and that event has no receipt; from this, each effect is counted once
  (`EffectsAreCounted`), and what a device has been told stays true, for receipts do not change.
- **Documents.** A request owns the object it has uploaded: stored, in no row, and no other request's
  (`Owned`). So a row never gets an object twice, the cleanup of a refused save deletes nothing that a row needs, and
  what it leaves behind is accounted for.
- **A further calculation.** `RerunIsStable` is about two runs of different order. `RerunInv` says that the dates of the earlier
  run settle every task: each is the latest, or earliest, that its dependencies ask for, and one of
  them asks for exactly that. A task visited by the later run gets its date from tasks visited before, which
  agree by then; so no order and no induction over paths is needed. Durations are those of the saved rows if no date was cut,
  and `CutOnce` is why only the first run cuts any: the dates it leaves a task scheduled by hand are whole, and so is the
  duration between them. Where there are summaries but no dependency touches one, the forward half of this still holds, for what
  is saved over a summary reaches no other task; the backward half needs the project's end, which a summary takes part in.

Only model-checked, with the reason:

- `TypeOK` of the modules whose runs do not check it, beyond what the invariants above contain.
- Liveness (`EventuallyDrained` and `PublishedIsHandled` of the outbox), since neither fairness nor `ENABLED` is in the prover's reach.

The statements that runs refute are of course not proved.

## 5. Not modelled, and the plan

Pure I/O and parts without a protocol stay out: mail, interceptors, search, the audit log,
notifications, reports and their imports, materials and resources, creating workspaces and templates,
profiles, filters, pages and figures of the reads, migrations as such (their constraints and triggers are
modelled where they act). Of the modelled components, `PROJECT.json` says what is left out. What could still
be modelled, and proved:

1. The schedule import together with the rollup: its effect on stages and percentages, which it does not
   recalculate.
2. The calculation of projects with packaged checklists (`calculateChecklistGraph()`), and edits between two
   calculations.
3. The wait of everyone on everyone: authorization inside a transaction reads through a second pooled connection, so as
   many transactions as the pool has connections wait for each other. It takes one step per query.
