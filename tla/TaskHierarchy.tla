--------------------------- MODULE TaskHierarchy ---------------------------
(***************************************************************************)
(* The task tree of one project: who is whose parent, the status each task *)
(* derives from the work below it, and the operations that change the tree.*)
(*   src/src/tasks/services/task-crud.service.ts                           *)
(*   src/src/tasks/workflow/workflow-domain.ts                             *)
(* Operations that re-read what they decide on under the project's lock    *)
(* are one action.  createTask() and supersedeTask() read before they take *)
(* the lock: their two halves are two actions, and others run in between.  *)
(* A task's own unbranched checklist is the set of stages its items are at;*)
(* ChecklistWorkflow models the items one by one.                          *)
(***************************************************************************)
EXTENDS CanonicalStages, FiniteSets

CONSTANTS
    Tasks, NoTask, Users, NoUser,
    WorkStages,         \* bound: the stages own work goes through
    MaxOwn,             \* bound: different stages in one task's own work
    MaxAdmitted,        \* bound: creations between their checks and the lock
    MaxLoaded           \* bound: supersessions between their reads and the lock

ASSUME TasksAssumption == NoTask \notin Tasks /\ NoUser \notin Users

ASSUME HierarchyBounds ==
    /\ WorkStages \subseteq Stages
    /\ MaxOwn \in Nat /\ MaxAdmitted \in Nat /\ MaxLoaded \in Nat

VARIABLES
    live, deleted,      \* task rows with and without deletedAt null
    parent,             \* parentTaskId
    stage,              \* canonical stage of the status; DONE = completed
    reportee,
    supersededBy, supersedes,
    own,                \* stages of the task's own unbranched items
    link,               \* the task that owns the source item branched to it
    members,            \* users with an active membership
    admitted,           \* createTask() calls that passed their early checks
    loaded,             \* supersedeTask() calls with the rows they read
    overwritten         \* a row was saved over newer values of it

rows == <<parent, stage, reportee, supersededBy, supersedes>>
pending == <<admitted, loaded>>
vars == <<live, deleted, rows, own, link, members, pending, overwritten>>

ParentOf == Tasks \cup {NoTask}

-----------------------------------------------------------------------------
(***************************************************************************)
(* The tree, read upwards and downwards.                                   *)
(***************************************************************************)
Children(t) == {c \in live : parent[c] = t}

\* t and everything reached from it by parentTaskId.
Chain(t) ==
    {a \in Tasks : \A S \in SUBSET Tasks :
        t \in S /\ (\A s \in S : parent[s] \in Tasks => parent[s] \in S) => a \in S}

\* t and the live tasks below it, as assertNotDescendant() and deleteTask()
\* collect them.
Subtree(t) ==
    {d \in Tasks : \A S \in SUBSET Tasks :
        t \in S /\ (\A c \in live : parent[c] \in S => c \in S) => d \in S}

\* Mutant of the next: completed tasks are not refused.
assertOpenHierarchy_AnyStage(t) == t # NoTask => \A a \in Chain(t) : a \in live

\* assertOpenHierarchy(): every task up to a root exists and is open.
assertOpenHierarchy(t) ==
    t # NoTask =>
        /\ t \in Tasks
        /\ \A a \in Chain(t) : a \in live /\ stage[a] # DONE
        /\ \E a \in Chain(t) : parent[a] = NoTask

\* canManageTaskOwnedChecklist(), for some active member.
Managed(t) == t \in live /\ {reportee[a] : a \in Chain(t) \cap live} \cap members # {}

-----------------------------------------------------------------------------
(***************************************************************************)
(* rollupStatuses(), on the tree lv, par with branch sources lnk.  It      *)
(* aborts the transaction on a cycle or a branch source whose task is not  *)
(* the child it should be; otherwise every task that is not completed gets *)
(* the lowest stage of its work.                                           *)
(***************************************************************************)
Acyclic(lv, par) ==
    \A C \in SUBSET lv : C # {} => ~\A c \in C : par[c] \in C

LinksValid(lv, par, lnk) ==
    \A t \in Tasks : lnk[t] \in lv => t \in lv /\ par[t] = lnk[t]

Work(t, lv, par, ow, st) == ow[t] \cup {st[c] : c \in {x \in lv : par[x] = t}}

\* Mutant of the next: children count with the status they had before.
Visited_Before(t, lv, par, ow, before, after) ==
    after[t] = IF before[t] = DONE THEN DONE
               ELSE reduceStages(Work(t, lv, par, ow, before))

\* What visit() leaves a live task at.
Visited(t, lv, par, ow, before, after) ==
    after[t] = IF before[t] = DONE THEN DONE
               ELSE reduceStages(Work(t, lv, par, ow, after))

\* Every stage in play: the lowest stage of some work is one of them.
StagesAround(ow, before) ==
    {TODO} \cup (UNION {ow[t] : t \in Tasks}) \cup {before[t] : t \in Tasks}

Rollup(lv, par, lnk, ow, before) ==
    /\ Acyclic(lv, par)
    /\ LinksValid(lv, par, lnk)
    /\ stage' \in {after \in [Tasks -> StagesAround(ow, before)] :
                     \A t \in Tasks :
                        IF t \in lv THEN Visited(t, lv, par, ow, before, after)
                        ELSE after[t] = before[t]}

-----------------------------------------------------------------------------
(***************************************************************************)
(* createTask(): the checks of membership and parent come before the lock, *)
(* only the parent is checked again under it.  A task with a parent gets a *)
(* source item on it.                                                      *)
(***************************************************************************)
Admit(u, p) ==
    /\ Cardinality(admitted) < MaxAdmitted
    /\ u \in members
    /\ p # NoTask => p \in live /\ stage[p] # DONE
    /\ admitted' = admitted \cup {[user |-> u, parent |-> p]}
    /\ UNCHANGED <<live, deleted, rows, own, link, members, loaded, overwritten>>

\* A new task has no items, or some that all start Todo.
FirstWork == {{}} \cup {w \in {{TODO}} : MaxOwn > 0 /\ w \subseteq WorkStages}

\* The rows a new task t of user u under p is made of.
Insert(t, u, p) ==
    /\ t \in Tasks \ (live \cup deleted)
    /\ live' = live \cup {t}
    /\ parent' = [parent EXCEPT ![t] = p]
    /\ reportee' = [reportee EXCEPT ![t] = u]
    /\ link' = [link EXCEPT ![t] = p]
    /\ UNCHANGED <<deleted, supersededBy, supersedes, members, loaded, overwritten>>

Create(r, t) ==
    /\ assertOpenHierarchy(r.parent)
    /\ Insert(t, r.user, r.parent)
    /\ \E w \in FirstWork : own' = [own EXCEPT ![t] = w]
    /\ Rollup(live', parent', link', own', stage)
    /\ admitted' = admitted \ {r}

\* The request is refused, or fails, after admission.
CreateFails(r) ==
    /\ admitted' = admitted \ {r}
    /\ UNCHANGED <<live, deleted, rows, own, link, members, loaded, overwritten>>

\* branchItem() and task packages with branchFrom: an item of p that is
\* neither under review nor Done becomes the source of a new child.
Branch(u, p, t) ==
    /\ u \in members
    /\ p \in live
    /\ \E s \in own[p] \ {IN_REVIEW, DONE}, w \in FirstWork :
       \E rest \in {own[p], own[p] \ {s}} :
          own' = [own EXCEPT ![p] = rest, ![t] = w]
    /\ assertOpenHierarchy(p)
    /\ Insert(t, u, p)
    /\ Rollup(live', parent', link', own', stage)
    /\ UNCHANGED admitted

-----------------------------------------------------------------------------
(***************************************************************************)
(* bulkUpdateTasks(parentTaskId): a task moves under q, or becomes a root. *)
(***************************************************************************)
\* Mutant of the next: a move may end below the task itself.
NotDescendant_Unchecked(t, q) == q # t

\* assertNotDescendant().
NotDescendant(t, q) == q \notin Subtree(t)

MayMove(t, q) ==
    /\ link[t] = NoTask
    /\ Managed(t)
    /\ assertOpenHierarchy(t)
    /\ assertOpenHierarchy(q)
    /\ NotDescendant(t, q)

Reparent(t, q) ==
    /\ MayMove(t, q)
    /\ parent' = [parent EXCEPT ![t] = q]
    /\ Rollup(live, parent', link, own, stage)
    /\ UNCHANGED <<live, deleted, reportee, supersededBy, supersedes, own, link, members,
                   pending, overwritten>>

(***************************************************************************)
(* deleteTask(): the whole subtree goes, unless part of it is completed or *)
(* the task was branched from an item of another.                          *)
(***************************************************************************)
Deletable(t) == link[t] = NoTask /\ \A d \in Subtree(t) : stage[d] # DONE

MayDelete(t) == Deletable(t) /\ Managed(t) /\ assertOpenHierarchy(t)

Delete(t) ==
    /\ MayDelete(t)
    /\ live' = live \ Subtree(t)
    /\ deleted' = deleted \cup Subtree(t)
    /\ Rollup(live', parent, link, own, stage)
    /\ UNCHANGED <<parent, reportee, supersededBy, supersedes, own, link, members, pending,
                   overwritten>>

(***************************************************************************)
(* Own work.  addItem() and deleteItem() need an open hierarchy, execute() *)
(* a task neither completed nor superseded; Done is reached from review,   *)
(* and never left.                                                         *)
(***************************************************************************)
SetOwn(t, w) ==
    /\ w \subseteq WorkStages
    /\ Cardinality(w) <= MaxOwn
    /\ own' = [own EXCEPT ![t] = w]
    /\ Rollup(live, parent, link, own', stage)
    /\ UNCHANGED <<live, deleted, parent, reportee, supersededBy, supersedes, link, members,
                   pending, overwritten>>

AddWork(t) ==
    /\ Managed(t)
    /\ assertOpenHierarchy(t)
    /\ SetOwn(t, own[t] \cup {TODO})

RemoveWork(t) ==
    /\ Managed(t)
    /\ assertOpenHierarchy(t)
    /\ \E s \in own[t] \ {DONE} : SetOwn(t, own[t] \ {s})

\* One of the items at a stage moves to another, perhaps the last one there.
AdvanceWork(t) ==
    /\ t \in live
    /\ supersededBy[t] = NoTask
    /\ stage[t] # DONE
    /\ \E s \in own[t] \ {DONE}, to \in WorkStages :
          /\ to = DONE => s = IN_REVIEW
          /\ \E rest \in {own[t], own[t] \ {s}} : SetOwn(t, rest \cup {to})

(***************************************************************************)
(* supersedeTask(): both rows are read before the lock and saved under it; *)
(* columns whose value read differs from the row's are written back.       *)
(***************************************************************************)
Row(t) == [parent |-> parent[t], stage |-> stage[t], reportee |-> reportee[t],
           supersededBy |-> supersededBy[t], supersedes |-> supersedes[t]]

\* Mutant of the next: a task may replace several.
Unpaired_Replacement(old, new) == supersededBy[old] = NoTask

Unpaired(old, new) == supersededBy[old] = NoTask /\ supersedes[new] = NoTask

LoadSupersede(old, new) ==
    /\ Cardinality(loaded) < MaxLoaded
    /\ old # new
    /\ old \in live /\ new \in live
    /\ Unpaired(old, new)
    /\ loaded' = loaded \cup {[old |-> old, new |-> new, oldRow |-> Row(old), newRow |-> Row(new)]}
    /\ UNCHANGED <<live, deleted, rows, own, link, members, admitted, overwritten>>

Supersede(r) ==
    /\ link[r.old] = NoTask
    /\ Managed(r.old) /\ Managed(r.new)
    /\ assertOpenHierarchy(r.old)
    /\ parent' = [parent EXCEPT ![r.old] = r.oldRow.parent, ![r.new] = r.newRow.parent]
    /\ stage' = [stage EXCEPT ![r.old] = r.oldRow.stage, ![r.new] = r.newRow.stage]
    /\ reportee' = [reportee EXCEPT ![r.old] = r.oldRow.reportee, ![r.new] = r.newRow.reportee]
    /\ supersededBy' = [supersededBy EXCEPT ![r.old] = r.new, ![r.new] = r.newRow.supersededBy]
    /\ supersedes' = [supersedes EXCEPT ![r.old] = r.oldRow.supersedes, ![r.new] = r.old]
    /\ overwritten' = (overwritten \/ Row(r.old) # r.oldRow \/ Row(r.new) # r.newRow)
    /\ loaded' = loaded \ {r}
    /\ UNCHANGED <<live, deleted, own, link, members, admitted>>

SupersedeFails(r) ==
    /\ loaded' = loaded \ {r}
    /\ UNCHANGED <<live, deleted, rows, own, link, members, admitted, overwritten>>

(***************************************************************************)
(* removeReportee() and the project's members.  The trigger that guards    *)
(* reportees sees committed rows only.                                     *)
(***************************************************************************)
\* Mutant of the next: the parent's reportee may have left.
Successor_Anyone(t) == TRUE

Successor(t) == reportee[parent[t]] \in members

RemoveReportee(t) ==
    /\ t \in live
    /\ parent[t] \in live
    /\ Managed(parent[t])
    /\ Successor(t)
    /\ reportee' = [reportee EXCEPT ![t] = reportee[parent[t]]]
    /\ UNCHANGED <<live, deleted, parent, stage, supersededBy, supersedes, own, link, members,
                   pending, overwritten>>

Offboard(u) ==
    /\ u \in members
    /\ \A t \in live : reportee[t] # u
    /\ members' = members \ {u}
    /\ UNCHANGED <<live, deleted, rows, own, link, pending, overwritten>>

Join(u) ==
    /\ u \notin members
    /\ members' = members \cup {u}
    /\ UNCHANGED <<live, deleted, rows, own, link, pending, overwritten>>

-----------------------------------------------------------------------------
\* An empty project.
Init ==
    /\ live = {} /\ deleted = {}
    /\ parent = [t \in Tasks |-> NoTask]
    /\ stage = [t \in Tasks |-> TODO]
    /\ reportee = [t \in Tasks |-> NoUser]
    /\ supersededBy = [t \in Tasks |-> NoTask]
    /\ supersedes = [t \in Tasks |-> NoTask]
    /\ own = [t \in Tasks |-> {}]
    /\ link = [t \in Tasks |-> NoTask]
    /\ members = Users
    /\ admitted = {} /\ loaded = {}
    /\ overwritten = FALSE

Structure ==
    \/ \E u \in Users, p \in ParentOf : Admit(u, p)
    \/ \E r \in admitted : CreateFails(r) \/ \E t \in Tasks : Create(r, t)
    \/ \E u \in Users, p, t \in Tasks : Branch(u, p, t)
    \/ \E t \in Tasks, q \in ParentOf : Reparent(t, q)
    \/ \E t \in Tasks : Delete(t)

OwnWork == \E t \in Tasks : AddWork(t) \/ RemoveWork(t) \/ AdvanceWork(t)

Ownership ==
    \/ \E old, new \in Tasks : LoadSupersede(old, new)
    \/ \E r \in loaded : Supersede(r) \/ SupersedeFails(r)
    \/ \E t \in Tasks : RemoveReportee(t)
    \/ \E u \in Users : Offboard(u) \/ Join(u)

Next == Structure \/ OwnWork \/ Ownership

Spec == Init /\ [][Next]_vars

-----------------------------------------------------------------------------
(***************************************************************************)
(* Every variable holds a value of its kind.                               *)
(***************************************************************************)
Rows == [parent : ParentOf, stage : Stages, reportee : Users \cup {NoUser},
         supersededBy : ParentOf, supersedes : ParentOf]

TypeOK ==
    /\ live \subseteq Tasks /\ deleted \subseteq Tasks
    /\ parent \in [Tasks -> ParentOf]
    /\ stage \in [Tasks -> Stages]
    /\ reportee \in [Tasks -> Users \cup {NoUser}]
    /\ supersededBy \in [Tasks -> ParentOf]
    /\ supersedes \in [Tasks -> ParentOf]
    /\ own \in [Tasks -> SUBSET Stages]
    /\ link \in [Tasks -> ParentOf]
    /\ members \subseteq Users
    /\ admitted \subseteq [user : Users, parent : ParentOf]
    /\ loaded \subseteq [old : Tasks, new : Tasks, oldRow : Rows, newRow : Rows]
    /\ overwritten \in BOOLEAN

(***************************************************************************)
(* The rollup never aborts an operation that passed its own checks, with   *)
(* INVALID_TASK_HIERARCHY or INVALID_BRANCH_LINK: moving or deleting a task*)
(* always leaves a forest in which every branch source has its task for a  *)
(* child.  Otherwise the project could end up in a state in which every    *)
(* later structural operation is aborted.                                  *)
(***************************************************************************)
RollsUp(lv, par) == Acyclic(lv, par) /\ LinksValid(lv, par, link)

RollupNeverAborts ==
    ~overwritten =>
        /\ RollsUp(live, parent)
        /\ \A t \in live, q \in live \cup {NoTask} :
              MayMove(t, q) => RollsUp(live, [parent EXCEPT ![t] = q])
        /\ \A t \in live : MayDelete(t) => RollsUp(live \ Subtree(t), parent)

(***************************************************************************)
(* No live task hangs below a deleted one, also when children are created  *)
(* or moved while their parent's subtree is being deleted.                 *)
(***************************************************************************)
ParentsLive == ~overwritten => \A t \in live : parent[t] \in live \cup {NoTask}

(***************************************************************************)
(* The two together: creating, branching, moving, superseding and deleting *)
(* leave a forest of live tasks that every later rollup accepts.           *)
(***************************************************************************)
TreeIsSound == RollupNeverAborts /\ ParentsLive

(***************************************************************************)
(* "Tasks derive status from all unbranched checklist items and direct     *)
(* child tasks.  Lowest stage wins."  Every status is up to date, not only *)
(* on the path the last operation touched.                                 *)
(***************************************************************************)
StatusIsDerived ==
    ~overwritten => \A t \in live : stage[t] = reduceStages(Work(t, live, parent, own, stage))

(***************************************************************************)
(* "Done is terminal. No incomplete work may be added or moved underneath  *)
(* Done."                                                                  *)
(***************************************************************************)
OpenUnderDone(t) ==
    {c \in Children(t) : stage[c] # DONE} \cup {s \in own[t] : s # DONE}

NoOpenWorkUnderDone == \A t \in live : stage[t] = DONE => OpenUnderDone(t) = {}

\* ... as long as no row was overwritten with stale values.
NoOpenWorkUnderDoneIfFresh == ~overwritten => NoOpenWorkUnderDone

(***************************************************************************)
(* A completed task stays completed, live, where it is and with the work   *)
(* it has, under every operation that does not overwrite rows.             *)
(***************************************************************************)
DoneIsTerminal ==
    [][\A t \in live : stage[t] = DONE /\ ~overwritten' =>
          /\ t \in live' /\ stage'[t] = DONE
          /\ parent'[t] = parent[t] /\ own'[t] = own[t]
          /\ {c \in live' : parent'[c] = t} = Children(t)]_vars

(***************************************************************************)
(* "Offboarding a current reportee from a project is blocked until         *)
(* ownership is resolved": the reviewer of a live task never loses the     *)
(* membership without which nobody else can review its work, by an         *)
(* offboarding, the removal of the reportee or a supersession on fresh     *)
(* rows.  A task can be created without it: the user of a creation may     *)
(* leave between its checks and the lock.                                  *)
(***************************************************************************)
ReporteeIsKept ==
    [][~overwritten' =>
          \A t \in live \cap live' : reportee[t] \in members => reportee'[t] \in members']_vars

(***************************************************************************)
(* "This task has already been superseded", "... replacement task ..."     *)
(* (messages/error.ts): a task is superseded by one task, which supersedes *)
(* that one task.                                                          *)
(***************************************************************************)
SupersessionIsOneToOne ==
    \A t, r \in Tasks : supersededBy[t] = r <=> supersedes[r] = t

\* ... as long as no row was overwritten with stale values.
SupersessionIsOneToOneIfFresh == ~overwritten => SupersessionIsOneToOne
=============================================================================
