------------------------------ MODULE Progress ------------------------------
(***************************************************************************)
(* The percentage of progress of the tasks of one project, and what        *)
(* changes it.                                                             *)
(*   src/src/tasks/services/task-progress.service.ts                       *)
(*   src/src/tasks/services/task-crud.service.ts                           *)
(*   src/src/tasks/services/task-checklist.service.ts                      *)
(* A task without work below it has the progress it was given; the others  *)
(* are recalculated, with the tasks that are completed, at the end of each *)
(* transaction but one.  Transactions hold the project's lock and are one  *)
(* action; what a handler reads before is an action of its own.            *)
(* Stages, people and places in lists are left out: an item of work is     *)
(* either completed or not (TaskHierarchy, ChecklistWorkflow).  So is      *)
(* supersedeTask(), which saves rows as it read them before its lock:      *)
(* TaskHierarchy has what that does to them.                               *)
(***************************************************************************)
EXTENDS Integers, FiniteSets, FiniteSetsExt

CONSTANTS
    Works, NoWork,      \* ids of tasks
    Points, NoPoint,    \* ids of checklist items
    Given,              \* the percentages users give
    Patchers            \* requests to the server at one time

ASSUME WorksAssumption ==
    NoWork \notin Works /\ NoPoint \notin Points /\ IsFiniteSet(Works) /\ IsFiniteSet(Points)

ASSUME GivenAssumption == Given \subseteq 0 .. 100

VARIABLES
    work,       \* the tasks that are not deleted, by id
    point,      \* their checklist items, by id
    patch,      \* what each request has read before its transaction
    skipped     \* progress was saved and nothing has been recalculated since

progressVars == <<work, point, patch, skipped>>

WorkRow == [parent : Works \cup {NoWork}, progress : 0 .. 100, done : BOOLEAN, linked : BOOLEAN]

Point == [of : Works, managed : BOOLEAN, ticked : BOOLEAN, child : Works \cup {NoWork}]

IdlePatch == [phase |-> "idle", of |-> NoWork]

Patch == [phase : {"idle", "one", "bulk"}, of : Works \cup {NoWork}]

-----------------------------------------------------------------------------
Below(w, t) == {c \in DOMAIN w : w[c].parent = t}

Of(p, t) == {q \in DOMAIN p : p[q].of = t}

\* t and all that is below it: what no set that holds t and the tasks below its
\* members leaves out.
WorkBelow(t) ==
    {u \in DOMAIN work : \A S \in SUBSET DOMAIN work :
        t \in S /\ (\A x \in S : Below(work, x) \subseteq S) => u \in S}

\* assertOpenHierarchy(): neither the task nor one above it is completed.
Open(t) ==
    t # NoWork => t \in DOMAIN work /\ \A u \in DOMAIN work : t \in WorkBelow(u) => ~work[u].done

\* Math.round() of the mean of n numbers.
Rounded(sum, n) == (2 * sum + n) \div (2 * n)

\* Whether a task is completed, or all of some work of it is.  Items that were
\* branched are their tasks.
IsFinished(w, p, fin, t) ==
    LET own == {q \in Of(p, t) : p[q].child = NoWork} IN
    \/ w[t].done
    \/ /\ own \cup Below(w, t) # {}
       /\ \A q \in own : p[q].ticked
       /\ \A c \in Below(w, t) : fin[c]

Finished(w, p) == LET fin[t \in DOMAIN w] == IsFinished(w, p, fin, t) IN fin

RolledWork(w, fin) ==
    [t \in DOMAIN w |->
        IF fin[t] /\ ~w[t].done THEN [w[t] EXCEPT !.done = TRUE, !.progress = 100] ELSE w[t]]

RolledPoints(p, fin) ==
    [q \in DOMAIN p |->
        IF p[q].child = NoWork THEN p[q] ELSE [p[q] EXCEPT !.ticked = fin[p[q].child]]]

Total(f) == MapThenSumSet(LAMBDA x : f[x], DOMAIN f)

\* The mean of the items, ticked or not, and of the values of the tasks.
Mean(p, flat, value) ==
    Rounded(100 * Cardinality({q \in flat : p[q].ticked}) + Total(value),
            Cardinality(flat) + Cardinality(DOMAIN value))

\* Mutant of the next: a task branched from an item of the package counts twice.
ValueOf_LinkedTwice(w, p, value, t) ==
    LET managed == {q \in Of(p, t) : p[q].managed}
        flat == {q \in managed : p[q].child = NoWork}
        linked == {q \in managed : p[q].child # NoWork}
        twice == [x \in Below(w, t) \cup linked |-> value[IF x \in linked THEN p[x].child ELSE x]]
    IN  IF flat \cup DOMAIN twice = {} THEN IF w[t].done THEN 100 ELSE w[t].progress
        ELSE Mean(p, flat, twice)

\* What the tasks below and the package's items give; a task branched from an
\* item of the package counts once.
ValueOf(w, p, value, t) ==
    LET managed == {q \in Of(p, t) : p[q].managed}
        flat == {q \in managed : p[q].child = NoWork}
        counted == Below(w, t) \cup {p[q].child : q \in managed \ flat}
    IN  IF flat \cup counted = {} THEN IF w[t].done THEN 100 ELSE w[t].progress
        ELSE Mean(p, flat, [c \in counted |-> value[c]])

Values(w, p) == LET value[t \in DOMAIN w] == ValueOf(w, p, value, t) IN value

\* A save asks for the version that was read: a request for a row that changes
\* since is refused.  bulkUpdateTasks() reads again instead.
Refuse(ps, w) ==
    [c \in Patchers |->
        IF ps[c].phase = "one"
           /\ ~(ps[c].of \in DOMAIN work /\ ps[c].of \in DOMAIN w /\ w[ps[c].of] = work[ps[c].of])
        THEN IdlePatch ELSE ps[c]]

\* recalculateProjectTaskProgress(), with rows w and p written before it.
Recalculate(ps, w, p) ==
    LET fin == Finished(w, p)
        rolled == RolledWork(w, fin)
        items == RolledPoints(p, fin)
        value == Values(rolled, items)
        saved == [t \in DOMAIN w |-> [rolled[t] EXCEPT !.progress = value[t]]]
    IN  /\ work' = saved
        /\ point' = items
        /\ patch' = Refuse(ps, saved)
        /\ skipped' = FALSE

-----------------------------------------------------------------------------
(***************************************************************************)
(* Work is added, branched, done, moved and deleted.                       *)
(***************************************************************************)
Added(f, new, row) == [x \in DOMAIN f \cup new |-> IF x \in new THEN row ELSE f[x]]

NewWork(u, v, linked) == [parent |-> u, progress |-> v, done |-> FALSE, linked |-> linked]

NewPoint(t, managed) == [of |-> t, managed |-> managed, ticked |-> FALSE, child |-> NoWork]

\* A subtask gets an item of its own on its parent, already branched.
AddTask(t, u, v) ==
    /\ t \in Works \ DOMAIN work /\ Open(u)
    /\ Recalculate(patch, Added(work, {t}, NewWork(u, v, u # NoWork)), point)

AddPoint(q, t) ==
    /\ q \in Points \ DOMAIN point /\ t \in DOMAIN work /\ Open(t)
    /\ Recalculate(patch, work, Added(point, {q}, NewPoint(t, FALSE)))

Flat(q) == q \in DOMAIN point /\ point[q].child = NoWork /\ ~point[q].ticked

\* branchItem(): the task starts with the progress that was given.
BranchPoint(q, t, v) ==
    /\ Flat(q) /\ Open(point[q].of) /\ t \in Works \ DOMAIN work
    /\ Recalculate(patch, Added(work, {t}, NewWork(point[q].of, v, TRUE)), [point EXCEPT ![q].child = t])

\* A package is a task with items; a task of its own, or branched from an item.
AddPackage(t, ps, q) ==
    /\ t \in Works \ DOMAIN work /\ ps # {} /\ ps \cap DOMAIN point = {}
    /\ \/ /\ q = NoPoint
          /\ Recalculate(patch, Added(work, {t}, NewWork(NoWork, 0, FALSE)),
                         Added(point, ps, NewPoint(t, TRUE)))
       \/ /\ Flat(q) /\ Open(point[q].of)
          /\ Recalculate(patch, Added(work, {t}, NewWork(point[q].of, 0, TRUE)),
                         Added([point EXCEPT ![q].child = t], ps, NewPoint(t, TRUE)))

\* The last command on an item accepts it.
Accept(q) ==
    /\ Flat(q) /\ Open(point[q].of)
    /\ Recalculate(patch, work, [point EXCEPT ![q].ticked = TRUE])

RemovePoint(q) ==
    /\ Flat(q) /\ Open(point[q].of)
    /\ Recalculate(patch, work, [x \in DOMAIN point \ {q} |-> point[x]])

DeleteWork(t) ==
    /\ t \in DOMAIN work /\ Open(t) /\ ~work[t].linked
    /\ \A u \in WorkBelow(t) : ~work[u].done
    /\ LET rest == DOMAIN work \ WorkBelow(t) IN
       Recalculate(patch, [u \in rest |-> work[u]], [q \in {x \in DOMAIN point : point[x].of \in rest} |-> point[q]])

-----------------------------------------------------------------------------
(***************************************************************************)
(* Requests that read before their transaction.                            *)
(***************************************************************************)
LeafWithoutPackage(t) == Below(work, t) = {} /\ \A q \in Of(point, t) : ~point[q].managed

ReadsWork(c, phase, t) ==
    /\ patch[c] = IdlePatch /\ t \in DOMAIN work
    /\ patch' = [patch EXCEPT ![c] = [phase |-> phase, of |-> t]]
    /\ UNCHANGED <<work, point, skipped>>

Answered(c) == [patch EXCEPT ![c] = IdlePatch]

GivesUp(c) == patch[c] # IdlePatch /\ patch' = Answered(c) /\ UNCHANGED <<work, point, skipped>>

MayGive(t, v) == work[t].done => v = 100

\* updateTask() and updateTaskProgress() read the task, and refuse others.
LoadOne(c, t) == t \in DOMAIN work /\ LeafWithoutPackage(t) /\ ReadsWork(c, "one", t)

\* updateTask() saves progress without recalculating.
SavePatch(c, v) ==
    LET t == patch[c].of IN
    /\ patch[c].phase = "one" /\ MayGive(t, v)
    /\ work' = [work EXCEPT ![t].progress = v]
    /\ patch' = Refuse(Answered(c), work')
    /\ skipped' = (skipped \/ work' # work)
    /\ UNCHANGED point

\* updateTaskProgress() checks again and recalculates.
SaveProgress(c, v) ==
    LET t == patch[c].of IN
    /\ patch[c].phase = "one" /\ LeafWithoutPackage(t) /\ MayGive(t, v)
    /\ Recalculate(Answered(c), [work EXCEPT ![t].progress = v], point)

LoadBulk(c, t) == Below(work, t) = {} /\ ReadsWork(c, "bulk", t)

\* bulkUpdateTasks() reads the task again, not whether tasks are below it now.
SaveBulk(c, v) ==
    LET t == patch[c].of IN
    /\ patch[c].phase = "bulk" /\ t \in DOMAIN work
    /\ MayGive(t, v)
    /\ Recalculate(Answered(c), [work EXCEPT ![t].progress = v], point)

\* applyTaskProgress(), for a device, reads and saves under the lock and does not
\* ask for items: the recalculation undoes what it gives a package.
ReportProgress(t, v) ==
    /\ t \in DOMAIN work /\ Below(work, t) = {} /\ MayGive(t, v)
    /\ Recalculate(patch, [work EXCEPT ![t].progress = v], point)

\* Where a task is moved is decided under the lock.
MoveBulk(t, u) ==
    /\ t \in DOMAIN work /\ work[t].parent # u
    /\ Open(t) /\ Open(u) /\ ~work[t].linked /\ u \notin WorkBelow(t)
    /\ Recalculate(patch, [work EXCEPT ![t].parent = u], point)

-----------------------------------------------------------------------------
ProgressInit ==
    /\ work = <<>> /\ point = <<>>
    /\ patch = [c \in Patchers |-> IdlePatch]
    /\ skipped = FALSE

Adds ==
    \/ \E t \in Works, u \in DOMAIN work \cup {NoWork}, v \in Given : AddTask(t, u, v)
    \/ \E t \in Works, q \in Points, v \in Given : BranchPoint(q, t, v)
    \/ \E t \in Works, q \in Points \cup {NoPoint}, ps \in SUBSET Points : AddPackage(t, ps, q)
    \/ \E t \in Works, q \in Points : AddPoint(q, t)

WorkIsDone ==
    \/ \E q \in Points : Accept(q) \/ RemovePoint(q)
    \/ \E t \in Works : DeleteWork(t) \/ \E v \in Given : ReportProgress(t, v)
    \/ \E t \in Works, u \in DOMAIN work \cup {NoWork} : MoveBulk(t, u)

Asks(c) ==
    \/ \E t \in Works : LoadOne(c, t) \/ LoadBulk(c, t)
    \/ \E v \in Given : SavePatch(c, v) \/ SaveProgress(c, v) \/ SaveBulk(c, v)
    \/ GivesUp(c)

\* Bound: a task keeps its progress when the last work below it is taken away,
\* which it is only at a percentage that is given too.
FewPercentages(w, p) == \A t \in DOMAIN w : Below(w, t) \cup Of(p, t) = {} => w[t].progress \in Given

ProgressNext ==
    /\ Adds \/ WorkIsDone \/ \E c \in Patchers : Asks(c)
    /\ FewPercentages(work', point')

ProgressSpec == ProgressInit /\ [][ProgressNext]_progressVars

-----------------------------------------------------------------------------
ProgressTypeOK ==
    /\ DOMAIN work \subseteq Works /\ \A t \in DOMAIN work : work[t] \in WorkRow
    /\ DOMAIN point \subseteq Points /\ \A q \in DOMAIN point : point[q] \in Point
    /\ patch \in [Patchers -> Patch] /\ skipped \in BOOLEAN

(***************************************************************************)
(* "Parent task progress is aggregate-derived from direct subtasks"        *)
(* (FRONTEND_API_REFERENCE.md:1444), and of a package from its items too,  *)
(* each task counted once (docs/task-package-create-api-contract.md:74):   *)
(* the stored numbers of any two levels agree.                             *)
(***************************************************************************)
ProgressIsDerived ==
    \A t \in DOMAIN work :
        LET items == {q \in Of(point, t) : point[q].managed /\ point[q].child = NoWork}
            tasks == Below(work, t)
            parts == Cardinality(items) + Cardinality(tasks)
            total == 100 * Cardinality({q \in items : point[q].ticked})
                        + Total([c \in tasks |-> work[c].progress])
        IN  items \cup tasks # {} => work[t].progress = (2 * total + parts) \div (2 * parts)

\* It is unless updateTask() saved progress, which does not recalculate.
ProgressIsDerivedIfRecalculated == ~skipped => ProgressIsDerived

\* A completed task has all its progress, also where nothing was recalculated.
DoneIsFull == \A t \in DOMAIN work : work[t].done => work[t].progress = 100

\* Both hold of the progress of a project.
ProgressIsSound == ProgressIsDerivedIfRecalculated /\ DoneIsFull
=============================================================================
