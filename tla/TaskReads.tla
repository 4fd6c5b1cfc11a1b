----------------------------- MODULE TaskReads ------------------------------
(***************************************************************************)
(* What the reads of a project show of its tasks to a member u:            *)
(*   src/src/tasks/services/task-query.service.ts         lists, parents,  *)
(*                                       kanban, tree and mindmap;         *)
(*   src/src/tasks/services/task-dashboard-summary.service.ts              *)
(*   src/src/tasks/services/activity-schedule-gantt.service.ts             *)
(*   src/src/tasks/services/activity-schedule-query.service.ts             *)
(*   src/src/tasks/services/task-activity.service.ts      timelines;       *)
(*   src/src/tasks/services/task-documents.service.ts     deliverables;    *)
(*   src/src/tasks/services/task-change-request-impact-map.service.ts      *)
(*   src/src/tasks/services/task-field-work-queue.service.ts               *)
(* Each service has its own copy of the conditions and of the traversal of *)
(* a subtree, and each is a definition of its own here.  Completion, dates *)
(* and the filters a reader can add are left out: a read is taken with its *)
(* widest filters.                                                         *)
(***************************************************************************)
EXTENDS TaskAccess

CONSTANTS
    MaxDepth,    \* MAX_TASK_TREE_DEPTH and its like: 25 levels
    MaxTimeline, \* tasks after which a timeline goes no deeper: 1000
    Limits       \* numbers of nodes a reader asks for

ASSUME ReadsAssumption ==
    /\ MaxDepth \in Nat /\ NoOne \notin 0 .. MaxDepth
    /\ MaxTimeline \in Nat /\ Limits \subseteq Nat \ {0}

Current == {j \in LiveJobs : job[j].replaced = NoOne}

-----------------------------------------------------------------------------
(***************************************************************************)
(* Lists.                                                                  *)
(***************************************************************************)
\* getProjectTasks(); withReplaced is its includeSuperseded.
List(u, withReplaced) ==
    {j \in LiveJobs : (withReplaced \/ job[j].replaced = NoOne) /\ InScope(u, j)}

\* getProjectParentTasks(): a hidden child makes a parent too.
Parents(u) == {j \in Current : InScope(u, j) /\ \E c \in Current : job[c].parent = j}

\* getChecklistKanban(), whose cards are the items of these tasks.
KanbanTasks(u) == {j \in LiveJobs : InScope(u, j)}

\* Its taskId, a recursive query for a subtree.
KanbanBelow(u, root) == {j \in KanbanTasks(u) : root \in Ancestors(j)}

\* buildProjectScheduleQuery(), when every task has a schedule.
Scheduled(u) == {j \in LiveJobs : InScope(u, j)}

\* loadScheduleRows() of the project's gantt.
GanttRows(u) == {j \in LiveJobs : InScope(u, j)}

\* getChecks(): the tasks whose schedule is checked.
Checked(u) == {j \in LiveJobs : InScope(u, j)}

\* loadAssignedLeafTasks(): no visibility is asked of who is assigned.
AssignedLeaves(u) ==
    {j \in Current : u \in job[j].team /\ ~\E c \in Current : job[c].parent = j}

-----------------------------------------------------------------------------
(***************************************************************************)
(* Trees, level by level: round n of a loop finds the children of what     *)
(* round n - 1 found, and a round that finds none is the last.             *)
(***************************************************************************)
\* The first n rows of a query, in the order of the tasks.
First(n, jobs) == {j \in jobs : Cardinality({i \in jobs : i < j}) < n}

\* loadTreeTasks(): the conditions on a task.
TreeRows(u, withReplaced) ==
    {j \in LiveJobs : (withReplaced \/ job[j].replaced = NoOne) /\ InScope(u, j)}

\* Mutant of the next: a level that fills the tree is the last one.
Pass_SilentLimit(rows, limit, last) ==
    LET room  == limit - Cardinality(last.tasks)
        found == First(room, {j \in rows : job[j].parent \in last.frontier})
        full  == Cardinality(found) >= room
    IN  [tasks |-> last.tasks \cup found,
         frontier |-> IF full THEN {} ELSE found,
         cut |-> last.cut]

\* A pass of the loop of getTaskTree(): a level, as far as there is room.  A
\* level that fills the limit counts as cut, and is the last.
Pass(rows, limit, last) ==
    LET room  == limit - Cardinality(last.tasks)
        found == First(room, {j \in rows : job[j].parent \in last.frontier})
        full  == Cardinality(found) >= room
    IN  [tasks |-> last.tasks \cup found,
         frontier |-> IF full THEN {} ELSE found,
         cut |-> last.cut \/ (last.frontier # {} /\ full)]

\* getTaskTree() below a root that opens; no depth (NoOne) is "all".
Tree(u, root, depth, limit, withReplaced) ==
    LET most == IF depth = NoOne THEN MaxDepth ELSE depth
        rows == TreeRows(u, withReplaced)
        pass[n \in 0 .. most] ==
            IF n = 0 THEN [tasks |-> {root}, frontier |-> {root}, cut |-> FALSE]
            ELSE Pass(rows, limit, pass[n - 1])
        last == pass[most]
    IN  [tasks |-> last.tasks,
         truncated |-> last.cut \/ (depth = NoOne /\ last.frontier # {})]

\* loadDirectChildCountMap().
ChildCount(u, j, withReplaced) ==
    Cardinality({c \in LiveJobs : /\ job[c].parent = j
                                  /\ withReplaced \/ job[c].replaced = NoOne
                                  /\ InScope(u, c)})

\* getTaskMindmap(): a folded node hides what is below it in the tree.
Mindmap(u, root, depth, limit, withReplaced) ==
    LET tasks == Tree(u, root, depth, limit, withReplaced).tasks
        hidden[j \in tasks] ==
            j # root /\ LET p == job[j].parent IN job[p].folded \/ hidden[p]
    IN  {j \in tasks : ~hidden[j]}

\* The edges of a mindmap from a node to a child.
MindmapEdges(u, root, depth, limit, withReplaced) ==
    LET tasks == Tree(u, root, depth, limit, withReplaced).tasks
        shown == Mindmap(u, root, depth, limit, withReplaced)
        unfolded == {c \in tasks \ {root} : job[c].parent \in shown /\ ~job[job[c].parent].folded}
    IN  {<<job[c].parent, c>> : c \in unfolded}

\* getVisibleTaskIds() of the impact map walks the same tree from the root.
ImpactTasks(u, root, depth, limit, withReplaced) ==
    LET tasks == Tree(u, root, depth, limit, withReplaced).tasks
        walk[shown \in SUBSET Jobs] ==
            LET next == {c \in tasks : \E p \in shown : job[c].parent = p /\ ~job[p].folded}
            IN  IF next \subseteq shown THEN shown ELSE walk[shown \cup next]
    IN  walk[{root}]

\* loadVisibleSubtree() of the dashboard's summary.
Dashboard(u, root, withReplaced) ==
    LET rows == {j \in LiveJobs : (withReplaced \/ job[j].replaced = NoOne) /\ InScope(u, j)}
        level[n \in 0 .. MaxDepth] ==
            IF n = 0 THEN {root}
            ELSE LET above == level[n - 1] IN {j \in rows : job[j].parent \in above}
    IN  UNION {level[n] : n \in 0 .. MaxDepth}

\* loadVisibleSubtreeTasks() of a task's gantt: a superseded root has none.
TaskGantt(u, root, depth) ==
    LET most == IF depth = NoOne THEN MaxDepth ELSE depth
        visible == {j \in Current : InScope(u, j)}
        level[n \in 0 .. most] ==
            IF n = 0 THEN {root} \cap visible
            ELSE LET above == level[n - 1] IN {j \in visible : job[j].parent \in above}
    IN  UNION {level[n] : n \in 0 .. most}

\* A pass of the loop of resolveTaskScope(): a whole level, unless there is enough.
TimelinePass(rows, last) ==
    LET found == IF last.cut THEN {} ELSE {j \in rows : job[j].parent \in last.frontier}
        tasks == last.tasks \cup found
    IN  [tasks |-> tasks, frontier |-> found,
         cut |-> last.cut \/ (found # {} /\ Cardinality(tasks) >= MaxTimeline)]

\* resolveTaskScope() of a timeline: superseded tasks have a past too.  It says it
\* is truncated also when the last level it went to has tasks, and none below.
Timeline(u, root, depth) ==
    LET visible == {j \in LiveJobs : InScope(u, j)}
        pass[n \in 0 .. depth] ==
            IF n = 0 THEN [tasks |-> {root}, frontier |-> {root}, cut |-> FALSE]
            ELSE TimelinePass(visible, pass[n - 1])
        last == pass[depth]
    IN  [tasks |-> last.tasks, truncated |-> last.cut \/ last.frontier # {}]

\* loadSubtreeTaskIds(): visibility is asked afterwards, of each task.
Subtree(root) ==
    LET grow[seen \in SUBSET Jobs] ==
            LET found == {j \in LiveJobs : job[j].parent \in seen} \ seen
            IN  IF found = {} THEN seen ELSE grow[seen \cup found]
    IN  grow[{root}]

\* listTaskSubtreeDeliverableDocuments(): the tasks whose documents show.
DocumentTasks(u, root) == {j \in Subtree(root) : j \in Current /\ InScope(u, j)}

-----------------------------------------------------------------------------
Depths == (0 .. MaxDepth) \cup {NoOne}

\* The tree with room for every task.
WholeTree(u, root, depth, withReplaced) ==
    Tree(u, root, depth, Cardinality(Jobs) + 1, withReplaced).tasks

\* How many tasks the chain of parents has, with the task.
Generation(j) == Cardinality(Ancestors(j))

Openable(u) == {r \in LiveJobs : CanView(u, r)}

\* The lists agree: the project's schedule, gantt, checks and kanban are of
\* the tasks that open; who is assigned to a task finds it in his queue of
\* the day or, when others have been made of it, among the parents.
ListsAgree(u) ==
    LET open == Openable(u)
    IN  /\ open = List(u, TRUE) /\ open = KanbanTasks(u)
        /\ open = Scheduled(u) /\ open = GanttRows(u) /\ open = Checked(u)
        /\ {j \in List(u, FALSE) : u \in job[j].team} \ Parents(u) = AssignedLeaves(u)

\* A timeline shows a part of the tree of its depth: all of a tree too small for
\* the stop, and when it does not say it is truncated the whole subtree.
TimelineIsHonest(u, r, depth, all) ==
    LET line == Timeline(u, r, depth)
        tree == WholeTree(u, r, depth, TRUE)
    IN  /\ line.tasks \subseteq tree
        /\ Cardinality(tree) < MaxTimeline => line.tasks = tree
        /\ ~line.truncated => line.tasks = all

\* The subtree under a task that opens is the same in its tree, its dashboard and
\* its gantt, whatever the reader cannot see, its timeline is a part of it or all
\* of it, and it is inside its kanban and its documents, which show nothing that
\* does not open.  Who manages the task sees all below it, as deep as a tree goes.
SubtreesAgree(u, r) ==
    LET all  == WholeTree(u, r, NoOne, TRUE)
        now  == WholeTree(u, r, NoOne, FALSE)
        docs == DocumentTasks(u, r)
    IN  /\ Dashboard(u, r, TRUE) = all /\ Dashboard(u, r, FALSE) = now
        /\ r \in Current => TaskGantt(u, r, NoOne) = now
        /\ \A depth \in 0 .. MaxDepth : TimelineIsHonest(u, r, depth, all)
        /\ now \cap Current \subseteq docs /\ all \cup docs \subseteq KanbanBelow(u, r)
        /\ Manages(u, r) \/ CanViewAll(u) =>
              all = {j \in Branch(r) : Generation(j) <= Generation(r) + MaxDepth}

\* A tree that does not say it was cut leaves nothing out, and the number of
\* children on a node is the number a deeper read shows.
TreesAreHonest(u, r) ==
    \A all \in BOOLEAN, depth \in Depths :
       LET whole == WholeTree(u, r, depth, all)
       IN  \A n \in Limits :
              LET tree == Tree(u, r, depth, n, all)
              IN  /\ Cardinality(tree.tasks) <= n /\ tree.tasks \subseteq whole
                  /\ ~tree.truncated => tree.tasks = whole
                  /\ ~tree.truncated /\ depth = NoOne =>
                        \A j \in whole :
                           ChildCount(u, j, all) = Cardinality({c \in whole : job[c].parent = j})

\* The impact map shows the nodes of the mindmap, and the edges of the mindmap
\* are those between its nodes.
MapsAgree(u, r) ==
    \A n \in Limits :
       LET nodes == Mindmap(u, r, NoOne, n, TRUE)
       IN  /\ ImpactTasks(u, r, NoOne, n, TRUE) = nodes
           /\ MindmapEdges(u, r, NoOne, n, TRUE) = {<<job[j].parent, j>> : j \in nodes \ {r}}

\* What the reads show of a project is one picture.
ReadsAgree ==
    \A u \in DOMAIN role :
       /\ ListsAgree(u)
       /\ \A r \in Openable(u) : SubtreesAgree(u, r) /\ TreesAreHonest(u, r) /\ MapsAgree(u, r)
=============================================================================
