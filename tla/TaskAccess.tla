----------------------------- MODULE TaskAccess -----------------------------
(***************************************************************************)
(* Who may do what to the tasks of a project:                              *)
(*   src/src/tasks/services/task-auth.service.ts    membership, reportees  *)
(*                                 and visibility;                         *)
(*   src/src/auth/guards/project-permission.guard.ts  the check in front   *)
(*                                 of a route;                             *)
(*   src/src/tasks/tasks.controller.ts   the routes and what they ask;     *)
(*   src/src/tasks/tasks.service.ts      what is asked again behind them.  *)
(* A request passes two independent layers: the guard of its route, with   *)
(* the permissions of the caller's role, and the service, which looks at   *)
(* the role's status and at the task.  Routes that ask the same are one    *)
(* operation here.                                                         *)
(*                                                                         *)
(* A task of this module is a job: its place in the tree and the people on *)
(* it.  Completion is left to TaskHierarchy.                               *)
(***************************************************************************)
EXTENDS Integers, FiniteSets

CONSTANTS
    People,      \* users
    Jobs,        \* ids of tasks, given in order
    NoOne,      \* no person, no parent
    Teams,       \* sets of assignees that are asked for
    MemberRoles, \* roles a member can have: [enabled, may, all]
    WorkspaceRoles, \* and a member of the workspace: [admin, enabled, may]
    MaxChanges   \* requests after which nothing changes but by new tasks

ASSUME AccessAssumption ==
    /\ Jobs \subseteq Nat /\ IsFiniteSet(Jobs)
    /\ NoOne \notin People \cup Jobs
    /\ Teams \subseteq SUBSET People
    /\ MaxChanges \in Nat
    /\ MemberRoles \subseteq
          [enabled : BOOLEAN, may : SUBSET {"create", "update", "delete", "requests"}, all : BOOLEAN]
    /\ WorkspaceRoles \subseteq
          [admin : BOOLEAN, enabled : BOOLEAN,
           may : SUBSET {"member", "view", "create", "update", "delete", "requests"}]

VARIABLES
    role,    \* the role of an active member of the project
    owner,   \* who created the project
    office,  \* the role of an active member of its workspace
    job,     \* the rows of tasks, by id
    changes  \* changes so far, of memberships and of tasks

accessVars == <<role, owner, office, job, changes>>

Job == [parent : Jobs \cup {NoOne}, source : BOOLEAN, reportee : People,
        team : SUBSET People, gone : BOOLEAN, replaced : Jobs \cup {NoOne}, folded : BOOLEAN]

AccessTypeOK ==
    /\ DOMAIN role \subseteq People
    /\ \A u \in DOMAIN role : role[u] \in MemberRoles
    /\ owner \in People
    /\ DOMAIN office \subseteq People
    /\ \A u \in DOMAIN office : office[u] \in WorkspaceRoles
    /\ DOMAIN job \subseteq Jobs
    /\ \A j \in DOMAIN job : job[j] \in Job
    /\ changes \in 0 .. MaxChanges

LiveJobs == {j \in DOMAIN job : ~job[j].gone}

-----------------------------------------------------------------------------
(***************************************************************************)
(* The service layer.                                                      *)
(***************************************************************************)
\* verifyProjectPermission(): any active member may view.
May(u, action) ==
    /\ u \in DOMAIN role
    /\ action # "view" => role[u].enabled /\ action \in role[u].may

\* Mutant of the next: the walk ends at the parent.
IsTaskOrAncestorReportee_Parent(u, j) ==
    \/ job[j].reportee = u
    \/ job[j].parent \in LiveJobs /\ job[job[j].parent].reportee = u

Visit == [seen : SUBSET Jobs, at : Jobs]

\* The walk to the root, which stops at a task it has seen or that is gone.
IsTaskOrAncestorReportee(u, j) ==
    LET walk[v \in Visit] ==
            \/ job[v.at].reportee = u
            \/ LET p == job[v.at].parent
               IN  p \in LiveJobs /\ p \notin v.seen /\ walk[[seen |-> v.seen \cup {p}, at |-> p]]
    IN  walk[[seen |-> {j}, at |-> j]]

\* canManageTaskOwnedChecklist(), which canMutateTaskSubresource() and
\* canUpdateTaskChecklistItem() are too.
Manages(u, j) == May(u, "view") /\ j \in LiveJobs /\ IsTaskOrAncestorReportee(u, j)

\* canBranchTaskChecklistItem().
Branches(u, j) ==
    /\ May(u, "view") /\ j \in LiveJobs
    /\ IsTaskOrAncestorReportee(u, j) \/ u \in job[j].team

CanViewAll(u) ==
    \/ u = owner
    \/ u \in DOMAIN office /\ office[u].enabled /\ office[u].admin
    \/ u \in DOMAIN role /\ role[u].enabled /\ role[u].all

\* ensureTaskForSubresource() with canViewTask().
CanView(u, j) ==
    /\ j \in LiveJobs
    /\ u \in DOMAIN role
    /\ \/ CanViewAll(u)
       \/ u \in job[j].team
       \/ IsTaskOrAncestorReportee(u, j)

(***************************************************************************)
(* applyTaskVisibilityScope(): the recursive query that narrows a list.    *)
(***************************************************************************)
\* WITH RECURSIVE ancestors: rounds that join the live parents, until none is
\* new.
Ancestors(j) ==
    LET live == LiveJobs
        rounds[found \in SUBSET Jobs] ==
            LET next == found \cup ({job[c].parent : c \in found} \cap live)
            IN  IF next = found THEN found ELSE rounds[next]
    IN  rounds[{j} \cap live]

InScope(u, j) ==
    \/ CanViewAll(u)
    \/ job[j].reportee = u
    \/ u \in job[j].team
    \/ \E a \in Ancestors(j) : job[a].reportee = u

-----------------------------------------------------------------------------
(***************************************************************************)
(* The routes: what the guard in front of them asks.  "signed in" is a     *)
(* route without ProjectPermissionGuard, "member" one that names no        *)
(* permission.                                                             *)
(***************************************************************************)
\* The rows of several tables.
OneTable(parts) ==
    [op \in UNION {DOMAIN t : t \in parts} |-> (CHOOSE t \in parts : op \in DOMAIN t)[op]]

AttachmentRoutes == [use_attachment |-> "signed in"]
WorkflowRoutes == [remove_reportee |-> "signed in", execute_checklist |-> "signed in"]
PackageRoutes == [create_package |-> "member", branch_package |-> "member"]
ListRoutes == [list |-> "view", kanban |-> "member", sync |-> "update"]
CreateRoutes == [create_task |-> "create", bulk_update |-> "update", save_layout |-> "update"]
ResourceReportRoutes == [read_resources |-> "view", import_resources |-> "update"]
MaterialsReportRoutes == [read_quantities |-> "view", import_quantities |-> "update"]
ScheduleRoutes == [read_schedule |-> "view", read_critical_path |-> "view"]
ScheduleViewRoutes == [read_project_gantt |-> "view", explain |-> "view"]
CalendarRoutes == [read_calendar |-> "view", edit_calendar |-> "update"]
CalculationRoutes == [recalculate |-> "update", import_schedule |-> "update"]
SubtreeRoutes == [tree |-> "view", gantt |-> "view"]
TaskRoutes == [mindmap |-> "view", dashboard |-> "view", open |-> "member"]
TaskScheduleRoutes == [read_dates |-> "view", edit_dates |-> "update"]
AllocationRoutes == [read_allocations |-> "view", edit_allocations |-> "update"]
MaterialRoutes == [read_materials |-> "view", edit_materials |-> "update"]
RequestReadRoutes ==
    [impact_map |-> "requests", read_requests |-> "member", read_evidence |-> "requests"]
RequestRoutes == [create_request |-> "member", answer_request |-> "member"]
ReviewRoutes == [ask_review |-> "member", decide_review |-> "requests"]
RevisionRoutes == [revise_request |-> "member", reopen_request |-> "member"]
ResolutionRoutes == [escalate_request |-> "member", resolve_request |-> "member"]
DocumentReadRoutes == [read_documents |-> "member", download_document |-> "view"]
DocumentWriteRoutes == [edit_documents |-> "member"]
CommentRoutes ==
    [read_comments |-> "view", comment |-> "create", edit_comment |-> "update",
     delete_comment |-> "delete"]
UpdateRoutes ==
    [update_task |-> "member", progress |-> "update", supersede |-> "update",
     delete_task |-> "member"]
ChecklistRoutes == [read_checklist |-> "member", add_item |-> "member"]
ItemRoutes == [update_item |-> "signed in", branch_item |-> "signed in", delete_item |-> "member"]
LocationRoutes == [read_locations |-> "view", edit_locations |-> "update"]
DependencyRoutes == [read_dependencies |-> "view", edit_dependencies |-> "update"]
GroupRoutes == [read_groups |-> "member", edit_groups |-> "member"]
LabelRoutes == [read_labels |-> "view", edit_labels |-> "update"]
WatcherRoutes == [read_watchers |-> "view", edit_watchers |-> "update"]
RelationRoutes == [read_relations |-> "view", edit_relations |-> "update"]
ActivityRoutes == [read_activity |-> "view", read_timeline |-> "view"]

Routes ==
    OneTable({AttachmentRoutes, WorkflowRoutes, PackageRoutes, ListRoutes, CreateRoutes,
        ResourceReportRoutes, MaterialsReportRoutes, ScheduleRoutes, ScheduleViewRoutes,
        CalendarRoutes, CalculationRoutes, SubtreeRoutes, TaskRoutes, TaskScheduleRoutes,
        AllocationRoutes, MaterialRoutes, RequestReadRoutes, RequestRoutes, ReviewRoutes,
        RevisionRoutes, ResolutionRoutes, DocumentReadRoutes, DocumentWriteRoutes, CommentRoutes,
        UpdateRoutes, ChecklistRoutes, ItemRoutes, LocationRoutes, DependencyRoutes, GroupRoutes,
        LabelRoutes, WatcherRoutes, RelationRoutes, ActivityRoutes})

\* canActivate(): a role in the workspace may be enough, "member" is the right to
\* view projects there, and no role's status is asked.
GuardPasses(u, asked) ==
    \/ asked = "signed in"
    \/ u \in DOMAIN office /\ (office[u].admin \/ asked \in office[u].may)
    \/ /\ u \in DOMAIN role
       /\ asked \in {"member", "view"} \/ asked \in role[u].may

-----------------------------------------------------------------------------
(***************************************************************************)
(* What the services ask: a permission, and rights on the task.            *)
(***************************************************************************)
Asks(may, rights) == [may |-> may, rights |-> rights]

Reads == Asks("view", {"view"})

Edits == Asks("update", {"view"})

CoreGates ==
    [create_task |-> Asks("create", {}), update_task |-> Asks("view", {"manage"}),
     progress |-> Asks("view", {"manage"}), supersede |-> Asks("view", {"manage"}),
     bulk_update |-> Asks("view", {"manage"}), delete_task |-> Asks("delete", {"manage"}),
     save_layout |-> Asks("update", {"scope"})]
RetrievalGates ==
    [open |-> Reads, tree |-> Reads, gantt |-> Reads, mindmap |-> Reads, dashboard |-> Reads,
     list |-> Asks("view", {"scope"}), kanban |-> Asks("view", {"scope"})]
SyncGates == [sync |-> Asks("update", {"view", "branch"})]
ScheduleGates ==
    [read_schedule |-> Asks("view", {"scope"}), read_critical_path |-> Asks("view", {"scope"})]
ReportGates ==
    [read_resources |-> Asks("view", {}), import_resources |-> Asks("update", {}),
     read_quantities |-> Asks("view", {}), import_quantities |-> Asks("update", {})]
GanttGates == [read_project_gantt |-> Asks("view", {"scope"}), explain |-> Reads]
CalendarGates == [read_calendar |-> Asks("view", {}), edit_calendar |-> Asks("update", {})]
CalculationGates == [recalculate |-> Asks("update", {}), import_schedule |-> Asks("update", {})]
TaskScheduleGates == [read_dates |-> Reads, edit_dates |-> Asks("update", {"manage", "view"})]
AllocationGates == [read_allocations |-> Reads, edit_allocations |-> Edits]
MaterialGates == [read_materials |-> Reads, edit_materials |-> Edits]
DocumentReadGates ==
    [read_documents |-> Reads, download_document |-> Reads, use_attachment |-> Reads]
DocumentWriteGates == [edit_documents |-> Reads]
RequestReadGates == [impact_map |-> Reads, read_requests |-> Reads, read_evidence |-> Reads]
RequestGates == [create_request |-> Reads, answer_request |-> Reads]
ReviewGates ==
    [ask_review |-> Reads, decide_review |-> Reads, revise_request |-> Reads,
     reopen_request |-> Reads]
ResolutionGates == [escalate_request |-> Reads, resolve_request |-> Reads]
CommentGates ==
    [read_comments |-> Reads, comment |-> Asks("create", {"view"}), edit_comment |-> Edits,
     delete_comment |-> Asks("delete", {"view"})]
ChecklistGates ==
    [read_checklist |-> Reads, add_item |-> Asks("view", {"manage", "view"}),
     update_item |-> Asks("view", {"manage"}), branch_item |-> Asks("view", {"branch"}),
     delete_item |-> Asks("view", {"manage", "view"})]
LocationGates == [read_locations |-> Reads, edit_locations |-> Edits]
GroupGates == [read_groups |-> Reads, edit_groups |-> Asks("view", {"manage", "view"})]
DependencyGates == [read_dependencies |-> Reads, edit_dependencies |-> Edits]
RelationGates == [read_relations |-> Reads, edit_relations |-> Edits]
LabelGates == [read_labels |-> Reads, edit_labels |-> Edits]
WatcherGates == [read_watchers |-> Reads, edit_watchers |-> Edits]
ActivityGates == [read_activity |-> Reads, read_timeline |-> Reads]
WorkflowGates == [execute_checklist |-> Reads, remove_reportee |-> Asks("view", {"view", "parent"})]
PackageGates ==
    [create_package |-> Asks("create", {}), branch_package |-> Asks("view", {"branch", "view"})]

Gates ==
    OneTable({CoreGates, RetrievalGates, SyncGates, ScheduleGates, ReportGates, GanttGates,
        CalendarGates, CalculationGates, TaskScheduleGates, AllocationGates, MaterialGates,
        DocumentReadGates, DocumentWriteGates, RequestReadGates, RequestGates, ReviewGates,
        ResolutionGates, CommentGates, ChecklistGates, LocationGates, GroupGates, DependencyGates,
        RelationGates, LabelGates, WatcherGates, ActivityGates, WorkflowGates, PackageGates})

HasRight(u, right, j) ==
    CASE right = "view" -> CanView(u, j)
      [] right = "scope" -> j \in LiveJobs /\ InScope(u, j)
      [] right = "manage" -> Manages(u, j)
      [] right = "branch" -> Branches(u, j)
      [] right = "parent" -> job[j].parent # NoOne /\ Manages(u, job[j].parent)

GatePasses(u, gate, j) ==
    /\ May(u, gate.may)
    /\ \A r \in gate.rights : HasRight(u, r, j)

Served(u, op, j) == GuardPasses(u, Routes[op]) /\ GatePasses(u, Gates[op], j)

\* Operations that ask the same in both layers are alike.
Layers == {<<Routes[op], Gates[op]>> : op \in DOMAIN Gates}

OfPermissions == {layer \in Layers : layer[2].may # "view"}
OfTasks == {layer \in Layers : layer[2].rights # {}}

-----------------------------------------------------------------------------
(***************************************************************************)
(* What changes who may do what.  Each action is one request that is       *)
(* served, or a change of the project's members.                           *)
(***************************************************************************)
\* The live jobs below j, with it.
Branch(j) == {d \in LiveJobs : \E a \in Ancestors(d) : a = j}

AccessInit ==
    /\ role \in UNION {[P -> MemberRoles] : P \in SUBSET People}
    /\ owner \in People
    /\ office \in UNION {[P -> WorkspaceRoles] : P \in SUBSET People}
    /\ job = <<>>
    /\ changes = 0

Changing == changes < MaxChanges /\ changes' = changes + 1

\* A reportee cannot leave: a trigger on the memberships refuses it.
SetRole(u, r) ==
    /\ Changing
    /\ IF r = NoOne
       THEN /\ \A j \in LiveJobs : job[j].reportee # u
            /\ role' = [v \in DOMAIN role \ {u} |-> role[v]]
       ELSE role' = [v \in DOMAIN role \cup {u} |-> IF v = u THEN r ELSE role[v]]
    /\ UNCHANGED <<owner, office, job>>

PutAll(rows) ==
    /\ job' = [j \in DOMAIN job \cup DOMAIN rows |-> IF j \in DOMAIN rows THEN rows[j] ELSE job[j]]
    /\ UNCHANGED <<role, owner, office>>

Put(j, row) == PutAll([i \in {j} |-> row])

\* Who creates a task is its first reportee; a child has a source item.
NewJob(u, j, p, team) ==
    /\ j \notin DOMAIN job
    /\ \A i \in Jobs : i < j => i \in DOMAIN job
    /\ team \subseteq DOMAIN role
    /\ UNCHANGED changes
    /\ Put(j, [parent |-> p, source |-> p # NoOne, reportee |-> u, team |-> team,
               gone |-> FALSE, replaced |-> NoOne, folded |-> FALSE])

CreateJob(u, j, p, team) ==
    /\ p \in LiveJobs \cup {NoOne}
    /\ Served(u, "create_task", j)
    /\ NewJob(u, j, p, team)

BranchJob(u, j, p, team) ==
    /\ p \in LiveJobs
    /\ Served(u, "branch_item", p)
    /\ NewJob(u, j, p, team)

MoveJob(u, j, p) ==
    /\ Changing
    /\ Served(u, "bulk_update", j)
    /\ ~job[j].source
    /\ p \in (LiveJobs \cup {NoOne}) \ Branch(j)
    /\ Put(j, [job[j] EXCEPT !.parent = p])

SetReportee(u, j, v) ==
    /\ Changing
    /\ Served(u, "update_task", j)
    /\ v \in DOMAIN role
    /\ Put(j, [job[j] EXCEPT !.reportee = v])

SetTeam(u, j, team) ==
    /\ Changing
    /\ Served(u, "update_task", j)
    /\ team \subseteq DOMAIN role
    /\ Put(j, [job[j] EXCEPT !.team = team])

HandBack(u, j) ==
    /\ Changing
    /\ Served(u, "remove_reportee", j)
    /\ job[job[j].parent].reportee \in DOMAIN role
    /\ Put(j, [job[j] EXCEPT !.reportee = job[job[j].parent].reportee])

SupersedeJob(u, j, k) ==
    /\ Changing
    /\ j # k
    /\ Served(u, "supersede", j) /\ Manages(u, k)
    /\ job[j].replaced = NoOne /\ ~job[j].source
    /\ \A i \in DOMAIN job : job[i].replaced # k
    /\ Put(j, [job[j] EXCEPT !.replaced = k])

DeleteJob(u, j) ==
    /\ Changing
    /\ Served(u, "delete_task", j)
    /\ ~job[j].source
    /\ PutAll([d \in Branch(j) |-> [job[d] EXCEPT !.gone = TRUE]])

FoldJob(u, j) ==
    /\ Changing
    /\ Served(u, "save_layout", j)
    /\ job[j].replaced = NoOne
    /\ Put(j, [job[j] EXCEPT !.folded = ~@])

AccessNext ==
    \E u \in People :
       \/ \E r \in MemberRoles \cup {NoOne} : SetRole(u, r)
       \/ \E j \in Jobs :
             \/ \E p \in Jobs \cup {NoOne}, team \in Teams :
                   CreateJob(u, j, p, team) \/ BranchJob(u, j, p, team)
             \/ j \in LiveJobs /\
                   \/ \E p \in Jobs \cup {NoOne} : MoveJob(u, j, p)
                   \/ \E v \in People : SetReportee(u, j, v)
                   \/ \E team \in Teams : SetTeam(u, j, team)
                   \/ HandBack(u, j)
                   \/ \E k \in LiveJobs : SupersedeJob(u, j, k)
                   \/ DeleteJob(u, j)
                   \/ FoldJob(u, j)

AccessSpec == AccessInit /\ [][AccessNext]_accessVars

-----------------------------------------------------------------------------
\* A list shows an active member the tasks that open, and no others: the
\* recursive query and the walk to the root agree.
ListedIsOpen ==
    \A u \in DOMAIN role, j \in LiveJobs : InScope(u, j) <=> CanView(u, j)

\* Every operation on a task that is served is on a task that opens.
ServedOpens ==
    \A u \in People : \A j \in {i \in LiveJobs : ~CanView(u, i)} :
       ~\E layer \in OfTasks : GuardPasses(u, layer[1]) /\ GatePasses(u, layer[2], j)

\* When a service asks for a permission, the guard in front of it does not
\* refuse a caller who has it.
GuardsAgree ==
    \A u \in People : \A layer \in {l \in OfPermissions : ~GuardPasses(u, l[1])} :
       ~\E j \in LiveJobs : GatePasses(u, layer[2], j)

\* decorateTaskChecklistRead(): what a read tells its reader he can do on a
\* task is what the service lets him do.
CapabilitiesAreKept ==
    \A u \in DOMAIN role, j \in LiveJobs :
       /\ Manages(u, j) <=> Served(u, "update_task", j)
       /\ job[j].parent \in LiveJobs =>
             (Manages(u, job[j].parent) <=> Served(u, "remove_reportee", j))
       /\ Branches(u, j) <=> Served(u, "branch_item", j)

\* Whoever manages a task manages the live tasks below it.
ManagementReachesDown ==
    \A u \in People, j \in LiveJobs : Manages(u, j) => \A d \in Branch(j) : Manages(u, d)

\* The layers in front of a task agree with each other and with what readers
\* are shown.
AccessIsCoherent ==
    ListedIsOpen /\ ServedOpens /\ GuardsAgree /\ CapabilitiesAreKept /\ ManagementReachesDown
=============================================================================
