----------------------------- MODULE Invitations -----------------------------
(***************************************************************************)
(* Invitations to projects and to their workspace, the memberships they    *)
(* lead to, and the project roles they name.                               *)
(*   src/src/project-invites/project-invites.service.ts                    *)
(*   src/src/workspace-invites/workspace-invites.service.ts                *)
(*   src/src/projects/projects.service.ts (the members of a project)       *)
(*   src/src/projects/project-roles.service.ts                             *)
(* Handlers load a row, check it, and save it later; no row is locked.  A  *)
(* save reads the row again and writes the columns in which the loaded     *)
(* copy, as changed, differs from this second reading.  Who may call which *)
(* handler (the guards), notifications and activity logs are left out.     *)
(***************************************************************************)
EXTENDS Naturals, Sequences, FiniteSets

CONSTANTS
    Projects, Workspace,    \* the projects, all of one workspace
    Users,
    Roles, Protected,       \* project roles; the ones that may not be disabled
    RolesOf,                \* which of the roles are a scope's own
    Guest, NoRole,
    Clients,                \* requests to the server at one time
    Memberships,            \* the memberships the system may start with
    MaxInvites,             \* bound: invitations
    MaxRequests             \* bound: requests

ASSUME InvitationsAssumption ==
    /\ Workspace \notin Projects
    /\ Protected \subseteq Roles
    /\ \A s \in Projects \cup {Workspace} : RolesOf[s] \subseteq Roles
    /\ {Guest, NoRole} \cap Roles = {} /\ Guest # NoRole
    /\ MaxInvites \in Nat /\ MaxRequests \in Nat

VARIABLES
    invites,    \* project_invites and workspace_invites
    member,     \* project_memberships and workspace_members
    role,       \* project_roles; a workspace's roles are always enabled
    guests,     \* how many Guest roles the workspace has
    call,       \* what each client's handler has loaded and will save
    overtaken,  \* whether a handler saved after others changed what it loaded
    requests    \* how many there have been

rows == <<invites, member, role, guests>>
vars == <<rows, call, overtaken, requests>>

-----------------------------------------------------------------------------
Scopes == Projects \cup {Workspace}

InviteStatuses == {"PENDING", "ACCEPTED", "DECLINED", "REVOKED", "EXPIRED"}

\* due: whether expiresAt has passed.
Invite == [scope : Scopes, user : Users, role : Roles,
           status : InviteStatuses, due : BOOLEAN]

Member == [status : {"none", "ACTIVE", "REMOVED"}, role : Roles \cup {Guest, NoRole}]

NoMember == [status |-> "none", role |-> NoRole]

ProjectRole == {"enabled", "disabled", "deleted"}

(***************************************************************************)
(* A handler at work: the row it will save, the invitation it is about,    *)
(* what its transaction has read, and whether that is still what the       *)
(* tables hold.                                                            *)
(***************************************************************************)
Phases == {"idle", "loaded", "begun", "saving"}

Ops == {"invite", "save", "accept", "role", "status", "delete"}

SomeInvite == Invite \cup {<<>>}

Call == [phase : Phases, op : Ops, i : 0 .. MaxInvites, row : SomeInvite,
         seen : SomeInvite, joined : Member, entered : Member, guest : BOOLEAN,
         to : ProjectRole, fresh : BOOLEAN]

Idle == [phase |-> "idle", op |-> "save", i |-> 0, row |-> <<>>, seen |-> <<>>,
         joined |-> NoMember, entered |-> NoMember, guest |-> FALSE,
         to |-> "enabled", fresh |-> TRUE]

Ready(c) == call[c].phase = "idle" /\ requests < MaxRequests

Load(c, op, i, row, to) ==
    /\ requests' = requests + 1
    /\ call' = [call EXCEPT ![c] = [Idle EXCEPT !.phase = "loaded", !.op = op, !.i = i,
                                                !.row = row, !.to = to]]
    /\ UNCHANGED <<rows, overtaken>>

\* The end of a handler that wrote: the others now hold stale copies.
Finish(c) ==
    /\ call' = [d \in Clients |->
                 IF d = c \/ call[d].phase = "idle" THEN Idle
                 ELSE [call[d] EXCEPT !.fresh = FALSE]]
    /\ overtaken' = (overtaken \/ ~call[c].fresh)
    /\ UNCHANGED requests

-----------------------------------------------------------------------------
Pending(s, u) ==
    {i \in DOMAIN invites :
        invites[i].scope = s /\ invites[i].user = u /\ invites[i].status = "PENDING"}

\* The role is loaded WHERE it belongs to the project and has status true.
RoleIsOpen(s, r) == r \in RolesOf[s] /\ role[s][r] = "enabled"

New(s, u, r) == [scope |-> s, user |-> u, role |-> r, status |-> "PENDING", due |-> FALSE]

\* Mutant: only memberships count.
InUse_MembersOnly(s, r) == \E u \in Users : member[s][u] = [status |-> "ACTIVE", role |-> r]

\* ensureRoleNotInUse()
InUse(s, r) ==
    \/ \E u \in Users : member[s][u] = [status |-> "ACTIVE", role |-> r]
    \/ \E i \in DOMAIN invites :
        invites[i].scope = s /\ invites[i].role = r /\ invites[i].status = "PENDING"

-----------------------------------------------------------------------------
(***************************************************************************)
(* The handlers, up to the first write.                                    *)
(***************************************************************************)
Invited(c, s, u, r) ==
    /\ Len(invites) < MaxInvites
    /\ RoleIsOpen(s, r)
    /\ member[s][u].status # "ACTIVE"
    /\ Pending(s, u) = {}
    /\ Load(c, "invite", 0, New(s, u, r), "enabled")

CreateInvite(c, p, u, r) == p \in Projects /\ Invited(c, p, u, r)

CreateWorkspaceInvite(c, u, r) == Invited(c, Workspace, u, r)

Change(c, i, row) == invites[i].status = "PENDING" /\ Load(c, "save", i, row, "enabled")

ResendInvite(c, i) == Change(c, i, [invites[i] EXCEPT !.due = FALSE])

CancelInvite(c, i) == Change(c, i, [invites[i] EXCEPT !.status = "REVOKED"])

DeclineInvite(c, i) == Change(c, i, [invites[i] EXCEPT !.status = "DECLINED"])

\* An invitation is found to have expired when someone tries to accept it.
ExpireInvite(c, i) == invites[i].due /\ Change(c, i, [invites[i] EXCEPT !.status = "EXPIRED"])

AcceptInvite(c, i) ==
    /\ invites[i].status = "PENDING" /\ ~invites[i].due
    /\ RoleIsOpen(invites[i].scope, invites[i].role)
    /\ Load(c, "accept", i, [invites[i] EXCEPT !.status = "ACCEPTED"], "enabled")

UpdateMemberRole(c, p, u, r) ==
    /\ p \in Projects
    /\ RoleIsOpen(p, r)
    /\ member[p][u].status = "ACTIVE"
    /\ Load(c, "role", 0, New(p, u, r), "enabled")

\* A member gets the role; an invitation that is pending is changed to it;
\* otherwise the user is invited.
AssignProjectMember(c, p, u, r) ==
    /\ p \in Projects
    /\ RoleIsOpen(p, r)
    /\ \/ UpdateMemberRole(c, p, u, r)
       \/ /\ member[p][u].status # "ACTIVE"
          /\ \E i \in Pending(p, u) : Change(c, i, [invites[i] EXCEPT !.role = r])
       \/ Invited(c, p, u, r)

UpdateRoleStatus(c, p, r, to) ==
    /\ p \in Projects
    /\ r \in RolesOf[p] /\ role[p][r] # "deleted"
    /\ to = "enabled" \/ (to = "disabled" /\ r \notin Protected /\ ~InUse(p, r))
    /\ \E u \in Users : Load(c, "status", 0, New(p, u, r), to)

DeleteRole(c, p, r) ==
    /\ p \in Projects
    /\ r \in RolesOf[p] /\ role[p][r] # "deleted"
    /\ r \notin Protected /\ ~InUse(p, r)
    /\ \E u \in Users : Load(c, "delete", 0, New(p, u, r), "deleted")

-----------------------------------------------------------------------------
(***************************************************************************)
(* Their writes.                                                           *)
(***************************************************************************)
\* The transaction of an acceptance reads both memberships and the Guest role.
BeginAccept(c) ==
    LET row == call[c].row IN
    /\ call[c].phase = "loaded" /\ call[c].op = "accept"
    /\ call' = [call EXCEPT ![c].phase = "begun",
                            ![c].joined = member[row.scope][row.user],
                            ![c].entered = member[Workspace][row.user],
                            ![c].guest = guests > 0]
    /\ UNCHANGED <<rows, overtaken, requests>>

\* save() reads the row again.
Reread(c) ==
    /\ \/ call[c].phase = "loaded" /\ call[c].op = "save"
       \/ call[c].phase = "begun"
    /\ call' = [call EXCEPT ![c].phase = "saving", ![c].seen = invites[call[c].i]]
    /\ UNCHANGED <<rows, overtaken, requests>>

\* The row as the save leaves it: columns that looked unchanged are kept.
Saved(c) ==
    [f \in DOMAIN call[c].row |->
        IF call[c].row[f] # call[c].seen[f] THEN call[c].row[f] ELSE invites[call[c].i][f]]

\* The partial unique index: one pending invitation of a user to a scope.
IndexAllows(row, others) == row.status = "PENDING" => Pending(row.scope, row.user) \subseteq others

SaveInvite(c) ==
    /\ call[c].phase = "saving" /\ call[c].op = "save"
    /\ IndexAllows(Saved(c), {call[c].i})
    /\ role[call[c].row.scope][call[c].row.role] # "deleted"
    /\ invites' = [invites EXCEPT ![call[c].i] = Saved(c)]
    /\ Finish(c)
    /\ UNCHANGED <<member, role, guests>>

InsertInvite(c) ==
    /\ call[c].phase = "loaded" /\ call[c].op = "invite"
    /\ Len(invites) < MaxInvites
    /\ IndexAllows(call[c].row, {})
    /\ role[call[c].row.scope][call[c].row.role] # "deleted"
    /\ invites' = Append(invites, call[c].row)
    /\ Finish(c)
    /\ UNCHANGED <<member, role, guests>>

\* Mutant: any row is taken for a membership.
Entered_AnyRow(c) ==
    IF call[c].entered.status = "none" THEN [status |-> "ACTIVE", role |-> Guest]
    ELSE call[c].entered

\* ensureWorkspaceMembership(): a member stays as they are, a removed one is
\* active again, and anyone else becomes a guest.
Entered(c) ==
    IF call[c].entered.status = "none" THEN [status |-> "ACTIVE", role |-> Guest]
    ELSE [call[c].entered EXCEPT !.status = "ACTIVE"]

\* Rows that were absent are inserted, which a row inserted since prevents.
CommitAccept(c) ==
    LET row == call[c].row
        joins == [status |-> "ACTIVE", role |-> row.role]
    IN
    /\ call[c].phase = "saving" /\ call[c].op = "accept"
    /\ call[c].joined.status = "none" => member[row.scope][row.user].status = "none"
    /\ call[c].entered.status = "none" => member[Workspace][row.user].status = "none"
    /\ IF row.scope = Workspace
       THEN /\ member' = [member EXCEPT ![Workspace][row.user] = joins]
            /\ UNCHANGED guests
       ELSE /\ member' = [member EXCEPT ![row.scope][row.user] = joins,
                                        ![Workspace][row.user] =
                            IF call[c].entered.status = "ACTIVE" THEN @ ELSE Entered(c)]
            /\ guests' = IF call[c].entered.status = "none" /\ ~call[c].guest
                         THEN guests + 1 ELSE guests
    /\ role[row.scope][row.role] # "deleted"
    /\ invites' = [invites EXCEPT ![call[c].i] = Saved(c)]
    /\ Finish(c)
    /\ UNCHANGED role

SaveMemberRole(c) ==
    LET row == call[c].row IN
    /\ call[c].phase = "loaded" /\ call[c].op = "role"
    /\ role[row.scope][row.role] # "deleted"
    /\ member' = [member EXCEPT ![row.scope][row.user] = [status |-> "ACTIVE", role |-> row.role]]
    /\ Finish(c)
    /\ UNCHANGED <<invites, role, guests>>

\* Saving a role that was deleted inserts it again.
SaveRole(c) ==
    /\ call[c].phase = "loaded" /\ call[c].op = "status"
    /\ role' = [role EXCEPT ![call[c].row.scope][call[c].row.role] = call[c].to]
    /\ Finish(c)
    /\ UNCHANGED <<invites, member, guests>>

\* The foreign keys of invitations and memberships keep the row they name.
RemoveRole(c) ==
    LET s == call[c].row.scope
        r == call[c].row.role
    IN
    /\ call[c].phase = "loaded" /\ call[c].op = "delete"
    /\ \A u \in Users : member[s][u].role # r
    /\ \A i \in DOMAIN invites : invites[i].scope = s => invites[i].role # r
    /\ role' = [role EXCEPT ![s][r] = "deleted"]
    /\ Finish(c)
    /\ UNCHANGED <<invites, member, guests>>

\* A handler ends without writing: an error, or a constraint that refuses it.
Abort(c) ==
    /\ call[c].phase # "idle"
    /\ call' = [call EXCEPT ![c] = Idle]
    /\ UNCHANGED <<rows, overtaken, requests>>

-----------------------------------------------------------------------------
\* An administrator creates a user, who is a member of the workspace at once.
CreateUser(u, r) ==
    /\ r \in RolesOf[Workspace]
    /\ \A s \in Scopes : member[s][u].status = "none"
    /\ \A i \in DOMAIN invites : invites[i].user # u
    /\ \A c \in Clients : call[c].phase # "idle" => call[c].row.user # u
    /\ member' = [member EXCEPT ![Workspace][u] = [status |-> "ACTIVE", role |-> r]]
    /\ UNCHANGED <<invites, role, guests, call, overtaken, requests>>

\* The time to live of an invitation runs out.
TimePasses(i) ==
    /\ invites[i].status = "PENDING" /\ ~invites[i].due
    /\ invites' = [invites EXCEPT ![i].due = TRUE]
    /\ UNCHANGED <<member, role, guests, call, overtaken, requests>>

-----------------------------------------------------------------------------
\* The system starts with members who have roles of their projects, and who
\* are members of the workspace.
ASSUME MembershipsAssumption ==
    \A m \in Memberships :
        /\ m \in [Scopes -> [Users -> Member]]
        /\ \A p \in Projects, u \in Users : m[p][u].status = "ACTIVE" =>
              m[p][u].role \in Roles /\ m[Workspace][u].status = "ACTIVE"

Init ==
    /\ invites = <<>>
    /\ member \in Memberships
    /\ role = [s \in Scopes |-> [r \in Roles |-> "enabled"]]
    /\ guests = 0
    /\ call = [c \in Clients |-> Idle]
    /\ overtaken = FALSE
    /\ requests = 0

Request(c) ==
    /\ Ready(c)
    /\ \/ \E p \in Projects, r \in Roles :
           \/ DeleteRole(c, p, r)
           \/ \E to \in {"enabled", "disabled"} : UpdateRoleStatus(c, p, r, to)
           \/ \E u \in Users : \/ CreateInvite(c, p, u, r)
                               \/ UpdateMemberRole(c, p, u, r)
                               \/ AssignProjectMember(c, p, u, r)
       \/ \E u \in Users, r \in Roles : CreateWorkspaceInvite(c, u, r)
       \/ \E i \in DOMAIN invites :
           \/ ResendInvite(c, i)
           \/ CancelInvite(c, i)
           \/ DeclineInvite(c, i)
           \/ ExpireInvite(c, i)
           \/ AcceptInvite(c, i)

Write(c) ==
    \/ BeginAccept(c) \/ Reread(c)
    \/ SaveInvite(c) \/ InsertInvite(c) \/ CommitAccept(c)
    \/ SaveMemberRole(c) \/ SaveRole(c) \/ RemoveRole(c)
    \/ Abort(c)

Next ==
    \/ \E c \in Clients : Request(c) \/ Write(c)
    \/ \E u \in Users, r \in Roles : CreateUser(u, r)
    \/ \E i \in DOMAIN invites : TimePasses(i)

Spec == Init /\ [][Next]_vars

-----------------------------------------------------------------------------
\* Every variable has its type.
TypeOK ==
    /\ invites \in Seq(Invite) /\ Len(invites) <= MaxInvites
    /\ member \in [Scopes -> [Users -> Member]]
    /\ role \in [Scopes -> [Roles -> ProjectRole]]
    /\ guests \in Nat
    /\ call \in [Clients -> Call]
    /\ overtaken \in BOOLEAN
    /\ requests \in 0 .. MaxRequests

\* Whoever is an active member of a project is an active member of its
\* workspace, without which WorkspaceGuard refuses every request for it.
MembersCanEnter ==
    \A p \in Projects, u \in Users :
        member[p][u].status = "ACTIVE" => member[Workspace][u].status = "ACTIVE"

\* An accepted invitation has made its user an active member, whatever other
\* handlers about the same invitation do meanwhile.
AcceptedIsMember ==
    \A i \in DOMAIN invites :
        invites[i].status = "ACCEPTED" =>
            member[invites[i].scope][invites[i].user].status = "ACTIVE"

\* Whoever has joined a project can work in it.
EntryIsGranted == MembersCanEnter /\ AcceptedIsMember

\* As long as no handler was overtaken, no role that an active member or a
\* pending invitation has is disabled: ensureRoleNotInUse() and the checks of
\* the role on invitation, acceptance and assignment guard each other.
RolesInUseAreEnabledIfFresh ==
    ~overtaken =>
        /\ \A p \in Projects, u \in Users :
            member[p][u].status = "ACTIVE" => role[p][member[p][u].role] = "enabled"
        /\ \A i \in DOMAIN invites :
            invites[i].status = "PENDING" => role[invites[i].scope][invites[i].role] = "enabled"

=============================================================================
