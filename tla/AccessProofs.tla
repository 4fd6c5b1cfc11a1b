---------------------------- MODULE AccessProofs ----------------------------
(***************************************************************************)
(* What the small components that MCAccess composes promise, proved of     *)
(* each of them by itself: entry by invitation, the configuration of a     *)
(* project, sessions, reports from the field, and documents.               *)
(*                                                                         *)
(* Each part states its inductive invariant, shows which facts of it every *)
(* handler carries from its reads to its saves, and ends in the theorem.   *)
(***************************************************************************)
EXTENDS Invitations, ProjectConfig, Sessions, FieldReports, Documents,
        FiniteSetTheorems, SequenceTheorems, TLAPS

-----------------------------------------------------------------------------
(***************************************************************************)
(* Invitations and memberships.                                            *)
(*                                                                         *)
(* What a handler has loaded keeps what entry needs: the row it will save  *)
(* is of the same user and scope as the row in the table, only an          *)
(* acceptance makes a row accepted, and a membership that was found active *)
(* still is.                                                               *)
(***************************************************************************)
Busy(c) == call[c].phase # "idle"

IsOf(row, i) ==
    i \in DOMAIN invites /\ row.scope = invites[i].scope /\ row.user = invites[i].user

Loaded(c) ==
    LET k == call[c] IN
    /\ k.row \in Invite
    /\ k.op = "invite" => k.row.status = "PENDING"
    /\ k.op \in {"save", "accept"} => IsOf(k.row, k.i)
    /\ k.op = "save" => k.row.status # "ACCEPTED"
    /\ k.op = "accept" /\ k.phase # "loaded" /\ k.entered.status = "ACTIVE" =>
          member[Workspace][k.row.user].status = "ACTIVE"
    /\ k.op = "role" =>
          k.row.scope \in Projects /\ member[k.row.scope][k.row.user].status = "ACTIVE"
    /\ k.op \in {"status", "delete"} => k.row.scope \in Projects
    /\ k.phase = "saving" => k.op \in {"save", "accept"} /\ k.seen \in Invite
    /\ k.phase = "begun" => k.op = "accept"

MembersHaveRoles ==
    \A p \in Projects, u \in Users : member[p][u].status = "ACTIVE" => member[p][u].role \in Roles

EntryInv ==
    /\ TypeOK /\ EntryIsGranted /\ MembersHaveRoles
    /\ \A c \in Clients : Busy(c) => Loaded(c)

(***************************************************************************)
(* What a handler checked still holds, as long as nobody else has written. *)
(***************************************************************************)
Checked(c) ==
    LET k == call[c] IN
    /\ k.op \in {"invite", "save", "accept", "role"} => role[k.row.scope][k.row.role] = "enabled"
    /\ k.op \in {"status", "delete"} => k.to = "enabled" \/ ~InUse(k.row.scope, k.row.role)
    /\ k.phase = "saving" => k.seen.role = invites[k.i].role

FreshInv ==
    /\ RolesInUseAreEnabledIfFresh
    /\ ~overtaken => \A c \in Clients : Busy(c) /\ call[c].fresh => Checked(c)

LEMMA EntryInit == Init => EntryInv /\ FreshInv
<1> SUFFICES ASSUME Init PROVE EntryInv /\ FreshInv
  OBVIOUS
<1>1. Idle \in Call
  BY InvitationsAssumption
     DEF Call, Idle, Phases, Ops, SomeInvite, Member, NoMember, ProjectRole
<1>2. member \in [Scopes -> [Users -> Member]]
  BY MembershipsAssumption DEF Init
<1>3. \A p \in Projects, u \in Users : member[p][u].status = "ACTIVE" =>
          member[p][u].role \in Roles /\ member[Workspace][u].status = "ACTIVE"
  BY MembershipsAssumption DEF Init
<1>4. TypeOK
  <2>1. invites \in Seq(Invite) /\ Len(invites) <= MaxInvites
    BY InvitationsAssumption DEF Init
  <2>2. role \in [Scopes -> [Roles -> ProjectRole]]
    BY DEF Init, ProjectRole
  <2>3. call \in [Clients -> Call]
    BY <1>1 DEF Init
  <2>4. guests \in Nat /\ overtaken \in BOOLEAN
    BY DEF Init
  <2>5. requests \in 0 .. MaxRequests
    BY InvitationsAssumption DEF Init
  <2> QED
    BY <1>2, <2>1, <2>2, <2>3, <2>4, <2>5 DEF TypeOK
<1>5. EntryIsGranted /\ MembersHaveRoles
  BY <1>3 DEF Init, EntryIsGranted, MembersCanEnter, AcceptedIsMember, MembersHaveRoles
<1>6. \A c \in Clients : ~Busy(c)
  BY DEF Init, Busy, Idle
<1>7. RolesInUseAreEnabledIfFresh
  BY <1>3 DEF Init, RolesInUseAreEnabledIfFresh, Scopes
<1> QED
  BY <1>4, <1>5, <1>6, <1>7 DEF EntryInv, FreshInv

(***************************************************************************)
(* What each request loads, and what it has checked.                       *)
(***************************************************************************)
LoadedRow(op, i, row) ==
    /\ row \in Invite
    /\ op = "invite" => row.status = "PENDING"
    /\ op \in {"save", "accept"} => IsOf(row, i)
    /\ op = "save" => row.status # "ACCEPTED"
    /\ op = "role" => row.scope \in Projects /\ member[row.scope][row.user].status = "ACTIVE"
    /\ op \in {"status", "delete"} => row.scope \in Projects

CheckedRow(op, row, to) ==
    /\ op \in {"invite", "save", "accept", "role"} => role[row.scope][row.role] = "enabled"
    /\ op \in {"status", "delete"} => to = "enabled" \/ ~InUse(row.scope, row.role)

Asked(c) ==
    \E op \in Ops, i \in 0 .. MaxInvites, row \in Invite, to \in ProjectRole :
        /\ Load(c, op, i, row, to)
        /\ LoadedRow(op, i, row)
        /\ ~overtaken /\ RolesInUseAreEnabledIfFresh => CheckedRow(op, row, to)

LEMMA NewIsInvite ==
    ASSUME NEW s \in Scopes, NEW u \in Users, NEW r \in Roles
    PROVE  /\ New(s, u, r) \in Invite
           /\ New(s, u, r).scope = s /\ New(s, u, r).user = u /\ New(s, u, r).role = r
           /\ New(s, u, r).status = "PENDING"
  BY DEF New, Invite, InviteStatuses

LEMMA InvitedAsks ==
    ASSUME TypeOK, NEW c \in Clients, NEW s \in Scopes, NEW u \in Users, NEW r \in Roles,
           Invited(c, s, u, r)
    PROVE  Asked(c)
<1>1. /\ "invite" \in Ops /\ 0 \in 0 .. MaxInvites /\ "enabled" \in ProjectRole
  BY InvitationsAssumption DEF Ops, ProjectRole
<1>2. Load(c, "invite", 0, New(s, u, r), "enabled")
  BY DEF Invited
<1>3. LoadedRow("invite", 0, New(s, u, r))
  BY NewIsInvite DEF LoadedRow
<1>4. CheckedRow("invite", New(s, u, r), "enabled")
  BY NewIsInvite DEF CheckedRow, Invited, RoleIsOpen
<1> QED
  BY <1>1, <1>2, <1>3, <1>4, NewIsInvite DEF Asked

\* The rows that are saved keep scope and user, and have an enabled role: the
\* old one, since the invitation is pending, or the one that was given.
LEMMA ChangeAsks ==
    ASSUME TypeOK, NEW c \in Clients, NEW i \in DOMAIN invites, NEW row \in Invite,
           IsOf(row, i), row.status # "ACCEPTED", Change(c, i, row),
           row.role = invites[i].role \/ role[row.scope][row.role] = "enabled"
    PROVE  Asked(c)
<1>1. "save" \in Ops /\ i \in 0 .. MaxInvites /\ "enabled" \in ProjectRole
  BY InvitationsAssumption DEF Ops, ProjectRole, TypeOK
<1>2. Load(c, "save", i, row, "enabled") /\ invites[i].status = "PENDING"
  BY DEF Change
<1>3. LoadedRow("save", i, row)
  BY DEF LoadedRow
<1>4. ~overtaken /\ RolesInUseAreEnabledIfFresh => CheckedRow("save", row, "enabled")
  BY <1>2 DEF CheckedRow, RolesInUseAreEnabledIfFresh, IsOf
<1> QED
  BY <1>1, <1>2, <1>3, <1>4 DEF Asked

LEMMA UpdateMemberAsks ==
    ASSUME TypeOK, NEW c \in Clients, NEW p \in Projects, NEW u \in Users, NEW r \in Roles,
           UpdateMemberRole(c, p, u, r)
    PROVE  Asked(c)
<1>1. "role" \in Ops /\ 0 \in 0 .. MaxInvites /\ "enabled" \in ProjectRole /\ p \in Scopes
  BY InvitationsAssumption DEF Ops, ProjectRole, Scopes
<1>2. Load(c, "role", 0, New(p, u, r), "enabled")
  BY DEF UpdateMemberRole
<1>3. LoadedRow("role", 0, New(p, u, r))
  BY <1>1, NewIsInvite DEF LoadedRow, UpdateMemberRole
<1>4. CheckedRow("role", New(p, u, r), "enabled")
  BY <1>1, NewIsInvite DEF CheckedRow, UpdateMemberRole, RoleIsOpen
<1> QED
  BY <1>1, <1>2, <1>3, <1>4, NewIsInvite DEF Asked

LEMMA RoleAsks ==
    ASSUME TypeOK, NEW c \in Clients, NEW p \in Projects, NEW r \in Roles, NEW to \in ProjectRole,
           DeleteRole(c, p, r) \/ UpdateRoleStatus(c, p, r, to)
    PROVE  Asked(c)
<1>1. /\ {"status", "delete"} \subseteq Ops /\ 0 \in 0 .. MaxInvites /\ p \in Scopes
      /\ "deleted" \in ProjectRole
  BY InvitationsAssumption DEF Ops, Scopes, ProjectRole
<1>2. CASE DeleteRole(c, p, r)
  <2>1. PICK u \in Users : Load(c, "delete", 0, New(p, u, r), "deleted")
    BY <1>2 DEF DeleteRole
  <2>2. Load(c, "delete", 0, New(p, u, r), "deleted")
    BY <2>1
  <2>3. LoadedRow("delete", 0, New(p, u, r))
    BY <1>1, NewIsInvite DEF LoadedRow
  <2>4. CheckedRow("delete", New(p, u, r), "deleted")
    BY <1>1, <1>2, NewIsInvite DEF CheckedRow, DeleteRole
  <2> QED
    BY <1>1, <2>2, <2>3, <2>4, NewIsInvite DEF Asked
<1>3. CASE UpdateRoleStatus(c, p, r, to)
  <2>1. PICK u \in Users : Load(c, "status", 0, New(p, u, r), to)
    BY <1>3 DEF UpdateRoleStatus
  <2>2. Load(c, "status", 0, New(p, u, r), to)
    BY <2>1
  <2>3. LoadedRow("status", 0, New(p, u, r))
    BY <1>1, NewIsInvite DEF LoadedRow
  <2>4. CheckedRow("status", New(p, u, r), to)
    BY <1>1, <1>3, NewIsInvite DEF CheckedRow, UpdateRoleStatus
  <2> QED
    BY <1>1, <2>2, <2>3, <2>4, NewIsInvite DEF Asked
<1> QED
  BY <1>2, <1>3

LEMMA AnswerAsks ==
    ASSUME TypeOK, NEW c \in Clients, NEW i \in DOMAIN invites,
           \/ ResendInvite(c, i) \/ CancelInvite(c, i) \/ DeclineInvite(c, i)
           \/ ExpireInvite(c, i) \/ AcceptInvite(c, i)
    PROVE  Asked(c)
<1>1. invites[i] \in Invite /\ i \in 0 .. MaxInvites
  BY InvitationsAssumption DEF TypeOK
<1>2. ASSUME NEW st \in InviteStatuses \ {"ACCEPTED"},
             Change(c, i, [invites[i] EXCEPT !.status = st])
      PROVE  Asked(c)
  <2> DEFINE row == [invites[i] EXCEPT !.status = st]
  <2>1. row \in Invite /\ IsOf(row, i) /\ row.status # "ACCEPTED" /\ row.role = invites[i].role
    BY <1>1 DEF Invite, IsOf, InviteStatuses
  <2> QED
    BY <1>2, <2>1, ChangeAsks
<1>3. CASE ResendInvite(c, i)
  <2> DEFINE row == [invites[i] EXCEPT !.due = FALSE]
  <2>1. /\ row \in Invite /\ IsOf(row, i) /\ row.role = invites[i].role
        /\ row.status = invites[i].status
    BY <1>1 DEF Invite, IsOf
  <2>2. Change(c, i, row) /\ invites[i].status = "PENDING"
    BY <1>3 DEF ResendInvite, Change
  <2> HIDE DEF row
  <2> QED
    BY <2>1, <2>2, ChangeAsks
<1>4. CASE CancelInvite(c, i)
  BY <1>2, <1>4 DEF CancelInvite, InviteStatuses
<1>5. CASE DeclineInvite(c, i)
  BY <1>2, <1>5 DEF DeclineInvite, InviteStatuses
<1>6. CASE ExpireInvite(c, i)
  BY <1>2, <1>6 DEF ExpireInvite, InviteStatuses
<1>7. CASE AcceptInvite(c, i)
  <2> DEFINE row == [invites[i] EXCEPT !.status = "ACCEPTED"]
  <2>1. row \in Invite /\ IsOf(row, i) /\ row.role = invites[i].role
    BY <1>1 DEF Invite, IsOf, InviteStatuses
  <2>2. /\ Load(c, "accept", i, row, "enabled")
        /\ role[invites[i].scope][invites[i].role] = "enabled"
    BY <1>7 DEF AcceptInvite, RoleIsOpen
  <2>3. "accept" \in Ops /\ "enabled" \in ProjectRole
    BY DEF Ops, ProjectRole
  <2> HIDE DEF row
  <2>4. LoadedRow("accept", i, row) /\ CheckedRow("accept", row, "enabled")
    BY <2>1, <2>2 DEF LoadedRow, CheckedRow, IsOf
  <2> QED
    BY <1>1, <2>1, <2>2, <2>3, <2>4 DEF Asked
<1> QED
  BY <1>3, <1>4, <1>5, <1>6, <1>7

LEMMA RequestAsks ==
    ASSUME TypeOK, NEW c \in Clients, Request(c)
    PROVE  Asked(c)
<1>1. Workspace \in Scopes /\ Projects \subseteq Scopes /\ {"enabled", "disabled"} \subseteq ProjectRole
  BY DEF Scopes, ProjectRole
<1>2. ASSUME NEW p \in Projects, NEW r \in Roles, NEW u \in Users, AssignProjectMember(c, p, u, r)
      PROVE  Asked(c)
  <2>1. CASE UpdateMemberRole(c, p, u, r)
    BY <2>1, UpdateMemberAsks
  <2>2. CASE Invited(c, p, u, r)
    BY <1>1, <2>2, InvitedAsks
  <2>3. CASE \E i \in Pending(p, u) : Change(c, i, [invites[i] EXCEPT !.role = r])
    <3>1. PICK i \in Pending(p, u) : Change(c, i, [invites[i] EXCEPT !.role = r])
      BY <2>3
    <3> DEFINE row == [invites[i] EXCEPT !.role = r]
    <3>2. i \in DOMAIN invites /\ invites[i].status = "PENDING" /\ invites[i] \in Invite
      BY <3>1 DEF Pending, TypeOK
    <3>3. /\ row \in Invite /\ IsOf(row, i) /\ row.status # "ACCEPTED" /\ row.role = r
          /\ row.scope = p
      BY <3>1, <3>2 DEF Invite, IsOf, Pending
    <3>4. role[p][r] = "enabled"
      BY <1>2 DEF AssignProjectMember, RoleIsOpen
    <3> HIDE DEF row
    <3> QED
      BY <3>1, <3>2, <3>3, <3>4, ChangeAsks DEF row
  <2> QED
    BY <1>2, <2>1, <2>2, <2>3 DEF AssignProjectMember
<1>3. ASSUME NEW p \in Projects, NEW r \in Roles, DeleteRole(c, p, r)
      PROVE  Asked(c)
  BY <1>1, <1>3, RoleAsks
<1>4. ASSUME NEW p \in Projects, NEW r \in Roles, NEW to \in {"enabled", "disabled"},
             UpdateRoleStatus(c, p, r, to)
      PROVE  Asked(c)
  BY <1>1, <1>4, RoleAsks
<1>5. ASSUME NEW p \in Projects, NEW r \in Roles, NEW u \in Users,
             CreateInvite(c, p, u, r) \/ UpdateMemberRole(c, p, u, r)
      PROVE  Asked(c)
  BY <1>1, <1>5, UpdateMemberAsks, InvitedAsks DEF CreateInvite
<1>6. ASSUME NEW u \in Users, NEW r \in Roles, CreateWorkspaceInvite(c, u, r)
      PROVE  Asked(c)
  BY <1>1, <1>6, InvitedAsks DEF CreateWorkspaceInvite
<1> QED
  BY <1>2, <1>3, <1>4, <1>5, <1>6, AnswerAsks DEF Request

\* Rows keep what they are of, and an active member stays one.
Forward ==
    /\ \A i \in DOMAIN invites :
          /\ i \in DOMAIN invites'
          /\ invites'[i].scope = invites[i].scope /\ invites'[i].user = invites[i].user
    /\ \A s \in Scopes, u \in Users :
          member[s][u].status = "ACTIVE" => member'[s][u].status = "ACTIVE"

\* What another handler has loaded: it is as it was, fresh or not.
Untouched(d) ==
    /\ call'[d] \in Call /\ call'[d].phase = call[d].phase /\ call'[d].op = call[d].op
    /\ call'[d].i = call[d].i /\ call'[d].row = call[d].row /\ call'[d].seen = call[d].seen
    /\ call'[d].entered = call[d].entered

LEMMA LoadedKept ==
    ASSUME TypeOK, NEW d \in Clients, Forward, Untouched(d), Loaded(d)
    PROVE  Loaded(d)'
<1>1. Workspace \in Scopes /\ Projects \subseteq Scopes
  BY DEF Scopes
<1>2. call[d].row \in Invite
  BY DEF Loaded
<1>3. call[d].row.scope \in Scopes /\ call[d].row.user \in Users
  BY <1>2 DEF Invite
<1>4. IsOf(call[d].row, call[d].i) =>
          /\ call[d].i \in DOMAIN invites'
          /\ call[d].row.scope = invites'[call[d].i].scope
          /\ call[d].row.user = invites'[call[d].i].user
  BY DEF IsOf, Forward
<1> HIDE DEF Forward
<1>5. member[Workspace][call[d].row.user].status = "ACTIVE"
          => member'[Workspace][call[d].row.user].status = "ACTIVE"
  BY <1>1, <1>3 DEF Forward
<1>6. member[call[d].row.scope][call[d].row.user].status = "ACTIVE"
          => member'[call[d].row.scope][call[d].row.user].status = "ACTIVE"
  BY <1>1, <1>3 DEF Forward
<1> QED
  BY <1>4, <1>5, <1>6 DEF Loaded, Untouched, IsOf

\* The end of a handler that wrote: nobody has a fresh copy.
LEMMA Finished ==
    ASSUME TypeOK, NEW c \in Clients, Finish(c)
    PROVE  /\ call' \in [Clients -> Call]
           /\ overtaken' \in BOOLEAN /\ requests' = requests
           /\ \A d \in Clients : Busy(d)' => d # c /\ Busy(d) /\ Untouched(d) /\ ~call'[d].fresh
           /\ ~overtaken' => ~overtaken /\ call[c].fresh
<1>1. Idle \in Call
  BY InvitationsAssumption
     DEF Call, Idle, Phases, Ops, SomeInvite, Member, NoMember, ProjectRole
<1>2. \A d \in Clients : call[d] \in Call
  BY DEF TypeOK
<1>3. \A d \in Clients : [call[d] EXCEPT !.fresh = FALSE] \in Call
  BY <1>2 DEF Call
<1>4. ASSUME NEW d \in Clients
      PROVE  call'[d] = IF d = c \/ call[d].phase = "idle" THEN Idle
                        ELSE [call[d] EXCEPT !.fresh = FALSE]
  BY DEF Finish
<1>5. call' \in [Clients -> Call]
  BY <1>1, <1>3 DEF Finish
<1>6. ASSUME NEW d \in Clients, Busy(d)'
      PROVE  d # c /\ Busy(d) /\ Untouched(d) /\ ~call'[d].fresh
  <2>1. d # c /\ Busy(d)
    <3>1. Idle.phase = "idle"
      BY DEF Idle
    <3>2. call'[d] # Idle
      BY <1>6, <3>1 DEF Busy
    <3> QED
      BY <1>4, <3>2 DEF Busy
  <2>2. call'[d] = [call[d] EXCEPT !.fresh = FALSE] /\ call[d] \in Call
    BY <1>2, <1>4, <2>1 DEF Busy
  <2> QED
    BY <1>3, <2>1, <2>2 DEF Untouched, Call
<1>7. overtaken' \in BOOLEAN /\ requests' = requests /\ (~overtaken' => ~overtaken /\ call[c].fresh)
  BY <1>2 DEF Finish, TypeOK, Call
<1> QED
  BY <1>5, <1>6, <1>7

\* All that is left to show of a handler's write.
LEMMA WriteKeeps ==
    ASSUME EntryInv, NEW c \in Clients, Finish(c), Forward,
           invites' \in Seq(Invite), Len(invites') <= MaxInvites,
           member' \in [Scopes -> [Users -> Member]],
           role' \in [Scopes -> [Roles -> ProjectRole]],
           guests' \in Nat,
           EntryIsGranted', MembersHaveRoles'
    PROVE  EntryInv'
<1>1. TypeOK'
  BY Finished DEF EntryInv, TypeOK
<1>2. \A d \in Clients : Busy(d)' => Loaded(d)'
  BY Finished, LoadedKept DEF EntryInv
<1> QED
  BY <1>1, <1>2 DEF EntryInv

\* The row that is saved.
LEMMA SavedRow ==
    ASSUME EntryInv, NEW c \in Clients, call[c].phase = "saving"
    PROVE  /\ call[c].i \in DOMAIN invites /\ call[c].row \in Invite
           /\ Saved(c) \in Invite
           /\ Saved(c).scope = invites[call[c].i].scope /\ call[c].row.scope = Saved(c).scope
           /\ Saved(c).user = invites[call[c].i].user /\ call[c].row.user = Saved(c).user
           /\ \A f \in {"status", "role"} :
                 Saved(c)[f] = IF call[c].row[f] # call[c].seen[f] THEN call[c].row[f]
                               ELSE invites[call[c].i][f]
<1> DEFINE k == call[c]
<1>1. k.row \in Invite /\ IsOf(k.row, k.i) /\ k.seen \in Invite
  BY DEF EntryInv, Busy, Loaded
<1>2. k.i \in DOMAIN invites /\ invites[k.i] \in Invite
  BY <1>1 DEF EntryInv, TypeOK, IsOf
<1>3. k.row.scope = invites[k.i].scope /\ k.row.user = invites[k.i].user
  BY <1>1 DEF IsOf
<1>4. DOMAIN k.row = {"scope", "user", "role", "status", "due"}
  BY <1>1 DEF Invite
<1>5. Saved(c) = [f \in {"scope", "user", "role", "status", "due"} |->
                     IF k.row[f] # k.seen[f] THEN k.row[f] ELSE invites[k.i][f]]
  BY <1>4 DEF Saved
<1> HIDE DEF k
<1>6. /\ Saved(c).scope = invites[k.i].scope /\ Saved(c).user = invites[k.i].user
      /\ \A f \in {"status", "role"} :
            Saved(c)[f] = IF k.row[f] # k.seen[f] THEN k.row[f] ELSE invites[k.i][f]
      /\ Saved(c).due = IF k.row.due # k.seen.due THEN k.row.due ELSE invites[k.i].due
  BY <1>3, <1>5
<1>7. Saved(c) = [scope |-> Saved(c).scope, user |-> Saved(c).user, role |-> Saved(c).role,
                  status |-> Saved(c).status, due |-> Saved(c).due]
  BY <1>5
<1>8. /\ Saved(c).scope \in Scopes /\ Saved(c).user \in Users /\ Saved(c).role \in Roles
      /\ Saved(c).status \in InviteStatuses /\ Saved(c).due \in BOOLEAN
  BY <1>1, <1>2, <1>6 DEF Invite
<1>9. Saved(c) \in Invite
  BY <1>7, <1>8 DEF Invite
<1> QED
  BY <1>1, <1>2, <1>3, <1>6, <1>9 DEF k

\* The table after a save.
LEMMA SavedInvites ==
    ASSUME EntryInv, NEW c \in Clients, call[c].phase = "saving",
           invites' = [invites EXCEPT ![call[c].i] = Saved(c)]
    PROVE  /\ invites' \in Seq(Invite) /\ Len(invites') <= MaxInvites
           /\ DOMAIN invites' = DOMAIN invites
           /\ \A i \in DOMAIN invites :
                 /\ invites'[i] = IF i = call[c].i THEN Saved(c) ELSE invites[i]
                 /\ invites'[i].scope = invites[i].scope /\ invites'[i].user = invites[i].user
<1>1. invites \in Seq(Invite) /\ Len(invites) <= MaxInvites
  BY DEF EntryInv, TypeOK
<1>2. call[c].i \in DOMAIN invites /\ Saved(c) \in Invite
  BY SavedRow
<1>3. invites' \in Seq(Invite) /\ Len(invites') = Len(invites) /\ DOMAIN invites' = DOMAIN invites
  BY <1>1, <1>2
<1> QED
  BY <1>1, <1>2, <1>3, SavedRow

(***************************************************************************)
(* The writes, one by one.                                                 *)
(***************************************************************************)
\* Joining a scope with a role: a project with one of its roles, and then the
\* workspace too.
LEMMA JoinKeepsMembers ==
    ASSUME EntryInv, member' \in [Scopes -> [Users -> Member]],
           \A s \in Scopes, u \in Users :
              \/ member'[s][u] = member[s][u]
              \/ /\ member'[s][u].status = "ACTIVE"
                 /\ s \in Projects => /\ member'[s][u].role \in Roles
                                      /\ member'[Workspace][u].status = "ACTIVE"
    PROVE  /\ \A s \in Scopes, u \in Users :
                 member[s][u].status = "ACTIVE" => member'[s][u].status = "ACTIVE"
           /\ MembersCanEnter' /\ MembersHaveRoles'
<1>1. Workspace \in Scopes /\ Projects \subseteq Scopes
  BY DEF Scopes
<1>2. \A s \in Scopes, u \in Users :
          member[s][u].status = "ACTIVE" => member'[s][u].status = "ACTIVE"
  OBVIOUS
<1>3. MembersCanEnter'
  <2> SUFFICES ASSUME NEW p \in Projects, NEW u \in Users, member'[p][u].status = "ACTIVE"
               PROVE  member'[Workspace][u].status = "ACTIVE"
    BY DEF MembersCanEnter
  <2>1. CASE member'[p][u] = member[p][u]
    BY <1>1, <1>2, <2>1 DEF EntryInv, EntryIsGranted, MembersCanEnter
  <2>2. CASE member'[p][u] # member[p][u]
    BY <1>1, <2>2
  <2> QED
    BY <2>1, <2>2
<1>4. MembersHaveRoles'
  <2> SUFFICES ASSUME NEW p \in Projects, NEW u \in Users, member'[p][u].status = "ACTIVE"
               PROVE  member'[p][u].role \in Roles
    BY DEF MembersHaveRoles
  <2>1. CASE member'[p][u] = member[p][u]
    BY <2>1 DEF EntryInv, MembersHaveRoles
  <2>2. CASE member'[p][u] # member[p][u]
    BY <1>1, <2>2
  <2> QED
    BY <2>1, <2>2
<1> QED
  BY <1>2, <1>3, <1>4

LEMMA EntryLoads ==
    ASSUME EntryInv, NEW c \in Clients, Asked(c), requests < MaxRequests
    PROVE  EntryInv'
<1>1. PICK op \in Ops, i \in 0 .. MaxInvites, row \in Invite, to \in ProjectRole :
          Load(c, op, i, row, to) /\ LoadedRow(op, i, row)
  BY DEF Asked
<1>0. UNCHANGED <<rows, overtaken>> /\ requests' = requests + 1
  BY <1>1 DEF Load
<1> DEFINE k == [Idle EXCEPT !.phase = "loaded", !.op = op, !.i = i, !.row = row, !.to = to]
<1>2. k \in Call
  BY InvitationsAssumption
     DEF Call, Idle, Phases, Ops, SomeInvite, Member, NoMember, ProjectRole
<1>3. call \in [Clients -> Call]
  BY DEF EntryInv, TypeOK
<1>4. call' = [call EXCEPT ![c] = k]
  BY <1>1 DEF Load
<1>5. call'[c] = k /\ \A d \in Clients \ {c} : call'[d] = call[d]
  BY <1>3, <1>4
<1>6. TypeOK'
  BY <1>0, <1>2, <1>3, <1>4, InvitationsAssumption DEF EntryInv, TypeOK, rows
<1>7. Loaded(c)'
  <2>1. k.phase = "loaded" /\ k.op = op /\ k.i = i /\ k.row = row
    BY DEF Idle
  <2> HIDE DEF k
  <2> QED
    BY <1>0, <1>1, <1>5, <2>1 DEF Loaded, LoadedRow, IsOf, rows
<1>8. \A d \in Clients \ {c} : Busy(d)' => Loaded(d)'
  BY <1>0, <1>5 DEF EntryInv, Loaded, Busy, IsOf, rows
<1>9. EntryIsGranted' /\ MembersHaveRoles'
  BY <1>0 DEF EntryInv, EntryIsGranted, MembersCanEnter, AcceptedIsMember, MembersHaveRoles, rows
<1> QED
  BY <1>6, <1>7, <1>8, <1>9 DEF EntryInv

LEMMA EntryReads ==
    ASSUME EntryInv, NEW c \in Clients, BeginAccept(c) \/ Reread(c) \/ Abort(c)
    PROVE  EntryInv'
<1>1. call \in [Clients -> Call] /\ call[c] \in Call
  BY DEF EntryInv, TypeOK
<1>2. UNCHANGED <<rows, overtaken, requests>>
  BY DEF BeginAccept, Reread, Abort
<1>3. EntryIsGranted' /\ MembersHaveRoles'
  BY <1>2 DEF EntryInv, EntryIsGranted, MembersCanEnter, AcceptedIsMember, MembersHaveRoles, rows
<1>4. \A d \in Clients : call'[d] = call[d] => (Busy(d)' => Loaded(d)')
  BY <1>2 DEF EntryInv, Loaded, Busy, IsOf, rows
<1>5. CASE BeginAccept(c)
  <2> DEFINE row == call[c].row
             k == [call[c] EXCEPT !.phase = "begun", !.joined = member[row.scope][row.user],
                                  !.entered = member[Workspace][row.user], !.guest = guests > 0]
  <2>1. Busy(c) /\ Loaded(c) /\ call[c].op = "accept"
    BY <1>5 DEF BeginAccept, Busy, EntryInv
  <2>2. /\ row \in Invite /\ row.scope \in Scopes /\ row.user \in Users
        /\ Workspace \in Scopes
    BY <2>1 DEF Loaded, Invite, Scopes
  <2>3. k \in Call
    <3>1. /\ member[row.scope][row.user] \in Member /\ member[Workspace][row.user] \in Member
          /\ (guests > 0) \in BOOLEAN
      BY <2>2 DEF EntryInv, TypeOK
    <3> DEFINE found == member[row.scope][row.user]
               entered == member[Workspace][row.user]
               guest == guests > 0
    <3> HIDE DEF found, entered, guest, row
    <3>2. [call[c] EXCEPT !.phase = "begun", !.joined = found, !.entered = entered,
                          !.guest = guest] \in Call
      BY <1>1, <3>1 DEF Call, Phases, found, entered, guest
    <3> QED
      BY <3>2 DEF found, entered, guest
  <2>4. call' = [call EXCEPT ![c] = k]
    BY <1>5 DEF BeginAccept
  <2>5. TypeOK'
    BY <1>1, <1>2, <2>3, <2>4 DEF EntryInv, TypeOK, rows
  <2>6. Loaded(c)'
    <3>1. /\ k.phase = "begun" /\ k.op = "accept" /\ k.i = call[c].i /\ k.row = call[c].row
          /\ k.entered = member[Workspace][row.user]
      BY <1>1, <2>1 DEF Call
    <3>2. call'[c] = k
      BY <1>1, <2>4
    <3> HIDE DEF k
    <3> QED
      BY <1>2, <2>1, <3>1, <3>2 DEF Loaded, IsOf, rows
  <2>7. \A d \in Clients : d # c => call'[d] = call[d]
    BY <1>1, <2>4
  <2> QED
    BY <1>3, <1>4, <2>5, <2>6, <2>7 DEF EntryInv
<1>6. CASE Reread(c)
  <2> DEFINE k == [call[c] EXCEPT !.phase = "saving", !.seen = invites[call[c].i]]
  <2>1. Busy(c) /\ Loaded(c) /\ call[c].op \in {"save", "accept"}
    BY <1>6 DEF Reread, Busy, EntryInv, Loaded
  <2>2. call[c].i \in DOMAIN invites /\ invites[call[c].i] \in Invite
    BY <2>1 DEF Loaded, IsOf, EntryInv, TypeOK
  <2>3. k \in Call
    BY <1>1, <2>2 DEF Call, Phases, SomeInvite
  <2>4. call' = [call EXCEPT ![c] = k]
    BY <1>6 DEF Reread
  <2>5. TypeOK'
    BY <1>1, <1>2, <2>3, <2>4 DEF EntryInv, TypeOK, rows
  <2>6. Loaded(c)'
    <3>1. /\ k.phase = "saving" /\ k.op = call[c].op /\ k.i = call[c].i /\ k.row = call[c].row
          /\ k.entered = call[c].entered /\ k.seen = invites[call[c].i]
      BY <1>1 DEF Call
    <3>2. call'[c] = k
      BY <1>1, <2>4
    <3>3. call[c].op = "accept" => call[c].phase # "loaded"
      BY <1>6 DEF Reread
    <3> HIDE DEF k
    <3> QED
      BY <1>2, <2>1, <2>2, <3>1, <3>2, <3>3 DEF Loaded, IsOf, rows
  <2>7. \A d \in Clients : d # c => call'[d] = call[d]
    BY <1>1, <2>4
  <2> QED
    BY <1>3, <1>4, <2>5, <2>6, <2>7 DEF EntryInv
<1>7. CASE Abort(c)
  <2>1. Idle \in Call
    BY InvitationsAssumption
       DEF Call, Idle, Phases, Ops, SomeInvite, Member, NoMember, ProjectRole
  <2>2. call' = [call EXCEPT ![c] = Idle]
    BY <1>7 DEF Abort
  <2>3. TypeOK'
    BY <1>1, <1>2, <2>1, <2>2 DEF EntryInv, TypeOK, rows
  <2>4. ~Busy(c)' /\ \A d \in Clients : d # c => call'[d] = call[d]
    BY <1>1, <2>2 DEF Busy, Idle
  <2> QED
    BY <1>3, <1>4, <2>3, <2>4 DEF EntryInv
<1> QED
  BY <1>5, <1>6, <1>7

LEMMA EntrySavesInvite ==
    ASSUME EntryInv, NEW c \in Clients, SaveInvite(c)
    PROVE  EntryInv'
<1>1. /\ call[c].phase = "saving" /\ call[c].op = "save" /\ Finish(c)
      /\ invites' = [invites EXCEPT ![call[c].i] = Saved(c)]
      /\ UNCHANGED <<member, role, guests>>
  BY DEF SaveInvite
<1>2. Forward
  BY <1>1, SavedInvites DEF Forward
<1>3. Saved(c).status = "ACCEPTED" => invites[call[c].i].status = "ACCEPTED"
  BY <1>1, SavedRow DEF EntryInv, Busy, Loaded
<1>4. MembersCanEnter' /\ MembersHaveRoles'
  BY <1>1 DEF EntryInv, EntryIsGranted, MembersCanEnter, MembersHaveRoles
<1>5. AcceptedIsMember'
  <2> SUFFICES ASSUME NEW i \in DOMAIN invites', invites'[i].status = "ACCEPTED"
               PROVE  member[invites'[i].scope][invites'[i].user].status = "ACTIVE"
    BY <1>1 DEF AcceptedIsMember
  <2>1. i \in DOMAIN invites /\ invites[i].status = "ACCEPTED"
    BY <1>1, <1>3, SavedInvites
  <2> QED
    BY <1>1, <2>1, SavedInvites DEF EntryInv, EntryIsGranted, AcceptedIsMember
<1> QED
  BY <1>1, <1>2, <1>4, <1>5, SavedInvites, WriteKeeps DEF EntryInv, TypeOK, EntryIsGranted

LEMMA EntryInserts ==
    ASSUME EntryInv, NEW c \in Clients, InsertInvite(c)
    PROVE  EntryInv'
<1>1. /\ call[c].row \in Invite /\ call[c].row.status = "PENDING" /\ Finish(c)
      /\ Len(invites) < MaxInvites /\ invites' = Append(invites, call[c].row)
      /\ UNCHANGED <<member, role, guests>>
  BY DEF InsertInvite, EntryInv, Busy, Loaded
<1>2. invites \in Seq(Invite)
  BY DEF EntryInv, TypeOK
<1>3. /\ invites' \in Seq(Invite) /\ Len(invites') = Len(invites) + 1
      /\ \A i \in DOMAIN invites : i \in DOMAIN invites' /\ invites'[i] = invites[i]
      /\ \A i \in DOMAIN invites' : i \in DOMAIN invites \/ invites'[i] = call[c].row
  BY <1>1, <1>2
<1>4. Len(invites') <= MaxInvites
  BY <1>1, <1>2, <1>3, InvitationsAssumption
<1>5. Forward
  BY <1>1, <1>3 DEF Forward
<1>6. EntryIsGranted' /\ MembersHaveRoles'
  BY <1>1, <1>3
     DEF EntryInv, EntryIsGranted, MembersCanEnter, AcceptedIsMember, MembersHaveRoles
<1> QED
  BY <1>1, <1>3, <1>4, <1>5, <1>6, WriteKeeps DEF EntryInv, TypeOK

\* The user is a member of the scope, and of the workspace unless they already
\* were when the transaction read it, and thus still are.
LEMMA EntryAccepts ==
    ASSUME EntryInv, NEW c \in Clients, CommitAccept(c)
    PROVE  EntryInv'
<1> DEFINE row == call[c].row
           joins == [status |-> "ACTIVE", role |-> row.role]
           enters == IF call[c].entered.status = "ACTIVE" THEN member[Workspace][row.user]
                     ELSE Entered(c)
<1>1. /\ call[c].phase = "saving" /\ call[c].op = "accept" /\ Finish(c)
      /\ invites' = [invites EXCEPT ![call[c].i] = Saved(c)]
      /\ UNCHANGED role
  BY DEF CommitAccept
<1>2. Loaded(c) /\ row \in Invite /\ call[c] \in Call
  BY <1>1 DEF EntryInv, Busy, Loaded, TypeOK
<1>3. /\ row.scope \in Scopes /\ row.user \in Users /\ row.role \in Roles /\ Workspace \in Scopes
      /\ Workspace \notin Projects
  BY <1>2, InvitationsAssumption DEF Invite, Scopes
<1>4. /\ member \in [Scopes -> [Users -> Member]] /\ call[c].entered \in Member
      /\ call[c].entered.status \in {"none", "ACTIVE", "REMOVED"}
  BY <1>2 DEF EntryInv, TypeOK, Call, Member
<1>5. joins \in Member /\ joins.status = "ACTIVE" /\ joins.role \in Roles
  BY <1>3 DEF Member
<1>6. enters \in Member /\ enters.status = "ACTIVE"
  <2>1. CASE call[c].entered.status = "ACTIVE"
    BY <1>1, <1>2, <1>3, <1>4, <2>1 DEF Loaded
  <2>2. CASE call[c].entered.status # "ACTIVE"
    BY <1>4, <2>2 DEF Entered, Member
  <2> QED
    BY <2>1, <2>2
<1>7. /\ row.scope = Workspace => member' = [member EXCEPT ![Workspace][row.user] = joins]
      /\ row.scope # Workspace =>
            member' = [member EXCEPT ![row.scope][row.user] = joins,
                                     ![Workspace][row.user] = enters]
      /\ guests' \in {guests, guests + 1}
  BY DEF CommitAccept
<1> HIDE DEF row, joins, enters
<1>8. /\ member' \in [Scopes -> [Users -> Member]]
      /\ member'[row.scope][row.user] = joins
      /\ row.scope # Workspace => member'[Workspace][row.user] = enters
      /\ \A s \in Scopes, u \in Users :
            \/ member'[s][u] = member[s][u]
            \/ s = row.scope /\ u = row.user
            \/ s = Workspace /\ u = row.user
  <2>1. CASE row.scope = Workspace
    BY <1>3, <1>4, <1>5, <1>7, <2>1
  <2>2. CASE row.scope # Workspace
    <3> DEFINE m == [member EXCEPT ![row.scope][row.user] = joins]
    <3>1. m \in [Scopes -> [Users -> Member]]
      BY <1>3, <1>4, <1>5
    <3>2. member' = [m EXCEPT ![Workspace][row.user] = enters]
      BY <1>7, <2>2
    <3>3. /\ m[row.scope][row.user] = joins
          /\ \A s \in Scopes, u \in Users :
                m[s][u] = member[s][u] \/ (s = row.scope /\ u = row.user)
      BY <1>3, <1>4
    <3> HIDE DEF m
    <3>4. /\ member' \in [Scopes -> [Users -> Member]]
          /\ member'[Workspace][row.user] = enters
          /\ \A s \in Scopes, u \in Users :
                member'[s][u] = m[s][u] \/ (s = Workspace /\ u = row.user)
      BY <1>3, <1>6, <3>1, <3>2
    <3>5. member'[row.scope][row.user] = joins
      BY <1>3, <2>2, <3>1, <3>2, <3>3
    <3> QED
      BY <3>3, <3>4, <3>5
  <2> QED
    BY <2>1, <2>2
<1>9. \A s \in Scopes, u \in Users :
          \/ member'[s][u] = member[s][u]
          \/ /\ member'[s][u].status = "ACTIVE"
             /\ s \in Projects => /\ member'[s][u].role \in Roles
                                  /\ member'[Workspace][u].status = "ACTIVE"
  BY <1>3, <1>5, <1>6, <1>8
<1>10. /\ \A s \in Scopes, u \in Users :
             member[s][u].status = "ACTIVE" => member'[s][u].status = "ACTIVE"
       /\ MembersCanEnter' /\ MembersHaveRoles'
  BY <1>8, <1>9, JoinKeepsMembers
<1>11. Forward
  BY <1>1, <1>10, SavedInvites DEF Forward
<1>12. AcceptedIsMember'
  <2> SUFFICES ASSUME NEW i \in DOMAIN invites', invites'[i].status = "ACCEPTED"
               PROVE  member'[invites'[i].scope][invites'[i].user].status = "ACTIVE"
    BY DEF AcceptedIsMember
  <2>1. i \in DOMAIN invites /\ invites[i] \in Invite
    BY <1>1, SavedInvites DEF EntryInv, TypeOK
  <2>2. CASE i = call[c].i
    BY <1>1, <1>5, <1>8, <2>1, <2>2, SavedInvites, SavedRow DEF row
  <2>3. CASE i # call[c].i
    <3>1. invites'[i] = invites[i]
      BY <1>1, <2>1, <2>3, SavedInvites
    <3>2. member[invites[i].scope][invites[i].user].status = "ACTIVE"
      BY <2>1, <3>1 DEF EntryInv, EntryIsGranted, AcceptedIsMember
    <3>3. invites[i].scope \in Scopes /\ invites[i].user \in Users
      BY <2>1 DEF Invite
    <3> QED
      BY <1>10, <3>1, <3>2, <3>3
  <2> QED
    BY <2>2, <2>3
<1>13. guests' \in Nat
  BY <1>7 DEF EntryInv, TypeOK
<1> QED
  BY <1>1, <1>8, <1>10, <1>11, <1>12, <1>13, SavedInvites, WriteKeeps
     DEF EntryInv, TypeOK, EntryIsGranted

LEMMA EntryAssigns ==
    ASSUME EntryInv, NEW c \in Clients, SaveMemberRole(c)
    PROVE  EntryInv'
<1> DEFINE row == call[c].row
           m == [status |-> "ACTIVE", role |-> row.role]
<1>1. /\ Finish(c) /\ UNCHANGED <<invites, role, guests>>
      /\ member' = [member EXCEPT ![row.scope][row.user] = m]
      /\ call[c].op = "role" /\ Busy(c)
  BY DEF SaveMemberRole, Busy
<1>2. /\ row \in Invite /\ row.scope \in Projects /\ member[row.scope][row.user].status = "ACTIVE"
  BY <1>1 DEF EntryInv, Loaded
<1>3. /\ row.scope \in Scopes /\ row.user \in Users /\ row.role \in Roles
      /\ Workspace \in Scopes /\ Workspace # row.scope
  BY <1>2, InvitationsAssumption DEF Invite, Scopes
<1>4. m \in Member /\ m.status = "ACTIVE" /\ m.role \in Roles
  BY <1>3 DEF Member
<1>5. member \in [Scopes -> [Users -> Member]]
  BY DEF EntryInv, TypeOK
<1> HIDE DEF row, m
<1>6. /\ member' \in [Scopes -> [Users -> Member]]
      /\ member'[row.scope][row.user] = m
      /\ \A s \in Scopes, u \in Users :
            member'[s][u] = member[s][u] \/ (s = row.scope /\ u = row.user)
  BY <1>1, <1>3, <1>4, <1>5
<1>7. member'[Workspace][row.user].status = "ACTIVE"
  BY <1>2, <1>3, <1>6 DEF EntryInv, EntryIsGranted, MembersCanEnter
<1>8. /\ \A s \in Scopes, u \in Users :
             member[s][u].status = "ACTIVE" => member'[s][u].status = "ACTIVE"
      /\ MembersCanEnter' /\ MembersHaveRoles'
  BY <1>4, <1>6, <1>7, JoinKeepsMembers
<1>9. Forward
  BY <1>1, <1>8 DEF Forward
<1>10. \A i \in DOMAIN invites : invites[i].scope \in Scopes /\ invites[i].user \in Users
  <2>1. \A i \in DOMAIN invites : invites[i] \in Invite
    BY DEF EntryInv, TypeOK
  <2> QED
    BY <2>1 DEF Invite
<1>11. AcceptedIsMember'
  BY <1>1, <1>8, <1>10 DEF EntryInv, EntryIsGranted, AcceptedIsMember
<1> QED
  BY <1>1, <1>6, <1>8, <1>9, <1>11, WriteKeeps DEF EntryInv, TypeOK, EntryIsGranted

LEMMA EntryChangesRole ==
    ASSUME EntryInv, NEW c \in Clients, SaveRole(c) \/ RemoveRole(c)
    PROVE  EntryInv'
<1>1. /\ Finish(c) /\ UNCHANGED <<invites, member, guests>> /\ Busy(c)
  BY DEF SaveRole, RemoveRole, Busy
<1>2. call[c].row \in Invite /\ call[c] \in Call
  BY <1>1 DEF EntryInv, Loaded, TypeOK
<1>3. /\ call[c].row.scope \in Scopes /\ call[c].row.role \in Roles /\ call[c].to \in ProjectRole
      /\ "deleted" \in ProjectRole
  BY <1>2 DEF Invite, Call, ProjectRole
<1>4. PICK to \in ProjectRole :
          role' = [role EXCEPT ![call[c].row.scope][call[c].row.role] = to]
  BY <1>3 DEF SaveRole, RemoveRole
<1>5. role' \in [Scopes -> [Roles -> ProjectRole]]
  BY <1>3, <1>4 DEF EntryInv, TypeOK
<1>6. Forward /\ EntryIsGranted' /\ MembersHaveRoles'
  BY <1>1
     DEF Forward, EntryInv, EntryIsGranted, MembersCanEnter, AcceptedIsMember, MembersHaveRoles
<1> QED
  BY <1>1, <1>5, <1>6, WriteKeeps DEF EntryInv, TypeOK

\* A new user, who has no invitations and whom no handler is about.
LEMMA EntryCreatesUser ==
    ASSUME EntryInv, NEW u \in Users, NEW r \in Roles, CreateUser(u, r)
    PROVE  EntryInv'
<1> DEFINE m == [status |-> "ACTIVE", role |-> r]
<1>1. /\ member' = [member EXCEPT ![Workspace][u] = m]
      /\ UNCHANGED <<invites, role, guests, call, overtaken, requests>>
      /\ \A s \in Scopes : member[s][u].status = "none"
  BY DEF CreateUser
<1>2. Workspace \in Scopes /\ Workspace \notin Projects /\ m \in Member /\ m.status = "ACTIVE"
  BY InvitationsAssumption DEF Scopes, Member
<1>3. member \in [Scopes -> [Users -> Member]]
  BY DEF EntryInv, TypeOK
<1> HIDE DEF m
<1>4. /\ member' \in [Scopes -> [Users -> Member]]
      /\ member'[Workspace][u] = m
      /\ \A s \in Scopes, v \in Users :
            member'[s][v] = member[s][v] \/ (s = Workspace /\ v = u)
  BY <1>1, <1>2, <1>3
<1>5. /\ \A s \in Scopes, v \in Users :
             member[s][v].status = "ACTIVE" => member'[s][v].status = "ACTIVE"
      /\ MembersCanEnter' /\ MembersHaveRoles'
  BY <1>2, <1>4, JoinKeepsMembers
<1>6. Forward
  BY <1>1, <1>5 DEF Forward
<1>7. AcceptedIsMember'
  <2>1. \A i \in DOMAIN invites : invites[i] \in Invite
    BY DEF EntryInv, TypeOK
  <2>2. \A i \in DOMAIN invites : invites[i].scope \in Scopes /\ invites[i].user \in Users
    BY <2>1 DEF Invite
  <2> QED
    BY <1>1, <1>5, <2>2 DEF EntryInv, EntryIsGranted, AcceptedIsMember
<1>8. \A c \in Clients : Busy(c)' => Busy(c) /\ Untouched(c)
  BY <1>1 DEF Busy, Untouched, EntryInv, TypeOK
<1>9. \A c \in Clients : Busy(c)' => Loaded(c)'
  BY <1>6, <1>8, LoadedKept DEF EntryInv
<1> QED
  BY <1>1, <1>4, <1>5, <1>7, <1>9 DEF EntryInv, TypeOK, EntryIsGranted

LEMMA EntryTimePasses ==
    ASSUME EntryInv, NEW i \in DOMAIN invites, TimePasses(i)
    PROVE  EntryInv'
<1>1. /\ invites' = [invites EXCEPT ![i].due = TRUE]
      /\ UNCHANGED <<member, role, guests, call, overtaken, requests>>
  BY DEF TimePasses
<1>2. invites \in Seq(Invite) /\ invites[i] \in Invite
  BY DEF EntryInv, TypeOK
<1>3. [invites[i] EXCEPT !.due = TRUE] \in Invite
  BY <1>2 DEF Invite
<1>4. invites' \in Seq(Invite) /\ Len(invites') = Len(invites) /\ DOMAIN invites' = DOMAIN invites
  BY <1>1, <1>2, <1>3
<1>5. \A j \in DOMAIN invites :
          /\ invites'[j].scope = invites[j].scope /\ invites'[j].user = invites[j].user
          /\ invites'[j].status = invites[j].status
  <2> SUFFICES ASSUME NEW j \in DOMAIN invites
               PROVE  /\ invites'[j].scope = invites[j].scope
                      /\ invites'[j].user = invites[j].user
                      /\ invites'[j].status = invites[j].status
    OBVIOUS
  <2>1. invites'[j] = IF j = i THEN [invites[i] EXCEPT !.due = TRUE] ELSE invites[j]
    BY <1>1, <1>2
  <2> QED
    BY <1>2, <2>1 DEF Invite
<1>6. Forward
  BY <1>1, <1>4, <1>5 DEF Forward
<1>7. EntryIsGranted' /\ MembersHaveRoles'
  BY <1>1, <1>4, <1>5
     DEF EntryInv, EntryIsGranted, MembersCanEnter, AcceptedIsMember, MembersHaveRoles
<1>8. \A c \in Clients : Busy(c)' => Busy(c) /\ Untouched(c)
  BY <1>1 DEF Busy, Untouched, EntryInv, TypeOK
<1>9. \A c \in Clients : Busy(c)' => Loaded(c)'
  BY <1>6, <1>8, LoadedKept DEF EntryInv
<1> QED
  BY <1>1, <1>4, <1>7, <1>9 DEF EntryInv, TypeOK

LEMMA EntryInvariance == EntryInv /\ [Next]_vars => EntryInv'
<1> SUFFICES ASSUME EntryInv, [Next]_vars PROVE EntryInv'
  OBVIOUS
<1>1. ASSUME NEW c \in Clients, Request(c) PROVE EntryInv'
  BY <1>1, RequestAsks, EntryLoads DEF EntryInv, Request, Ready
<1>2. ASSUME NEW c \in Clients, Write(c) PROVE EntryInv'
  BY <1>2, EntryReads, EntrySavesInvite, EntryInserts, EntryAccepts, EntryAssigns,
     EntryChangesRole
     DEF Write
<1>3. CASE UNCHANGED vars
  BY <1>3
     DEF vars, rows, EntryInv, TypeOK, EntryIsGranted, MembersCanEnter, AcceptedIsMember,
         MembersHaveRoles, Busy, Loaded, IsOf
<1> QED
  BY <1>1, <1>2, <1>3, EntryCreatesUser, EntryTimePasses DEF Next

\* Whoever has joined a project can work in it, and whoever has accepted an
\* invitation has joined, whatever other handlers did in between.
THEOREM EntryIsAlwaysGranted == Spec => []EntryIsGranted
<1>1. Spec => []EntryInv
  BY EntryInit, EntryInvariance, PTL DEF Spec
<1>2. EntryInv => EntryIsGranted
  BY DEF EntryInv
<1> QED
  BY <1>1, <1>2, PTL

(***************************************************************************)
(* Roles that are in use.                                                  *)
(***************************************************************************)
\* A member of a project or a pending invitation has an enabled role.
RolesAreEnabled ==
    /\ \A p \in Projects, u \in Users :
        member[p][u].status = "ACTIVE" => role[p][member[p][u].role] = "enabled"
    /\ \A i \in DOMAIN invites :
        invites[i].status = "PENDING" => role[invites[i].scope][invites[i].role] = "enabled"

\* After a write no handler is both at work and fresh.
LEMMA WriteIsFresh ==
    ASSUME EntryInv, FreshInv, NEW c \in Clients, Busy(c), Finish(c),
           RolesAreEnabled /\ Checked(c) => RolesAreEnabled'
    PROVE  FreshInv'
<1>1. /\ \A d \in Clients : Busy(d)' => ~call'[d].fresh
      /\ ~overtaken' => ~overtaken /\ call[c].fresh
  BY Finished DEF EntryInv
<1>2. ~overtaken' => RolesAreEnabled /\ Checked(c)
  BY <1>1 DEF FreshInv, RolesInUseAreEnabledIfFresh, RolesAreEnabled
<1>3. RolesInUseAreEnabledIfFresh'
  BY <1>2 DEF RolesInUseAreEnabledIfFresh, RolesAreEnabled
<1> QED
  BY <1>1, <1>3 DEF FreshInv

LEMMA FreshLoads ==
    ASSUME EntryInv, FreshInv, NEW c \in Clients, Asked(c)
    PROVE  FreshInv'
<1>1. PICK op \in Ops, i \in 0 .. MaxInvites, row \in Invite, to \in ProjectRole :
          /\ Load(c, op, i, row, to)
          /\ ~overtaken /\ RolesInUseAreEnabledIfFresh => CheckedRow(op, row, to)
  BY DEF Asked
<1> DEFINE k == [Idle EXCEPT !.phase = "loaded", !.op = op, !.i = i, !.row = row, !.to = to]
<1>2. UNCHANGED <<rows, overtaken>> /\ call' = [call EXCEPT ![c] = k]
  BY <1>1 DEF Load
<1>3. call'[c] = k /\ \A d \in Clients \ {c} : call'[d] = call[d]
  BY <1>2 DEF EntryInv, TypeOK
<1>4. k.phase = "loaded" /\ k.op = op /\ k.row = row /\ k.to = to
  BY DEF Idle
<1> HIDE DEF k
<1>5. RolesInUseAreEnabledIfFresh'
  BY <1>2 DEF FreshInv, RolesInUseAreEnabledIfFresh, rows
<1>6. ~overtaken' => Checked(c)'
  BY <1>1, <1>2, <1>3, <1>4 DEF FreshInv, Checked, CheckedRow, InUse, rows
<1>7. ~overtaken' => \A d \in Clients \ {c} : Busy(d)' /\ call'[d].fresh => Checked(d)'
  BY <1>2, <1>3 DEF FreshInv, Checked, Busy, InUse, rows
<1> QED
  BY <1>5, <1>6, <1>7 DEF FreshInv

LEMMA FreshReads ==
    ASSUME EntryInv, FreshInv, NEW c \in Clients, BeginAccept(c) \/ Reread(c) \/ Abort(c)
    PROVE  FreshInv'
<1>1. UNCHANGED <<rows, overtaken, requests>>
  BY DEF BeginAccept, Reread, Abort
<1>2. call[c] \in Call /\ call \in [Clients -> Call]
  BY DEF EntryInv, TypeOK
<1>3. RolesInUseAreEnabledIfFresh'
  BY <1>1 DEF FreshInv, RolesInUseAreEnabledIfFresh, rows
<1>4. \A d \in Clients : d # c => call'[d] = call[d]
  BY <1>2 DEF BeginAccept, Reread, Abort
<1>5. Busy(c)' => /\ Busy(c) /\ call'[c].op = call[c].op /\ call'[c].row = call[c].row
                  /\ call'[c].to = call[c].to /\ call'[c].fresh = call[c].fresh
                  /\ call'[c].i = call[c].i
                  /\ call'[c].phase = "saving" => call'[c].seen = invites[call[c].i]
  <2>1. CASE BeginAccept(c)
    BY <1>2, <2>1 DEF BeginAccept, Busy, Call
  <2>2. CASE Reread(c)
    BY <1>2, <2>2 DEF Reread, Busy, Call
  <2>3. CASE Abort(c)
    BY <1>2, <2>3 DEF Abort, Busy, Idle
  <2> QED
    BY <2>1, <2>2, <2>3
<1>6. ~overtaken' => (Busy(c)' /\ call'[c].fresh => Checked(c)')
  <2>1. SUFFICES ASSUME ~overtaken', Busy(c)', call'[c].fresh PROVE Checked(c)'
    OBVIOUS
  <2>2. Checked(c)
    BY <1>1, <1>5, <2>1 DEF FreshInv
  <2>3. \A s, r : InUse(s, r)' = InUse(s, r)
    BY <1>1 DEF InUse, rows
  <2> QED
    BY <1>1, <1>5, <2>1, <2>2, <2>3 DEF Checked, rows
<1>7. ~overtaken' => \A d \in Clients \ {c} : Busy(d)' /\ call'[d].fresh => Checked(d)'
  BY <1>1, <1>4 DEF FreshInv, Checked, Busy, InUse, rows
<1> QED
  BY <1>3, <1>6, <1>7 DEF FreshInv

\* The row that is saved has the role that was checked.
LEMMA SavedRole ==
    ASSUME EntryInv, NEW c \in Clients, Checked(c), call[c].phase = "saving",
           invites' = [invites EXCEPT ![call[c].i] = Saved(c)], role' = role,
           RolesAreEnabled
    PROVE  \A i \in DOMAIN invites' :
              invites'[i].status = "PENDING" => role[invites'[i].scope][invites'[i].role] = "enabled"
<1>1. call[c].op \in {"save", "accept"}
  BY DEF EntryInv, Busy, Loaded
<1>2. Saved(c).role = call[c].row.role /\ Saved(c).scope = call[c].row.scope
  BY SavedRow DEF Checked
<1>3. role[Saved(c).scope][Saved(c).role] = "enabled"
  BY <1>1, <1>2 DEF Checked
<1> QED
  BY <1>3, SavedInvites DEF RolesAreEnabled

LEMMA FreshSavesInvite ==
    ASSUME EntryInv, FreshInv, NEW c \in Clients, SaveInvite(c)
    PROVE  FreshInv'
<1>1. /\ call[c].phase = "saving" /\ Busy(c) /\ Finish(c)
      /\ invites' = [invites EXCEPT ![call[c].i] = Saved(c)]
      /\ UNCHANGED <<member, role, guests>>
  BY DEF SaveInvite, Busy
<1>2. RolesAreEnabled /\ Checked(c) => RolesAreEnabled'
  BY <1>1, SavedRole DEF RolesAreEnabled
<1> QED
  BY <1>1, <1>2, WriteIsFresh

LEMMA FreshInserts ==
    ASSUME EntryInv, FreshInv, NEW c \in Clients, InsertInvite(c)
    PROVE  FreshInv'
<1>1. /\ call[c].op = "invite" /\ Busy(c) /\ Finish(c)
      /\ invites' = Append(invites, call[c].row)
      /\ UNCHANGED <<member, role, guests>>
  BY DEF InsertInvite, Busy
<1>2. \A i \in DOMAIN invites' : (i \in DOMAIN invites /\ invites'[i] = invites[i])
                                    \/ invites'[i] = call[c].row
  BY <1>1 DEF EntryInv, TypeOK
<1>3. RolesAreEnabled /\ Checked(c) => RolesAreEnabled'
  BY <1>1, <1>2 DEF RolesAreEnabled, Checked
<1> QED
  BY <1>1, <1>3, WriteIsFresh

\* Who enters the workspace by the way has a role that is not a project's.
LEMMA FreshAccepts ==
    ASSUME EntryInv, FreshInv, NEW c \in Clients, CommitAccept(c)
    PROVE  FreshInv'
<1> DEFINE row == call[c].row
           joins == [status |-> "ACTIVE", role |-> row.role]
<1>1. /\ call[c].phase = "saving" /\ call[c].op = "accept" /\ Busy(c) /\ Finish(c)
      /\ invites' = [invites EXCEPT ![call[c].i] = Saved(c)]
      /\ UNCHANGED role
  BY DEF CommitAccept, Busy
<1>2. row \in Invite
  BY <1>1 DEF EntryInv, Loaded
<1>3. /\ row.scope \in Scopes /\ row.user \in Users /\ row.role \in Roles /\ Workspace \in Scopes
      /\ Workspace \notin Projects /\ Projects \subseteq Scopes
  BY <1>2, InvitationsAssumption DEF Invite, Scopes
<1>4. member \in [Scopes -> [Users -> Member]]
  BY DEF EntryInv, TypeOK
<1>5. \/ member' = [member EXCEPT ![Workspace][row.user] = joins]
      \/ \E enters : member' = [member EXCEPT ![row.scope][row.user] = joins,
                                              ![Workspace][row.user] = enters]
  BY DEF CommitAccept
<1>6. joins.role = row.role
  OBVIOUS
<1> HIDE DEF row, joins
<1>7. \A p \in Projects, u \in Users :
          member'[p][u] = member[p][u] \/ (p = row.scope /\ member'[p][u].role = row.role)
  <2>1. CASE member' = [member EXCEPT ![Workspace][row.user] = joins]
    BY <1>3, <1>4, <2>1
  <2>2. ASSUME NEW enters, member' = [member EXCEPT ![row.scope][row.user] = joins,
                                                    ![Workspace][row.user] = enters]
        PROVE  \A p \in Projects, u \in Users :
                  member'[p][u] = member[p][u] \/ (p = row.scope /\ member'[p][u].role = row.role)
    <3> DEFINE m == [member EXCEPT ![row.scope][row.user] = joins]
    <3>1. \A p \in Projects : m[p] = IF p = row.scope THEN [member[p] EXCEPT ![row.user] = joins]
                                     ELSE member[p]
      BY <1>3, <1>4
    <3>2. DOMAIN m = Scopes /\ member' = [m EXCEPT ![Workspace][row.user] = enters]
      BY <1>4, <2>2
    <3> HIDE DEF m
    <3>3. \A p \in Projects : member'[p] = m[p]
      BY <1>3, <3>2
    <3>4. \A p \in Projects : DOMAIN member[p] = Users
      BY <1>3, <1>4
    <3>5. ASSUME NEW p \in Projects, NEW u \in Users
          PROVE  member'[p][u] = IF p = row.scope /\ u = row.user THEN joins ELSE member[p][u]
      <4>1. CASE p = row.scope
        <5>1. member'[p] = [member[p] EXCEPT ![row.user] = joins]
          BY <3>1, <3>3, <4>1
        <5> QED
          BY <3>4, <4>1, <5>1
      <4>2. CASE p # row.scope
        BY <3>1, <3>3, <4>2
      <4> QED
        BY <4>1, <4>2
    <3> QED
      BY <1>6, <3>5
  <2> QED
    BY <1>5, <2>1, <2>2
<1>8. Checked(c) => role[row.scope][row.role] = "enabled"
  BY <1>1 DEF Checked, row
<1>9. RolesAreEnabled /\ Checked(c) =>
          \A p \in Projects, u \in Users :
              member'[p][u].status = "ACTIVE" => role[p][member'[p][u].role] = "enabled"
  BY <1>7, <1>8 DEF RolesAreEnabled
<1>10. RolesAreEnabled /\ Checked(c) => RolesAreEnabled'
  BY <1>1, <1>9, SavedRole DEF RolesAreEnabled
<1> QED
  BY <1>1, <1>10, WriteIsFresh

LEMMA FreshAssigns ==
    ASSUME EntryInv, FreshInv, NEW c \in Clients, SaveMemberRole(c)
    PROVE  FreshInv'
<1> DEFINE row == call[c].row
           m == [status |-> "ACTIVE", role |-> row.role]
<1>1. /\ Finish(c) /\ UNCHANGED <<invites, role, guests>> /\ call[c].op = "role" /\ Busy(c)
      /\ member' = [member EXCEPT ![row.scope][row.user] = m]
  BY DEF SaveMemberRole, Busy
<1>2. member \in [Scopes -> [Users -> Member]] /\ Projects \subseteq Scopes
  BY DEF EntryInv, TypeOK, Scopes
<1>3. m.role = row.role
  OBVIOUS
<1> HIDE DEF row, m
<1>4. \A p \in Projects, u \in Users :
          member'[p][u] = member[p][u] \/ (p = row.scope /\ member'[p][u] = m)
  BY <1>1, <1>2
<1>5. RolesAreEnabled /\ Checked(c) => RolesAreEnabled'
  BY <1>1, <1>3, <1>4 DEF RolesAreEnabled, Checked, row
<1> QED
  BY <1>1, <1>5, WriteIsFresh

\* ensureRoleNotInUse() has found no member and no invitation with the role.
LEMMA FreshChangesRole ==
    ASSUME EntryInv, FreshInv, NEW c \in Clients, SaveRole(c) \/ RemoveRole(c)
    PROVE  FreshInv'
<1> DEFINE s == call[c].row.scope
           r == call[c].row.role
<1>1. /\ Finish(c) /\ UNCHANGED <<invites, member, guests>> /\ Busy(c)
      /\ call[c].op \in {"status", "delete"}
  BY DEF SaveRole, RemoveRole, Busy
<1>2. /\ s \in Scopes /\ r \in Roles
      /\ \A p \in Projects : p \in Scopes
  <2>1. call[c].row \in Invite
    BY <1>1 DEF EntryInv, Loaded
  <2> QED
    BY <2>1 DEF Invite, Scopes
<1>3. \E to : role' = [role EXCEPT ![s][r] = to]
              /\ (to = "enabled" \/ to = call[c].to \/ RemoveRole(c))
  BY DEF SaveRole, RemoveRole
<1>4. PICK to : /\ role' = [role EXCEPT ![s][r] = to]
                /\ to = "enabled" \/ to = call[c].to \/ RemoveRole(c)
  BY <1>3
<1>5. role \in [Scopes -> [Roles -> ProjectRole]] /\ member \in [Scopes -> [Users -> Member]]
  BY DEF EntryInv, TypeOK
<1> HIDE DEF s, r
<1>6. \A t \in Scopes, q \in Roles : role'[t][q] = IF t = s /\ q = r THEN to ELSE role[t][q]
  BY <1>2, <1>4, <1>5
<1>7. Checked(c) =>
          \/ to = "enabled"
          \/ /\ \A u \in Users : s \in Projects => ~(member[s][u].status = "ACTIVE" /\ member[s][u].role = r)
             /\ \A i \in DOMAIN invites :
                    ~(invites[i].scope = s /\ invites[i].role = r /\ invites[i].status = "PENDING")
  <2> SUFFICES ASSUME Checked(c), to # "enabled"
               PROVE  /\ \A u \in Users : s \in Projects =>
                            ~(member[s][u].status = "ACTIVE" /\ member[s][u].role = r)
                      /\ \A i \in DOMAIN invites :
                            ~(invites[i].scope = s /\ invites[i].role = r /\ invites[i].status = "PENDING")
    OBVIOUS
  <2>1. CASE RemoveRole(c)
    BY <2>1 DEF RemoveRole, s, r
  <2>2. CASE ~RemoveRole(c)
    <3>1. ~InUse(s, r)
      BY <1>1, <1>4, <2>2 DEF Checked, s, r
    <3>2. \A u \in Users : member[s][u] # [status |-> "ACTIVE", role |-> r]
      BY <3>1 DEF InUse
    <3>3. \A u \in Users : member[s][u] \in Member
      BY <1>2, <1>5
    <3>4. \A u \in Users : ~(member[s][u].status = "ACTIVE" /\ member[s][u].role = r)
      BY <3>2, <3>3 DEF Member
    <3> QED
      BY <3>1, <3>4 DEF InUse
  <2> QED
    BY <2>1, <2>2
<1>8. RolesAreEnabled /\ Checked(c) => RolesAreEnabled'
  <2> SUFFICES ASSUME RolesAreEnabled, Checked(c) PROVE RolesAreEnabled'
    OBVIOUS
  <2>1. ASSUME NEW p \in Projects, NEW u \in Users, member[p][u].status = "ACTIVE"
        PROVE  role'[p][member[p][u].role] = "enabled"
    <3>1. member[p][u].role \in Roles /\ role[p][member[p][u].role] = "enabled"
      BY <2>1 DEF EntryInv, MembersHaveRoles, RolesAreEnabled
    <3> QED
      BY <1>2, <1>6, <1>7, <2>1, <3>1
  <2>2. ASSUME NEW i \in DOMAIN invites, invites[i].status = "PENDING"
        PROVE  role'[invites[i].scope][invites[i].role] = "enabled"
    <3>1. invites[i] \in Invite
      BY DEF EntryInv, TypeOK
    <3>2. /\ invites[i].scope \in Scopes /\ invites[i].role \in Roles
          /\ role[invites[i].scope][invites[i].role] = "enabled"
      BY <2>2, <3>1 DEF RolesAreEnabled, Invite
    <3> QED
      BY <1>6, <1>7, <2>2, <3>2
  <2> QED
    BY <1>1, <2>1, <2>2 DEF RolesAreEnabled
<1> QED
  BY <1>1, <1>8, WriteIsFresh

LEMMA FreshCreatesUser ==
    ASSUME EntryInv, FreshInv, NEW u \in Users, NEW r \in Roles, CreateUser(u, r)
    PROVE  FreshInv'
<1>1. /\ UNCHANGED <<invites, role, guests, call, overtaken, requests>>
      /\ \E m : member' = [member EXCEPT ![Workspace][u] = m]
  BY DEF CreateUser
<1>2. \A p \in Projects : member'[p] = member[p]
  BY <1>1, InvitationsAssumption DEF EntryInv, TypeOK, Scopes
<1>3. RolesInUseAreEnabledIfFresh'
  BY <1>1, <1>2 DEF FreshInv, RolesInUseAreEnabledIfFresh
<1>4. \A c \in Clients : Busy(c) /\ Checked(c) => Checked(c)'
  <2> SUFFICES ASSUME NEW c \in Clients, Busy(c), Checked(c) PROVE Checked(c)'
    OBVIOUS
  <2>1. call[c].op \in {"status", "delete"} => call[c].row.scope \in Projects
    BY DEF EntryInv, Loaded
  <2> QED
    BY <1>1, <1>2, <2>1 DEF Checked, InUse
<1> QED
  BY <1>1, <1>3, <1>4 DEF FreshInv, Busy

LEMMA FreshTimePasses ==
    ASSUME EntryInv, FreshInv, NEW i \in DOMAIN invites, TimePasses(i)
    PROVE  FreshInv'
<1>1. /\ invites' = [invites EXCEPT ![i].due = TRUE]
      /\ UNCHANGED <<member, role, guests, call, overtaken, requests>>
  BY DEF TimePasses
<1>2. \A j \in DOMAIN invites : invites[j] \in Invite
  BY DEF EntryInv, TypeOK
<1>3. \A j \in DOMAIN invites : invites'[j] = IF j = i THEN [invites[i] EXCEPT !.due = TRUE]
                                              ELSE invites[j]
  BY <1>1
<1>4. /\ DOMAIN invites' = DOMAIN invites
      /\ \A j \in DOMAIN invites :
          /\ invites'[j].scope = invites[j].scope /\ invites'[j].role = invites[j].role
          /\ invites'[j].status = invites[j].status
  BY <1>1, <1>2, <1>3 DEF Invite
<1>5. RolesInUseAreEnabledIfFresh'
  BY <1>1, <1>4 DEF FreshInv, RolesInUseAreEnabledIfFresh
<1>6. \A c \in Clients : Busy(c) /\ Checked(c) => Checked(c)'
  <2> SUFFICES ASSUME NEW c \in Clients, Busy(c), Checked(c) PROVE Checked(c)'
    OBVIOUS
  <2>1. call[c].phase = "saving" => call[c].i \in DOMAIN invites
    BY DEF EntryInv, Loaded, IsOf
  <2> QED
    BY <1>1, <1>4, <2>1 DEF Checked, InUse
<1> QED
  BY <1>1, <1>5, <1>6 DEF FreshInv, Busy

LEMMA FreshInvariance == EntryInv /\ FreshInv /\ [Next]_vars => FreshInv'
<1> SUFFICES ASSUME EntryInv, FreshInv, [Next]_vars PROVE FreshInv'
  OBVIOUS
<1>1. ASSUME NEW c \in Clients, Request(c) PROVE FreshInv'
  BY <1>1, RequestAsks, FreshLoads DEF EntryInv
<1>2. ASSUME NEW c \in Clients, Write(c) PROVE FreshInv'
  BY <1>2, FreshReads, FreshSavesInvite, FreshInserts, FreshAccepts, FreshAssigns,
     FreshChangesRole
     DEF Write
<1>3. CASE UNCHANGED vars
  BY <1>3 DEF vars, rows, FreshInv, RolesInUseAreEnabledIfFresh, Busy, Checked, InUse
<1> QED
  BY <1>1, <1>2, <1>3, FreshCreatesUser, FreshTimePasses DEF Next

\* As long as no handler was overtaken, nobody works with a role that is
\* disabled or is invited to one.
THEOREM RolesInUseAreAlwaysEnabledIfFresh == Spec => []RolesInUseAreEnabledIfFresh
<1>1. Spec => [](EntryInv /\ FreshInv)
  BY EntryInit, EntryInvariance, FreshInvariance, PTL DEF Spec
<1>2. EntryInv /\ FreshInv => RolesInUseAreEnabledIfFresh
  BY DEF FreshInv
<1> QED
  BY <1>1, <1>2, PTL
-----------------------------------------------------------------------------
(***************************************************************************)
(* The configuration of a project.                                         *)
(*                                                                         *)
(* A canonical status is never removed and never inserted twice, so an     *)
(* edit of one that was loaded before the statuses were seeded keeps them  *)
(* from being seeded, and one loaded after them saves what was seeded.     *)
(* What an edit found when it was loaded still holds as long as it is      *)
(* fresh.                                                                  *)
(***************************************************************************)
HasStatuses == ProjectExists /\ "status" \notin seeding

IsStage(row, key) ==
    LET seed == Seed("status", key) IN
    /\ row.category = seed.category /\ row.policy = seed.policy
    /\ row.isTerminal = seed.isTerminal /\ row.isDone = seed.isDone /\ row.isActive = seed.isActive

NothingBefore ==
    creation = "none" => /\ \A k \in Kinds : DOMAIN table[k] = {}
                         /\ \A c \in Editors : edit[c].phase = "idle"

StagesAreSeeded ==
    HasStatuses => \A key \in Stages : Exists("status", key) /\ IsStage(table["status"][key], key)

EditOf(c) ==
    LET e == edit[c] IN
    /\ e.phase = "begun" => e.kind = "status"
    /\ e.phase = "unset" => e.kind \in Options
    /\ e.op = "project" => e.kind = "label"

EditOfStage(c) ==
    LET e == edit[c] IN
    \A key \in Stages : e.kind = "status" /\ e.key = key =>
        /\ e.op # "remove"
        /\ e.op = "update" => /\ Exists("status", key)
                              /\ HasStatuses => IsStage(e.row, key)

DoneRow(x) == Exists("status", x) /\ table["status"][x].isDone /\ table["status"][x].isActive

DefaultRow(k, x) == Exists(k, x) /\ table[k][x].isDefault

EditFinds(c, k, key) ==
    LET e == edit[c] IN
    e.kind = k /\ e.key = key /\ e.fresh /\ e.phase # "idle" =>
        /\ e.op = "update" => Exists(k, key)
        /\ k = "status" /\ e.op = "update" =>
              (e.row.isDone /\ e.row.isActive <=> \A x \in Keys \ {key} : ~DoneRow(x))
        /\ k = "status" /\ e.op = "insert" => (e.row.isDone <=> \A x \in Keys : ~DoneRow(x))
        /\ e.op \in {"insert", "update"} /\ e.row.isDefault /\ ~e.takes => DefaultRow(k, key)
        /\ k = "label" => ~e.takes
        /\ e.phase = "begun" /\ e.takes => \A x \in Keys : DefaultRow(k, x) => x \in e.seen
        /\ e.phase = "unset" => \A x \in Keys : ~DefaultRow(k, x)
        /\ e.op = "project" => \A j \in seeding : DOMAIN table[j] = {}

OneDone == HasStatuses => \A x \in Keys : DoneRow(x) <=> x = "DONE"

OneDefault(k) == \A x, y \in Keys : DefaultRow(k, x) /\ DefaultRow(k, y) => x = y

EditsInv == \A c \in Editors : EditOf(c) /\ EditOfStage(c)

FreshConfig ==
    ~editOvertaken =>
        /\ OneDone /\ \A k \in Kinds : OneDefault(k)
        /\ \A c \in Editors, k \in Kinds, key \in Keys : EditFinds(c, k, key)

ConfigInv == ConfigTypeOK /\ NothingBefore /\ StagesAreSeeded /\ EditsInv /\ FreshConfig

LEMMA KindsAndKeys ==
    /\ Seeded = Options \cup {"status"} /\ Seeded \subseteq Kinds /\ Options \subseteq Kinds
    /\ "status" \in Kinds /\ "label" \in Kinds /\ "status" \in Seeded
    /\ "status" \notin Options /\ "label" \notin Options /\ "label" \notin Seeded
    /\ \A k \in Kinds : k \in Options \/ k = "status" \/ k = "label"
    /\ \A k \in Kinds : Seeds(k) \subseteq Keys
    /\ Stages \subseteq Seeds("status") /\ Stages \subseteq Keys /\ CustomKeys \subseteq Keys
    /\ Seeds("status") = Stages \cup {"blocked"} /\ \A k \in Options : Seeds(k) = {"default"}
    /\ "TODO" \in Stages /\ "DONE" \in Stages /\ "TODO" \in Keys /\ "DONE" \in Keys
<1>1. /\ Seeded = Options \cup {"status"} /\ Seeded \subseteq Kinds /\ Options \subseteq Kinds
      /\ "status" \in Kinds /\ "label" \in Kinds /\ "status" \in Seeded
      /\ "status" \notin Options /\ "label" \notin Options /\ "label" \notin Seeded
      /\ \A k \in Kinds : k \in Options \/ k = "status" \/ k = "label"
  BY DEF Options, Seeded, Kinds
<1>2. \A k \in Kinds : Seeds(k) \subseteq Keys
  BY DEF Keys
<1>3. Seeds("status") = Stages \cup {"blocked"} /\ \A k \in Options : Seeds(k) = {"default"}
  BY DEF Seeds, Options
<1>4. CustomKeys \subseteq Keys
  BY DEF Keys
<1>5. "TODO" \in Stages /\ "DONE" \in Stages
  BY DEF Stages
<1>6. Stages \subseteq Seeds("status") /\ Stages \subseteq Keys
  <2>1. Stages \subseteq Seeds("status")
    BY <1>3
  <2> QED
    BY <1>1, <1>2, <2>1
<1> QED
  BY <1>1, <1>2, <1>3, <1>4, <1>5, <1>6

LEMMA RowShape ==
    /\ Plain \in Row /\ ~Plain.isDefault /\ IdleEdit \in Edit
    /\ IdleEdit.phase = "idle" /\ IdleEdit.kind = "label" /\ IdleEdit.op = "update"
    /\ \A k \in Kinds : \A key \in Seeds(k) : Seed(k, key) \in Row
<1>1. Plain \in Row /\ ~Plain.isDefault
  BY DEF Plain, Row, Categories
<1>2. /\ IdleEdit \in Edit /\ IdleEdit.phase = "idle" /\ IdleEdit.kind = "label"
      /\ IdleEdit.op = "update"
  BY <1>1, KindsAndKeys DEF IdleEdit, Edit, EditPhases
<1>3. ASSUME NEW k, NEW key PROVE Seed(k, key) \in Row
  BY DEF Seed, Plain, Row, Categories
<1> QED
  BY <1>1, <1>2, <1>3

\* What the statuses are seeded with.
LEMMA SeededStatuses ==
    /\ \A key \in Seeds("status") :
          LET row == Seed("status", key) IN
          /\ (row.isDone /\ row.isActive) <=> key = "DONE"
          /\ row.isDefault <=> key = "TODO"
    /\ \A key \in Stages : LET row == Seed("status", key) IN
          /\ MeansDone(row) => row.category = "done" /\ row.isTerminal /\ row.isDone
          /\ row.isActive
<1>1. /\ Seeds("status") = {"TODO", "IN_PROGRESS", "IN_REVIEW", "DONE", "blocked"}
      /\ Stages = {"TODO", "IN_PROGRESS", "IN_REVIEW", "DONE"}
  BY DEF Seeds, Stages
<1>2. /\ Seed("status", "TODO") = [Plain EXCEPT !.isDefault = TRUE, !.category = "not_started"]
      /\ Seed("status", "DONE") = [Plain EXCEPT !.category = "done", !.isTerminal = TRUE,
                                                !.isDone = TRUE]
      /\ Seed("status", "blocked") = [Plain EXCEPT !.category = "blocked"]
      /\ Seed("status", "IN_PROGRESS") = Plain /\ Seed("status", "IN_REVIEW") = Plain
  BY DEF Seed
<1>3. /\ Plain.category = "active" /\ ~Plain.isDefault /\ ~Plain.isDone /\ Plain.isActive
      /\ Seed("status", "TODO").category = "not_started" /\ Seed("status", "TODO").isDefault
      /\ ~Seed("status", "TODO").isDone /\ Seed("status", "TODO").isActive
      /\ Seed("status", "DONE").category = "done" /\ Seed("status", "DONE").isTerminal
      /\ ~Seed("status", "DONE").isDefault
      /\ Seed("status", "DONE").isDone /\ Seed("status", "DONE").isActive
      /\ ~Seed("status", "blocked").isDone /\ ~Seed("status", "blocked").isDefault
  BY <1>2 DEF Plain
<1>4. ASSUME NEW key \in Seeds("status")
      PROVE  /\ (Seed("status", key).isDone /\ Seed("status", key).isActive) <=> key = "DONE"
             /\ Seed("status", key).isDefault <=> key = "TODO"
  BY <1>1, <1>2, <1>3
<1>5. ASSUME NEW key \in Stages
      PROVE  /\ MeansDone(Seed("status", key)) =>
                    /\ Seed("status", key).category = "done" /\ Seed("status", key).isTerminal
                    /\ Seed("status", key).isDone
             /\ Seed("status", key).isActive
  BY <1>1, <1>2, <1>3 DEF MeansDone
<1> QED
  BY <1>4, <1>5

LEMMA WithIsRow ==
    ASSUME NEW row \in Row, NEW dto \in StatusChanges \cup OptionChanges
    PROVE  With(row, dto) \in Row
<1>1. With(Plain, dto) \in Row
  BY ConfigAssumption
<1>2. DOMAIN Plain = DOMAIN row /\ DOMAIN row
          = {"category", "policy", "isDefault", "isTerminal", "isDone", "isActive"}
  BY DEF Plain, Row
<1>3. /\ "category" \in DOMAIN dto => dto["category"] \in Categories
      /\ "policy" \in DOMAIN dto => dto["policy"] \in {"none", "some"}
      /\ "isDefault" \in DOMAIN dto => dto["isDefault"] \in BOOLEAN
      /\ "isTerminal" \in DOMAIN dto => dto["isTerminal"] \in BOOLEAN
      /\ "isDone" \in DOMAIN dto => dto["isDone"] \in BOOLEAN
      /\ "isActive" \in DOMAIN dto => dto["isActive"] \in BOOLEAN
  <2> DEFINE plain == With(Plain, dto)
  <2>1. /\ plain["category"] \in Categories /\ plain["policy"] \in {"none", "some"}
        /\ plain["isDefault"] \in BOOLEAN /\ plain["isTerminal"] \in BOOLEAN
        /\ plain["isDone"] \in BOOLEAN /\ plain["isActive"] \in BOOLEAN
    <3> HIDE DEF plain
    <3>1. plain \in Row
      BY <1>1 DEF plain
    <3> QED
      BY <3>1 DEF Row
  <2>2. \A f \in DOMAIN row : f \in DOMAIN dto => plain[f] = dto[f]
    BY <1>2 DEF With
  <2> HIDE DEF plain
  <2> QED
    BY <1>2, <2>1, <2>2
<1>4. /\ row["category"] \in Categories /\ row["policy"] \in {"none", "some"}
      /\ row["isDefault"] \in BOOLEAN /\ row["isTerminal"] \in BOOLEAN
      /\ row["isDone"] \in BOOLEAN /\ row["isActive"] \in BOOLEAN
  BY DEF Row
<1> DEFINE r == With(row, dto)
<1>5. r = [f \in {"category", "policy", "isDefault", "isTerminal", "isDone", "isActive"} |->
              IF f \in DOMAIN dto THEN dto[f] ELSE row[f]]
  BY <1>2 DEF With
<1>6. /\ r["category"] \in Categories /\ r["policy"] \in {"none", "some"}
      /\ r["isDefault"] \in BOOLEAN /\ r["isTerminal"] \in BOOLEAN
      /\ r["isDone"] \in BOOLEAN /\ r["isActive"] \in BOOLEAN
  BY <1>3, <1>4, <1>5
<1>7. r = [category |-> r["category"], policy |-> r["policy"], isDefault |-> r["isDefault"],
           isTerminal |-> r["isTerminal"], isDone |-> r["isDone"], isActive |-> r["isActive"]]
  BY <1>5
<1> HIDE DEF r
<1>8. r \in Row
  BY <1>6, <1>7 DEF Row
<1> QED
  BY <1>8 DEF r

LEMMA WithRow ==
    ASSUME NEW row \in Row, NEW other \in Row
    PROVE  With(row, other) = other
  BY DEF With, Row

LEMMA NormalizedIsRow ==
    ASSUME NEW row \in Row
    PROVE  /\ Normalized(row) \in Row /\ Normalized(row).isDefault = row.isDefault
           /\ Normalized(row).isActive = row.isActive
  BY DEF Normalized, Row, Categories

LEMMA ConfigStarts == ConfigInit => ConfigInv
<1> SUFFICES ASSUME ConfigInit PROVE ConfigInv
  OBVIOUS
<1>1. /\ table = [k \in Kinds |-> [key \in {} |-> Plain]] /\ used = [k \in Kinds |-> {}]
      /\ seeding = {} /\ creation = "none" /\ edit = [c \in Editors |-> IdleEdit]
      /\ editOvertaken = FALSE /\ edits = 0
  BY DEF ConfigInit
<1>2. /\ \A k \in Kinds : DOMAIN table[k] = {} /\ table[k] \in [DOMAIN table[k] -> Row]
      /\ ~ProjectExists /\ \A c \in Editors : edit[c] = IdleEdit
  BY <1>1 DEF ProjectExists
<1>3. ConfigTypeOK
  <2>1. edits \in 0 .. MaxEdits
    BY <1>1, ConfigAssumption
  <2> QED
    BY <1>1, <1>2, <2>1, RowShape DEF ConfigTypeOK
<1>4. NothingBefore /\ StagesAreSeeded
  BY <1>2, RowShape DEF NothingBefore, StagesAreSeeded, HasStatuses
<1>5. EditsInv
  BY <1>2, RowShape DEF EditsInv, EditOf, EditOfStage
<1>6. OneDone /\ \A k \in Kinds : OneDefault(k)
  BY <1>2 DEF OneDone, HasStatuses, OneDefault, DefaultRow, Exists
<1>7. \A c \in Editors, k \in Kinds, key \in Keys : EditFinds(c, k, key)
  BY <1>2, RowShape DEF EditFinds
<1> QED
  BY <1>3, <1>4, <1>5, <1>6, <1>7 DEF ConfigInv, FreshConfig

LEMMA TableTypes ==
    ASSUME ConfigInv, NEW k \in Kinds
    PROVE  /\ DOMAIN table = Kinds /\ DOMAIN table[k] \subseteq Keys
           /\ table[k] \in [DOMAIN table[k] -> Row]
           /\ \A key : Exists(k, key) => key \in Keys /\ table[k][key] \in Row
  BY DEF ConfigInv, ConfigTypeOK, Exists

LEMMA DoneRows ==
    ASSUME ConfigInv, NEW x
    PROVE  x \in ActiveDone(table["status"]) <=> x \in Keys /\ DoneRow(x)
  BY TableTypes, KindsAndKeys DEF ActiveDone, DoneRow, Exists

LEMMA DefaultRows ==
    ASSUME ConfigInv, NEW k \in Kinds, NEW x
    PROVE  x \in Defaults(k) <=> x \in Keys /\ DefaultRow(k, x)
  BY TableTypes DEF Defaults, DefaultRow, Exists

(***************************************************************************)
(* A request loads a row.                                                  *)
(***************************************************************************)
LEMMA RowIsLoaded ==
    ASSUME ConfigInv, NEW c \in Editors, ReadyToEdit(c),
           NEW op \in {"insert", "update", "remove"}, NEW k \in Kinds, NEW key \in Keys,
           NEW row \in Row, NEW takes \in BOOLEAN,
           LoadRow(c, op, k, key, row, takes), UNCHANGED created, ProjectExists,
           k = "status" /\ key \in Stages =>
              /\ op # "remove"
              /\ op = "update" => Exists(k, key) /\ (HasStatuses => IsStage(row, key)),
           op = "update" => Exists(k, key),
           k = "status" /\ op = "update" =>
              (row.isDone /\ row.isActive <=> \A x \in Keys \ {key} : ~DoneRow(x)),
           k = "status" /\ op = "insert" => (row.isDone <=> \A x \in Keys : ~DoneRow(x)),
           op \in {"insert", "update"} /\ row.isDefault /\ ~takes => DefaultRow(k, key),
           k = "label" => ~takes
    PROVE  ConfigInv'
<1> DEFINE e == [IdleEdit EXCEPT !.phase = "loaded", !.op = op, !.kind = k, !.key = key,
                                 !.row = row, !.takes = takes]
<1>1. /\ edit' = [edit EXCEPT ![c] = e] /\ edits' = edits + 1
      /\ UNCHANGED <<table, used, seeding, creation, editOvertaken>>
  BY DEF LoadRow, config, created
<1>2. /\ e \in Edit /\ e.phase = "loaded" /\ e.op = op /\ e.kind = k /\ e.key = key
      /\ e.row = row /\ e.takes = takes
  BY RowShape DEF Edit, EditPhases, IdleEdit
<1> HIDE DEF e
<1>3. ConfigTypeOK /\ NothingBefore /\ StagesAreSeeded /\ EditsInv /\ FreshConfig
  BY DEF ConfigInv
<1>4. /\ edit' \in [Editors -> Edit] /\ edit'[c] = e
      /\ \A d \in Editors : d # c => edit'[d] = edit[d]
  BY <1>1, <1>2, <1>3 DEF ConfigTypeOK
<1>5. ConfigTypeOK'
  <2>1. edits' \in 0 .. MaxEdits
    BY <1>1, <1>3, ConfigAssumption DEF ConfigTypeOK, ReadyToEdit
  <2> QED
    BY <1>1, <1>3, <1>4, <2>1 DEF ConfigTypeOK
<1>6. NothingBefore' /\ StagesAreSeeded'
  <2>1. creation # "none"
    BY DEF ProjectExists
  <2> QED
    BY <1>1, <1>3, <2>1 DEF NothingBefore, StagesAreSeeded, HasStatuses, ProjectExists, Exists
<1>7. EditsInv'
  <2> SUFFICES ASSUME NEW d \in Editors PROVE EditOf(d)' /\ EditOfStage(d)'
    BY DEF EditsInv
  <2>1. CASE d = c
    BY <1>1, <1>2, <1>4, <2>1
       DEF EditOf, EditOfStage, HasStatuses, ProjectExists, Exists
  <2>2. CASE d # c
    BY <1>1, <1>3, <1>4, <2>2
       DEF EditsInv, EditOf, EditOfStage, HasStatuses, ProjectExists, Exists
  <2> QED
    BY <2>1, <2>2
<1>8. ASSUME ~editOvertaken'
      PROVE  /\ OneDone' /\ \A j \in Kinds : OneDefault(j)'
             /\ \A d \in Editors, j \in Kinds, x \in Keys : EditFinds(d, j, x)'
  <2>1. /\ \A x : DoneRow(x)' <=> DoneRow(x)
        /\ \A j, x : (DefaultRow(j, x)' <=> DefaultRow(j, x)) /\ (Exists(j, x)' <=> Exists(j, x))
    BY <1>1 DEF DoneRow, DefaultRow, Exists
  <2>2. /\ OneDone /\ \A j \in Kinds : OneDefault(j)
        /\ \A d \in Editors, j \in Kinds, x \in Keys : EditFinds(d, j, x)
    BY <1>1, <1>3, <1>8 DEF FreshConfig
  <2>3. OneDone' /\ \A j \in Kinds : OneDefault(j)'
    BY <1>1, <2>1, <2>2 DEF OneDone, OneDefault, HasStatuses, ProjectExists
  <2>4. ASSUME NEW d \in Editors, NEW j \in Kinds, NEW x \in Keys PROVE EditFinds(d, j, x)'
    <3>1. CASE d # c
      <4>1. edit'[d] = edit[d] /\ EditFinds(d, j, x)
        BY <1>4, <2>2, <3>1
      <4> QED
        BY <1>1, <2>1, <4>1 DEF EditFinds
    <3>2. CASE d = c
      BY <1>2, <1>4, <2>1, <3>2 DEF EditFinds
    <3> QED
      BY <3>1, <3>2
  <2> QED
    BY <2>3, <2>4
<1> QED
  BY <1>5, <1>6, <1>7, <1>8 DEF ConfigInv, FreshConfig

LEMMA ProjectBegins ==
    ASSUME ConfigInv, NEW c \in Editors, ReadyToEdit(c), CreateProject(c)
    PROVE  ConfigInv'
<1> DEFINE e == [IdleEdit EXCEPT !.phase = "loaded", !.op = "project", !.kind = "label",
                                 !.key = "TODO", !.row = Plain, !.takes = FALSE]
<1>1. /\ edit' = [edit EXCEPT ![c] = e] /\ edits' = edits + 1
      /\ creation = "none" /\ creation' = "created" /\ seeding' = Seeded
      /\ UNCHANGED <<table, used, editOvertaken>>
  BY DEF CreateProject, LoadRow, config
<1>2. /\ e \in Edit /\ e.phase = "loaded" /\ e.op = "project" /\ e.kind = "label" /\ ~e.takes
  BY RowShape, KindsAndKeys DEF Edit, EditPhases, IdleEdit
<1> HIDE DEF e
<1>3. ConfigTypeOK /\ NothingBefore /\ FreshConfig
  BY DEF ConfigInv
<1>4. /\ edit' \in [Editors -> Edit] /\ edit'[c] = e
      /\ \A d \in Editors : d # c => edit'[d] = edit[d]
  BY <1>1, <1>2, <1>3 DEF ConfigTypeOK
<1>5. /\ \A k \in Kinds : DOMAIN table[k] = {}
      /\ \A d \in Editors : edit[d].phase = "idle"
  BY <1>1, <1>3 DEF NothingBefore
<1>6. ConfigTypeOK'
  <2>1. edits' \in 0 .. MaxEdits
    BY <1>1, <1>3, ConfigAssumption DEF ConfigTypeOK, ReadyToEdit
  <2> QED
    BY <1>1, <1>3, <1>4, <2>1 DEF ConfigTypeOK
<1>7. ~HasStatuses' /\ ~ProjectExists
  BY <1>1, KindsAndKeys DEF HasStatuses, ProjectExists
<1>8. NothingBefore' /\ StagesAreSeeded'
  BY <1>1, <1>7 DEF NothingBefore, StagesAreSeeded
<1>9. EditsInv'
  <2> SUFFICES ASSUME NEW d \in Editors PROVE EditOf(d)' /\ EditOfStage(d)'
    BY DEF EditsInv
  <2>1. CASE d = c
    BY <1>2, <1>4, <2>1 DEF EditOf, EditOfStage
  <2>2. CASE d # c
    <3>1. EditOf(d) /\ EditOfStage(d) /\ edit'[d] = edit[d]
      BY <1>4, <2>2 DEF ConfigInv, EditsInv
    <3> QED
      BY <1>1, <1>7, <3>1 DEF EditOf, EditOfStage, Exists
  <2> QED
    BY <2>1, <2>2
<1>10. \A k \in Kinds : \A x : ~Exists(k, x)'
  BY <1>1, <1>5 DEF Exists
<1>11. OneDone' /\ \A k \in Kinds : OneDefault(k)'
  BY <1>7, <1>10 DEF OneDone, OneDefault, DefaultRow
<1>12. \A d \in Editors, k \in Kinds, key \in Keys : EditFinds(d, k, key)'
  <2> SUFFICES ASSUME NEW d \in Editors, NEW k \in Kinds, NEW key \in Keys,
                      edit'[d].phase # "idle"
               PROVE  EditFinds(d, k, key)'
    BY DEF EditFinds
  <2>1. d = c
    BY <1>4, <1>5
  <2>2. \A j \in seeding' : DOMAIN table'[j] = {}
    BY <1>1, <1>5, KindsAndKeys
  <2> QED
    BY <1>2, <1>4, <2>1, <2>2, KindsAndKeys DEF EditFinds
<1> QED
  BY <1>6, <1>8, <1>9, <1>11, <1>12 DEF ConfigInv, FreshConfig

LEMMA EditCreates ==
    ASSUME ConfigInv, NEW c \in Editors, ReadyToEdit(c), NEW k \in Kinds, NEW key \in CustomKeys,
           NEW dto, NEW row \in Row, row = With(Plain, dto), Create(c, k, key, dto),
           k = "status" => (row.isDone <=> \A x \in Keys : ~DoneRow(x)),
           k = "label" => ~row.isDefault
    PROVE  ConfigInv'
<1>1. /\ ProjectExists /\ LoadRow(c, "insert", k, key, row, row.isDefault) /\ UNCHANGED created
  BY DEF Create
<1>2. PICK takes \in BOOLEAN : takes <=> row.isDefault
  BY DEF Row
<1>3. takes = row.isDefault
  BY <1>2 DEF Row
<1>4. LoadRow(c, "insert", k, key, row, takes)
  BY <1>1, <1>3
<1>5. key \in Keys
  BY KindsAndKeys
<1> QED
  BY <1>1, <1>2, <1>4, <1>5, RowIsLoaded

LEMMA EditUpdates ==
    ASSUME ConfigInv, NEW c \in Editors, ReadyToEdit(c), NEW k \in Kinds, NEW key \in Keys,
           NEW dto, NEW row \in Row, Exists(k, key), row = With(table[k][key], dto),
           Update(c, k, key, dto),
           k = "status" => (row.isDone /\ row.isActive <=> \A x \in Keys \ {key} : ~DoneRow(x)),
           k = "status" /\ key \in Stages => (HasStatuses => IsStage(row, key)),
           k = "label" => ~row.isDefault
    PROVE  ConfigInv'
<1>1. ProjectExists
  BY DEF ConfigInv, NothingBefore, ProjectExists, Exists
<1>2. /\ row.isDefault \in BOOLEAN /\ table[k][key].isDefault \in BOOLEAN
  BY TableTypes DEF Row
<1>3. PICK takes \in BOOLEAN : takes <=> (row.isDefault /\ ~table[k][key].isDefault)
  OBVIOUS
<1>4. takes = (row.isDefault /\ ~table[k][key].isDefault)
  BY <1>2, <1>3
<1>5. LoadRow(c, "update", k, key, row, takes) /\ UNCHANGED created
  BY <1>4 DEF Update
<1>6. row.isDefault /\ ~takes => DefaultRow(k, key)
  BY <1>2, <1>3 DEF DefaultRow
<1>7. k = "label" => ~takes
  BY <1>3
<1> QED
  BY <1>1, <1>5, <1>6, <1>7, RowIsLoaded

LEMMA EditDeletes ==
    ASSUME ConfigInv, NEW c \in Editors, ReadyToEdit(c), NEW k \in Kinds, NEW key \in Keys,
           Delete(c, k, key), k = "status" => key \notin Stages
    PROVE  ConfigInv'
<1>1. ProjectExists
  BY DEF ConfigInv, NothingBefore, ProjectExists, Delete, Exists
<1>2. LoadRow(c, "remove", k, key, Plain, FALSE) /\ UNCHANGED created
  BY DEF Delete
<1> QED
  BY <1>1, <1>2, RowShape, RowIsLoaded

LEMMA StageStaysNormal ==
    ASSUME NEW row \in Row, NEW key \in Stages, IsStage(row, key)
    PROVE  IsStage(Normalized(row), key)
<1>1. /\ MeansDone(row) => MeansDone(Seed("status", key))
      /\ MeansDone(Seed("status", key)) =>
            row.category = "done" /\ row.isTerminal = TRUE /\ row.isDone = TRUE
  BY SeededStatuses DEF IsStage, MeansDone, Row
<1>2. MeansDone(row) => [row EXCEPT !.category = "done", !.isTerminal = TRUE, !.isDone = TRUE] = row
  BY <1>1 DEF Row
<1>3. Normalized(row) = row
  BY <1>2 DEF Normalized
<1> QED
  BY <1>3

LEMMA StatusIsCreated ==
    ASSUME ConfigInv, NEW c \in Editors, ReadyToEdit(c), NEW key \in CustomKeys,
           NEW dto \in StatusChanges, CreateStatus(c, key, dto)
    PROVE  ConfigInv'
<1> DEFINE row == [Normalized(With(Plain, dto)) EXCEPT !.isActive = TRUE]
<1>1. CanCreate(row) /\ Create(c, "status", key, row)
  BY DEF CreateStatus
<1>2. row \in Row
  <2>1. Normalized(With(Plain, dto)) \in Row
    BY RowShape, WithIsRow, NormalizedIsRow
  <2> QED
    BY <2>1 DEF Row
<1> HIDE DEF row
<1>3. With(Plain, row) = row
  BY <1>2, RowShape, WithRow
<1>4. row.isDone <=> \A x \in Keys : ~DoneRow(x)
  BY <1>1, <1>2, DoneRows DEF CanCreate
<1> QED
  BY <1>1, <1>2, <1>3, <1>4, KindsAndKeys, EditCreates

LEMMA StatusIsUpdated ==
    ASSUME ConfigInv, NEW c \in Editors, ReadyToEdit(c), NEW key \in Keys,
           NEW dto \in StatusChanges, UpdateStatus(c, key, dto)
    PROVE  ConfigInv'
<1>1. Exists("status", key)
  BY DEF UpdateStatus
<1>2. PICK old \in Row : old = table["status"][key]
  BY <1>1, TableTypes, KindsAndKeys
<1>3. PICK row \in Row : row = With(old, dto)
  BY WithIsRow
<1>4. PICK new \in Row : new = Normalized(row)
  BY NormalizedIsRow
<1>5. /\ key \in Stages => row = old
      /\ CanUpdate(key, new) /\ Update(c, "status", key, new)
  BY <1>2, <1>3, <1>4 DEF UpdateStatus
<1>6. new = With(table["status"][key], new)
  BY <1>2, <1>4, WithRow
<1>7. new.isDone /\ new.isActive <=> \A x \in Keys \ {key} : ~DoneRow(x)
  BY <1>4, <1>5, DoneRows DEF CanUpdate
<1>8. key \in Stages /\ HasStatuses => IsStage(new, key)
  BY <1>2, <1>4, <1>5, StageStaysNormal DEF ConfigInv, StagesAreSeeded
<1> QED
  BY <1>1, <1>4, <1>5, <1>6, <1>7, <1>8, KindsAndKeys, EditUpdates

LEMMA OptionIsRequested ==
    ASSUME ConfigInv, NEW c \in Editors, ReadyToEdit(c), NEW k \in Options,
           NEW key \in Keys, NEW dto \in OptionChanges,
           Update(c, k, key, dto) \/ (key \in CustomKeys /\ Create(c, k, key, dto))
    PROVE  ConfigInv'
<1>1. k \in Kinds /\ k # "status" /\ k # "label"
  BY KindsAndKeys
<1>2. CASE Update(c, k, key, dto)
  <2>1. Exists(k, key)
    BY <1>2 DEF Update
  <2>2. PICK row \in Row : row = With(table[k][key], dto)
    BY <1>1, <2>1, TableTypes, WithIsRow
  <2> QED
    BY <1>1, <1>2, <2>1, <2>2, EditUpdates
<1>3. CASE key \in CustomKeys /\ Create(c, k, key, dto)
  <2>1. PICK row \in Row : row = With(Plain, dto)
    BY ConfigAssumption
  <2> QED
    BY <1>1, <1>3, <2>1, EditCreates
<1> QED
  BY <1>2, <1>3

LEMMA OptionIsDeleted ==
    ASSUME ConfigInv, NEW c \in Editors, ReadyToEdit(c), NEW k \in Options, NEW key \in Keys,
           Delete(c, k, key)
    PROVE  ConfigInv'
<1>1. k \in Kinds /\ k # "status"
  BY KindsAndKeys
<1> QED
  BY <1>1, EditDeletes

LEMMA LabelIsRequested ==
    ASSUME ConfigInv, NEW c \in Editors, ReadyToEdit(c), NEW key \in Keys,
           \/ UpdateLabel(c, key) \/ DeleteLabel(c, key)
           \/ key \in CustomKeys /\ CreateLabel(c, key)
    PROVE  ConfigInv'
<1>1. "label" \in Kinds /\ "label" # "status"
  BY KindsAndKeys
<1>2. CASE UpdateLabel(c, key)
  <2>1. Exists("label", key) /\ Update(c, "label", key, Plain)
    BY <1>2 DEF UpdateLabel, Update
  <2>2. Plain = With(table["label"][key], Plain)
    BY <1>1, <2>1, TableTypes, RowShape, WithRow
  <2> QED
    BY <1>1, <2>1, <2>2, RowShape, EditUpdates
<1>3. CASE DeleteLabel(c, key)
  BY <1>1, <1>3, EditDeletes DEF DeleteLabel
<1>4. CASE key \in CustomKeys /\ CreateLabel(c, key)
  <2>1. Plain = With(Plain, Plain)
    BY RowShape, WithRow
  <2> QED
    BY <1>1, <1>4, <2>1, RowShape, EditCreates DEF CreateLabel
<1> QED
  BY <1>2, <1>3, <1>4

LEMMA EditIsRequested ==
    ASSUME ConfigInv, NEW c \in Editors, EditRequest(c)
    PROVE  ConfigInv'
<1>1. ReadyToEdit(c) /\ CustomKeys \subseteq Keys /\ {"priority", "severity", "taskType"} = Options
  BY KindsAndKeys DEF EditRequest, Options
<1>2. CASE CreateProject(c)
  BY <1>1, <1>2, ProjectBegins
<1>3. ASSUME NEW key \in Keys, NEW dto \in StatusChanges, UpdateStatus(c, key, dto) PROVE ConfigInv'
  BY <1>1, <1>3, StatusIsUpdated
<1>4. ASSUME NEW key \in Keys, NEW dto \in OptionChanges,
             \/ UpdatePriority(c, key, dto) \/ UpdateSeverity(c, key, dto)
             \/ UpdateTaskType(c, key, dto)
      PROVE  ConfigInv'
  <2>1. PICK k \in Options : Update(c, k, key, dto)
    BY <1>1, <1>4 DEF UpdatePriority, UpdateSeverity, UpdateTaskType
  <2> QED
    BY <1>1, <2>1, OptionIsRequested
<1>5. ASSUME NEW key \in Keys,
             \/ DeletePriority(c, key) \/ DeleteSeverity(c, key) \/ DeleteTaskType(c, key)
      PROVE  ConfigInv'
  <2>1. PICK k \in Options : Delete(c, k, key)
    BY <1>1, <1>5 DEF DeletePriority, DeleteSeverity, DeleteTaskType
  <2> QED
    BY <1>1, <2>1, OptionIsDeleted
<1>6. ASSUME NEW key \in Keys, DeleteStatus(c, key) PROVE ConfigInv'
  BY <1>1, <1>6, EditDeletes, KindsAndKeys DEF DeleteStatus
<1>7. ASSUME NEW key \in Keys, UpdateLabel(c, key) \/ DeleteLabel(c, key) PROVE ConfigInv'
  BY <1>1, <1>7, LabelIsRequested
<1>8. ASSUME NEW key \in CustomKeys, NEW dto \in StatusChanges, CreateStatus(c, key, dto)
      PROVE  ConfigInv'
  BY <1>1, <1>8, StatusIsCreated
<1>9. ASSUME NEW key \in CustomKeys, NEW dto \in OptionChanges,
             \/ CreatePriority(c, key, dto) \/ CreateSeverity(c, key, dto)
             \/ CreateTaskType(c, key, dto)
      PROVE  ConfigInv'
  <2>1. PICK k \in Options : Create(c, k, key, dto)
    BY <1>1, <1>9 DEF CreatePriority, CreateSeverity, CreateTaskType
  <2> QED
    BY <1>1, <2>1, OptionIsRequested
<1>10. ASSUME NEW key \in CustomKeys, CreateLabel(c, key) PROVE ConfigInv'
  BY <1>1, <1>10, LabelIsRequested
<1> QED
  BY <1>2, <1>3, <1>4, <1>5, <1>6, <1>7, <1>8, <1>9, <1>10 DEF EditRequest

(***************************************************************************)
(* A write: the edits of the others are stale afterwards.                  *)
(***************************************************************************)
LEMMA OthersAreStale ==
    ASSUME ConfigInv, NEW c \in Editors, NEW own \in Edit,
           edit' = [d \in Editors |-> edit'[d]], edit'[c] = own,
           \A d \in Editors : d # c =>
              \/ edit'[d] = IdleEdit
              \/ edit'[d] = edit[d] /\ edit[d].phase = "idle"
              \/ edit'[d] = [edit[d] EXCEPT !.fresh = FALSE],
           \A key \in Stages : Exists("status", key) => Exists("status", key)',
           HasStatuses' => HasStatuses \/ \A key \in Stages : ~Exists("status", key),
           EditOf(c)', EditOfStage(c)'
    PROVE  /\ edit' \in [Editors -> Edit] /\ EditsInv'
           /\ \A d \in Editors : d # c => \A k \in Kinds, key \in Keys : EditFinds(d, k, key)'
<1>1. edit \in [Editors -> Edit] /\ EditsInv
  BY DEF ConfigInv, ConfigTypeOK
<1>2. ASSUME NEW d \in Editors, d # c
      PROVE  /\ edit'[d] \in Edit /\ EditOf(d)' /\ EditOfStage(d)'
             /\ \A k \in Kinds, key \in Keys : EditFinds(d, k, key)'
  <2>1. CASE edit'[d] = IdleEdit
    BY <2>1, RowShape DEF EditOf, EditOfStage, EditFinds
  <2>2. CASE \/ edit'[d] = edit[d] /\ edit[d].phase = "idle"
             \/ edit'[d] = [edit[d] EXCEPT !.fresh = FALSE]
    <3>1. PICK e \in Edit : e = edit[d]
      BY <1>1
    <3>2. /\ edit'[d] \in Edit /\ edit'[d].phase = e.phase /\ edit'[d].op = e.op
          /\ edit'[d].kind = e.kind /\ edit'[d].key = e.key /\ edit'[d].row = e.row
          /\ ~edit'[d].fresh \/ edit'[d].phase = "idle"
      BY <2>2, <3>1 DEF Edit
    <3>3. EditOf(d) /\ EditOfStage(d)
      BY <1>1 DEF EditsInv
    <3>4. EditOf(d)'
      BY <3>1, <3>2, <3>3 DEF EditOf
    <3>5. EditOfStage(d)'
      BY <3>1, <3>2, <3>3 DEF EditOfStage
    <3>6. \A k \in Kinds, key \in Keys : EditFinds(d, k, key)'
      BY <3>2 DEF EditFinds
    <3> QED
      BY <3>2, <3>4, <3>5, <3>6
  <2> QED
    BY <1>2, <2>1, <2>2
<1>3. edit' \in [Editors -> Edit]
  <2>1. \A d \in Editors : edit'[d] \in Edit
    BY <1>2
  <2> QED
    BY <2>1
<1> QED
  BY <1>2, <1>3 DEF EditsInv

LEMMA EditIsFinished ==
    ASSUME ConfigInv, NEW c \in Editors, FinishEdit(c),
           \A key \in Stages : Exists("status", key) => Exists("status", key)',
           HasStatuses' => HasStatuses \/ \A key \in Stages : ~Exists("status", key)
    PROVE  /\ edit' \in [Editors -> Edit] /\ EditsInv'
           /\ \A d \in Editors, k \in Kinds, key \in Keys : EditFinds(d, k, key)'
<1>1. /\ edit' = [d \in Editors |-> edit'[d]] /\ edit'[c] = IdleEdit
      /\ \A d \in Editors : d # c =>
            edit'[d] = IdleEdit \/ edit'[d] = [edit[d] EXCEPT !.fresh = FALSE]
  BY DEF FinishEdit
<1>2. EditOf(c)' /\ EditOfStage(c)' /\ \A k \in Kinds, key \in Keys : EditFinds(c, k, key)'
  BY <1>1, RowShape DEF EditOf, EditOfStage, EditFinds
<1>3. /\ edit' \in [Editors -> Edit] /\ EditsInv'
      /\ \A d \in Editors : d # c => \A k \in Kinds, key \in Keys : EditFinds(d, k, key)'
  BY <1>1, <1>2, RowShape, OthersAreStale
<1> QED
  BY <1>2, <1>3

LEMMA TableIsWritten ==
    ASSUME ConfigInv, NEW k \in Kinds, NEW kept, DOMAIN kept \subseteq Keys,
           kept \in [DOMAIN kept -> Row], table' = [table EXCEPT ![k] = kept]
    PROVE  /\ DOMAIN table' = Kinds /\ table'[k] = kept
           /\ \A j \in Kinds : /\ DOMAIN table'[j] \subseteq Keys
                               /\ table'[j] \in [DOMAIN table'[j] -> Row]
                               /\ j # k => table'[j] = table[j]
           /\ \A x : Exists(k, x)' <=> x \in DOMAIN kept
           /\ \A x : DefaultRow(k, x)' <=> x \in DOMAIN kept /\ kept[x].isDefault
           /\ \A j \in Kinds : \A x : j # k => /\ Exists(j, x)' <=> Exists(j, x)
                                               /\ DefaultRow(j, x)' <=> DefaultRow(j, x)
           /\ k = "status" => \A x : DoneRow(x)' <=>
                                 x \in DOMAIN kept /\ kept[x].isDone /\ kept[x].isActive
           /\ k # "status" => \A x : DoneRow(x)' <=> DoneRow(x)
<1>1. /\ DOMAIN table = Kinds
      /\ \A j \in Kinds : DOMAIN table[j] \subseteq Keys /\ table[j] \in [DOMAIN table[j] -> Row]
  BY DEF ConfigInv, ConfigTypeOK
<1>2. DOMAIN table' = Kinds /\ table'[k] = kept /\ \A j \in Kinds : j # k => table'[j] = table[j]
  BY <1>1
<1>3. \A j \in Kinds : DOMAIN table'[j] \subseteq Keys /\ table'[j] \in [DOMAIN table'[j] -> Row]
  BY <1>1, <1>2
<1>4. /\ \A x : Exists(k, x)' <=> x \in DOMAIN kept
      /\ \A x : DefaultRow(k, x)' <=> x \in DOMAIN kept /\ kept[x].isDefault
      /\ \A j \in Kinds : \A x : j # k => /\ Exists(j, x)' <=> Exists(j, x)
                                          /\ DefaultRow(j, x)' <=> DefaultRow(j, x)
  BY <1>2 DEF Exists, DefaultRow
<1>5. /\ k = "status" => \A x : DoneRow(x)' <=>
                            x \in DOMAIN kept /\ kept[x].isDone /\ kept[x].isActive
      /\ k # "status" => \A x : DoneRow(x)' <=> DoneRow(x)
  BY <1>2, KindsAndKeys DEF Exists, DoneRow
<1> QED
  BY <1>2, <1>3, <1>4, <1>5

LEMMA ClearedRows ==
    ASSUME ConfigInv, NEW k \in Kinds, NEW keys
    PROVE  /\ DOMAIN Cleared(k, keys) = DOMAIN table[k]
           /\ \A x \in DOMAIN table[k] :
                 LET row == Cleared(k, keys)[x]  old == table[k][x] IN
                 /\ row \in Row
                 /\ row.category = old.category /\ row.policy = old.policy
                 /\ row.isTerminal = old.isTerminal /\ row.isDone = old.isDone
                 /\ row.isActive = old.isActive
                 /\ row.isDefault <=> old.isDefault /\ x \notin keys
<1>1. DOMAIN Cleared(k, keys) = DOMAIN table[k]
  BY DEF Cleared
<1>2. ASSUME NEW x \in DOMAIN table[k], NEW old \in Row, old = table[k][x],
             NEW row, row = Cleared(k, keys)[x]
      PROVE  /\ row \in Row
             /\ row.category = old.category /\ row.policy = old.policy
             /\ row.isTerminal = old.isTerminal /\ row.isDone = old.isDone
             /\ row.isActive = old.isActive
             /\ row.isDefault <=> old.isDefault /\ x \notin keys
  <2>1. row = IF x \in keys THEN [old EXCEPT !.isDefault = FALSE] ELSE old
    BY <1>2 DEF Cleared
  <2> QED
    BY <2>1 DEF Row
<1>3. \A x \in DOMAIN table[k] : table[k][x] \in Row
  BY TableTypes
<1> QED
  BY <1>1, <1>2, <1>3

LEMMA EditIsTyped ==
    ASSUME ConfigInv, NEW c \in Editors
    PROVE  /\ edit[c] \in Edit /\ edit[c].kind \in Kinds /\ edit[c].key \in Keys
           /\ edit[c].row \in Row /\ edit[c].takes \in BOOLEAN /\ edit[c].fresh \in BOOLEAN
           /\ edit[c].phase # "idle" => creation # "none" /\ ProjectExists
<1>1. edit[c] \in Edit
  BY DEF ConfigInv, ConfigTypeOK
<1>2. edit[c].phase # "idle" => creation # "none" /\ ProjectExists
  BY DEF ConfigInv, NothingBefore, ProjectExists
<1> QED
  BY <1>1, <1>2 DEF Edit

LEMMA WroteWhenFresh ==
    ASSUME ConfigInv, NEW c \in Editors, WroteRow(c)
    PROVE  /\ editOvertaken' \in BOOLEAN /\ edits' = edits
           /\ ~editOvertaken' => ~editOvertaken /\ edit[c].fresh
  BY DEF WroteRow, ConfigInv, ConfigTypeOK

LEMMA RowIsSaved ==
    ASSUME ConfigInv, NEW c \in Editors, SaveRow(c)
    PROVE  ConfigInv'
<1>1. PICK e \in Edit : e = edit[c]
  BY EditIsTyped
<1>2. PICK k \in Kinds, key \in Keys, row \in Row :
          k = e.kind /\ key = e.key /\ row = e.row
  BY <1>1 DEF Edit
<1>3. e.takes \in BOOLEAN /\ e.fresh \in BOOLEAN /\ row.isDone \in BOOLEAN
      /\ row.isActive \in BOOLEAN /\ row.isDefault \in BOOLEAN
  BY <1>1 DEF Edit, Row
<1> DEFINE kept == Put(Cleared(k, e.seen), key, row)
<1>4. /\ e.op \in {"insert", "update"}
      /\ \/ e.phase \in {"begun", "unset"}
         \/ e.phase = "loaded" /\ k # "status" /\ ~(k \in Options /\ e.takes)
      /\ e.op = "insert" => ~Exists(k, key)
      /\ table' = [table EXCEPT ![k] = kept]
      /\ FinishEdit(c) /\ WroteRow(c) /\ UNCHANGED <<used, seeding, creation>>
  BY <1>1, <1>2 DEF SaveRow, created
<1>5. /\ DOMAIN kept = DOMAIN table[k] \cup {key} /\ kept[key] = row
      /\ \A x \in DOMAIN table[k] : x # key =>
            /\ kept[x] \in Row
            /\ kept[x].category = table[k][x].category /\ kept[x].policy = table[k][x].policy
            /\ kept[x].isTerminal = table[k][x].isTerminal /\ kept[x].isDone = table[k][x].isDone
            /\ kept[x].isActive = table[k][x].isActive
            /\ kept[x].isDefault <=> table[k][x].isDefault /\ x \notin e.seen
  <2> DEFINE t == Cleared(k, e.seen)
  <2>1. /\ DOMAIN t = DOMAIN table[k]
        /\ \A x \in DOMAIN table[k] :
            /\ t[x] \in Row
            /\ t[x].category = table[k][x].category /\ t[x].policy = table[k][x].policy
            /\ t[x].isTerminal = table[k][x].isTerminal /\ t[x].isDone = table[k][x].isDone
            /\ t[x].isActive = table[k][x].isActive
            /\ t[x].isDefault <=> table[k][x].isDefault /\ x \notin e.seen
    BY ClearedRows
  <2> HIDE DEF t
  <2>2. kept = [x \in DOMAIN t \cup {key} |-> IF x = key THEN row ELSE t[x]]
    BY DEF Put, t
  <2> QED
    BY <2>1, <2>2
<1>6. kept \in [DOMAIN kept -> Row] /\ DOMAIN kept \subseteq Keys
  <2>1. kept = [x \in DOMAIN kept |-> kept[x]]
    BY DEF Put
  <2>2. \A x \in DOMAIN kept : kept[x] \in Row
    BY <1>5
  <2>3. DOMAIN kept \subseteq Keys
    BY <1>5, TableTypes
  <2> HIDE DEF kept
  <2> QED
    BY <2>1, <2>2, <2>3
<1> HIDE DEF kept
<1>7. /\ DOMAIN table' = Kinds /\ table'[k] = kept
      /\ \A j \in Kinds : /\ DOMAIN table'[j] \subseteq Keys
                          /\ table'[j] \in [DOMAIN table'[j] -> Row]
                          /\ j # k => table'[j] = table[j]
      /\ \A x : Exists(k, x)' <=> x \in DOMAIN kept
      /\ \A x : DefaultRow(k, x)' <=> x \in DOMAIN kept /\ kept[x].isDefault
      /\ \A j \in Kinds : \A x : j # k => /\ Exists(j, x)' <=> Exists(j, x)
                                          /\ DefaultRow(j, x)' <=> DefaultRow(j, x)
      /\ k = "status" => \A x : DoneRow(x)' <=>
                            x \in DOMAIN kept /\ kept[x].isDone /\ kept[x].isActive
      /\ k # "status" => \A x : DoneRow(x)' <=> DoneRow(x)
  BY <1>4, <1>6, TableIsWritten
<1>8. HasStatuses' <=> HasStatuses
  BY <1>4 DEF HasStatuses, ProjectExists
<1>9. \A x : Exists("status", x) => Exists("status", x)'
  BY <1>5, <1>7, KindsAndKeys DEF Exists
<1>10. /\ edit' \in [Editors -> Edit] /\ EditsInv'
       /\ \A d \in Editors, j \in Kinds, x \in Keys : EditFinds(d, j, x)'
  BY <1>4, <1>8, <1>9, EditIsFinished
<1>11. /\ editOvertaken' \in BOOLEAN /\ edits' = edits
       /\ ~editOvertaken' => ~editOvertaken /\ e.fresh
  BY <1>1, <1>4, WroteWhenFresh
<1>12. ConfigTypeOK'
  BY <1>4, <1>7, <1>10, <1>11 DEF ConfigInv, ConfigTypeOK
<1>13. NothingBefore'
  BY <1>1, <1>4, EditIsTyped DEF NothingBefore
<1>14. StagesAreSeeded'
  <2> SUFFICES ASSUME HasStatuses, NEW x \in Stages
               PROVE  Exists("status", x)' /\ IsStage(table'["status"][x], x)
    BY <1>8 DEF StagesAreSeeded
  <2>1. Exists("status", x) /\ IsStage(table["status"][x], x)
    BY DEF ConfigInv, StagesAreSeeded
  <2>2. CASE k # "status"
    BY <1>7, <2>1, <2>2, KindsAndKeys
  <2>3. CASE k = "status" /\ x # key
    <3>1. x \in DOMAIN table[k]
      BY <2>1, <2>3 DEF Exists
    <3>2. IsStage(kept[x], x)
      BY <1>5, <2>1, <2>3, <3>1 DEF IsStage
    <3> QED
      BY <1>7, <1>9, <2>1, <2>3, <3>2
  <2>4. CASE k = "status" /\ x = key
    <3>1. e.op = "update"
      BY <1>4, <2>1, <2>4
    <3>2. IsStage(row, x)
      BY <1>1, <1>2, <2>4, <3>1 DEF ConfigInv, EditsInv, EditOfStage
    <3> QED
      BY <1>5, <1>7, <1>9, <2>1, <2>4, <3>2
  <2> QED
    BY <2>2, <2>3, <2>4
<1>15. ASSUME ~editOvertaken' PROVE OneDone' /\ \A j \in Kinds : OneDefault(j)'
  <2>1. OneDone /\ (\A j \in Kinds : OneDefault(j)) /\ EditFinds(c, k, key)
    BY <1>11, <1>15 DEF ConfigInv, FreshConfig
  <2>2. /\ e.op = "update" => Exists(k, key)
        /\ k = "status" /\ e.op = "update" =>
              (row.isDone /\ row.isActive <=> \A x \in Keys \ {key} : ~DoneRow(x))
        /\ k = "status" /\ e.op = "insert" => (row.isDone <=> \A x \in Keys : ~DoneRow(x))
        /\ row.isDefault /\ ~e.takes => DefaultRow(k, key)
        /\ k = "label" => ~e.takes
        /\ e.phase = "begun" /\ e.takes => \A x \in Keys : DefaultRow(k, x) => x \in e.seen
        /\ e.phase = "unset" => \A x \in Keys : ~DefaultRow(k, x)
    <3>1. e.fresh /\ e.phase # "idle"
      BY <1>4, <1>11, <1>15
    <3> QED
      BY <1>1, <1>2, <1>4, <2>1, <3>1 DEF EditFinds
  <2>3. OneDone'
    <3> SUFFICES ASSUME HasStatuses, NEW x \in Keys PROVE DoneRow(x)' <=> x = "DONE"
      BY <1>8 DEF OneDone
    <3>1. \A y \in Keys : DoneRow(y) <=> y = "DONE"
      BY <2>1 DEF OneDone
    <3>2. CASE k # "status"
      BY <1>7, <3>1, <3>2
    <3>3. CASE k = "status" /\ x # key
      BY <1>5, <1>7, <3>1, <3>3 DEF DoneRow, Exists
    <3>4. CASE k = "status" /\ x = key
      <4>1. DoneRow(x)' <=> row.isDone /\ row.isActive
        BY <1>5, <1>7, <3>4
      <4>2. CASE e.op = "update"
        BY <2>2, <3>1, <3>4, <4>1, <4>2, KindsAndKeys
      <4>3. CASE e.op = "insert"
        <5>1. ~row.isDone
          BY <2>2, <3>1, <3>4, <4>3, KindsAndKeys
        <5>2. key # "DONE"
          BY <1>4, <3>1, <3>4, <4>3 DEF DoneRow
        <5> QED
          BY <3>4, <4>1, <5>1, <5>2
      <4> QED
        BY <1>4, <4>2, <4>3
    <3> QED
      BY <3>2, <3>3, <3>4
  <2>4. OneDefault(k)'
    <3> SUFFICES ASSUME NEW x \in Keys, NEW y \in Keys, DefaultRow(k, x)', DefaultRow(k, y)'
                 PROVE  x = y
      BY DEF OneDefault
    <3>1. ASSUME NEW z \in Keys, DefaultRow(k, z)', z # key
          PROVE  DefaultRow(k, z) /\ z \notin e.seen
      BY <1>5, <1>7, <3>1 DEF DefaultRow, Exists
    <3>2. DefaultRow(k, key)' <=> row.isDefault
      BY <1>5, <1>7
    <3>3. CASE e.takes
      <4>1. e.phase \in {"begun", "unset"}
        BY <1>4, <2>2, <3>3, KindsAndKeys
      <4>2. \A z \in Keys : DefaultRow(k, z)' => z = key
        BY <2>2, <3>1, <3>3, <4>1
      <4> QED
        BY <4>2
    <3>4. CASE ~e.takes
      <4>1. \A z \in Keys : DefaultRow(k, z)' => DefaultRow(k, z)
        BY <2>2, <3>1, <3>2, <3>4
      <4> QED
        BY <2>1, <4>1 DEF OneDefault
    <3> QED
      BY <1>3, <3>3, <3>4
  <2>5. ASSUME NEW j \in Kinds, j # k PROVE OneDefault(j)'
    BY <1>7, <2>1, <2>5 DEF OneDefault
  <2> QED
    BY <2>3, <2>4, <2>5
<1> QED
  BY <1>10, <1>12, <1>13, <1>14, <1>15 DEF ConfigInv, FreshConfig

LEMMA RowIsRemoved ==
    ASSUME ConfigInv, NEW c \in Editors, RemoveRow(c)
    PROVE  ConfigInv'
<1>1. PICK e \in Edit : e = edit[c]
  BY EditIsTyped
<1>2. PICK k \in Kinds, key \in Keys : k = e.kind /\ key = e.key
  BY <1>1 DEF Edit
<1> DEFINE kept == [x \in DOMAIN table[k] \ {key} |-> table[k][x]]
<1>3. /\ e.phase = "loaded" /\ e.op = "remove"
      /\ table' = [table EXCEPT ![k] = kept] /\ used' = [used EXCEPT ![k] = @ \ {key}]
      /\ FinishEdit(c) /\ WroteRow(c) /\ UNCHANGED <<seeding, creation>>
  BY <1>1, <1>2 DEF RemoveRow, created, ConfigInv, ConfigTypeOK
<1>4. /\ DOMAIN kept = DOMAIN table[k] \ {key}
      /\ \A x \in DOMAIN kept : kept[x] = table[k][x]
      /\ kept \in [DOMAIN kept -> Row] /\ DOMAIN kept \subseteq Keys
  BY TableTypes
<1> HIDE DEF kept
<1>5. /\ DOMAIN table' = Kinds /\ table'[k] = kept
      /\ \A j \in Kinds : /\ DOMAIN table'[j] \subseteq Keys
                          /\ table'[j] \in [DOMAIN table'[j] -> Row]
                          /\ j # k => table'[j] = table[j]
      /\ \A x : Exists(k, x)' <=> x \in DOMAIN kept
      /\ \A x : DefaultRow(k, x)' <=> x \in DOMAIN kept /\ kept[x].isDefault
      /\ \A j \in Kinds : \A x : j # k => /\ Exists(j, x)' <=> Exists(j, x)
                                          /\ DefaultRow(j, x)' <=> DefaultRow(j, x)
      /\ k = "status" => \A x : DoneRow(x)' <=>
                            x \in DOMAIN kept /\ kept[x].isDone /\ kept[x].isActive
      /\ k # "status" => \A x : DoneRow(x)' <=> DoneRow(x)
  BY <1>3, <1>4, TableIsWritten
<1>6. k = "status" => key \notin Stages
  BY <1>1, <1>2, <1>3 DEF ConfigInv, EditsInv, EditOfStage
<1>7. HasStatuses' <=> HasStatuses
  BY <1>3 DEF HasStatuses, ProjectExists
<1>8. \A x \in Stages : Exists("status", x) =>
          Exists("status", x)' /\ table'["status"][x] = table["status"][x]
  BY <1>4, <1>5, <1>6, KindsAndKeys DEF Exists
<1>9. /\ edit' \in [Editors -> Edit] /\ EditsInv'
      /\ \A d \in Editors, j \in Kinds, x \in Keys : EditFinds(d, j, x)'
  BY <1>3, <1>7, <1>8, EditIsFinished
<1>10. /\ editOvertaken' \in BOOLEAN /\ edits' = edits
       /\ ~editOvertaken' => ~editOvertaken
  BY <1>3, WroteWhenFresh
<1>11. ConfigTypeOK'
  <2>1. used' \in [Kinds -> SUBSET Keys]
    BY <1>3 DEF ConfigInv, ConfigTypeOK
  <2> QED
    BY <1>3, <1>5, <1>9, <1>10, <2>1 DEF ConfigInv, ConfigTypeOK
<1>12. NothingBefore'
  BY <1>1, <1>3, EditIsTyped DEF NothingBefore
<1>13. StagesAreSeeded'
  BY <1>7, <1>8 DEF ConfigInv, StagesAreSeeded
<1>14. ASSUME ~editOvertaken' PROVE OneDone' /\ \A j \in Kinds : OneDefault(j)'
  <2>1. OneDone /\ \A j \in Kinds : OneDefault(j)
    BY <1>10, <1>14 DEF ConfigInv, FreshConfig
  <2>2. ASSUME HasStatuses, NEW x \in Keys PROVE DoneRow(x)' <=> x = "DONE"
    <3>1. DoneRow(x) <=> x = "DONE"
      BY <2>1, <2>2 DEF OneDone
    <3>2. CASE k = "status"
      <4>1. key # "DONE"
        BY <1>6, <3>2, KindsAndKeys
      <4> QED
        BY <1>4, <1>5, <3>1, <3>2, <4>1 DEF DoneRow, Exists
    <3> QED
      BY <1>5, <3>1, <3>2
  <2>3. \A j \in Kinds, x \in Keys : DefaultRow(j, x)' => DefaultRow(j, x)
    BY <1>4, <1>5 DEF DefaultRow, Exists
  <2> QED
    BY <1>7, <2>1, <2>2, <2>3 DEF OneDone, OneDefault
<1> QED
  BY <1>9, <1>11, <1>12, <1>13, <1>14 DEF ConfigInv, FreshConfig

LEMMA DefaultsAreUnset ==
    ASSUME ConfigInv, NEW c \in Editors, Unset(c)
    PROVE  ConfigInv'
<1>1. PICK e \in Edit : e = edit[c]
  BY EditIsTyped
<1>2. PICK k \in Options : k = e.kind /\ k \in Kinds /\ k # "status" /\ k # "label"
  BY <1>1, KindsAndKeys DEF Unset
<1> DEFINE kept == Cleared(k, Defaults(k))
           own == [e EXCEPT !.phase = "unset"]
<1>3. /\ e.phase = "loaded" /\ e.takes
      /\ table' = [table EXCEPT ![k] = kept]
      /\ edit' = [d \in Editors |->
                     IF d = c THEN own
                     ELSE IF edit[d].phase = "idle" THEN IdleEdit
                     ELSE [edit[d] EXCEPT !.fresh = FALSE]]
      /\ WroteRow(c) /\ UNCHANGED <<used, seeding, creation>>
  BY <1>1, <1>2 DEF Unset, created
<1>4. /\ DOMAIN kept = DOMAIN table[k]
      /\ \A x \in DOMAIN kept : kept[x] \in Row /\ ~kept[x].isDefault
  BY <1>2, ClearedRows, TableTypes, DefaultRows DEF DefaultRow, Exists
<1>5. kept \in [DOMAIN kept -> Row] /\ DOMAIN kept \subseteq Keys
  <2>1. kept = [x \in DOMAIN kept |-> kept[x]]
    BY DEF Cleared
  <2>2. DOMAIN kept \subseteq Keys
    BY <1>2, <1>4, TableTypes
  <2> HIDE DEF kept
  <2> QED
    BY <1>4, <2>1, <2>2
<1>6. /\ own \in Edit /\ own.phase = "unset" /\ own.kind = k /\ own.op = e.op /\ own.key = e.key
      /\ own.row = e.row /\ own.takes
  BY <1>2, <1>3 DEF Edit, EditPhases
<1> HIDE DEF kept, own
<1>7. /\ DOMAIN table' = Kinds /\ table'[k] = kept
      /\ \A j \in Kinds : /\ DOMAIN table'[j] \subseteq Keys
                          /\ table'[j] \in [DOMAIN table'[j] -> Row]
                          /\ j # k => table'[j] = table[j]
      /\ \A x : Exists(k, x)' <=> x \in DOMAIN kept
      /\ \A x : DefaultRow(k, x)' <=> x \in DOMAIN kept /\ kept[x].isDefault
      /\ \A j \in Kinds : \A x : j # k => /\ Exists(j, x)' <=> Exists(j, x)
                                          /\ DefaultRow(j, x)' <=> DefaultRow(j, x)
      /\ \A x : DoneRow(x)' <=> DoneRow(x)
  <2>1. k \in Kinds /\ k # "status"
    BY <1>2
  <2>2. /\ table' = [table EXCEPT ![k] = kept]
        /\ kept \in [DOMAIN kept -> Row] /\ DOMAIN kept \subseteq Keys
    BY <1>3, <1>5
  <2>3. /\ DOMAIN table' = Kinds /\ table'[k] = kept
        /\ \A j \in Kinds : /\ DOMAIN table'[j] \subseteq Keys
                            /\ table'[j] \in [DOMAIN table'[j] -> Row]
                            /\ j # k => table'[j] = table[j]
        /\ \A x : Exists(k, x)' <=> x \in DOMAIN kept
        /\ \A x : DefaultRow(k, x)' <=> x \in DOMAIN kept /\ kept[x].isDefault
        /\ \A j \in Kinds : \A x : j # k => /\ Exists(j, x)' <=> Exists(j, x)
                                            /\ DefaultRow(j, x)' <=> DefaultRow(j, x)
        /\ k = "status" => \A x : DoneRow(x)' <=>
                              x \in DOMAIN kept /\ kept[x].isDone /\ kept[x].isActive
        /\ k # "status" => \A x : DoneRow(x)' <=> DoneRow(x)
    BY <2>1, <2>2, TableIsWritten
  <2> QED
    BY <2>1, <2>3
<1>8. HasStatuses' <=> HasStatuses
  BY <1>3 DEF HasStatuses, ProjectExists
<1>9. \A x : (Exists("status", x)' <=> Exists("status", x))
             /\ table'["status"] = table["status"]
  BY <1>2, <1>7, KindsAndKeys
<1>10. e.op # "project"
  BY <1>1, <1>2 DEF ConfigInv, EditsInv, EditOf
<1>11. /\ edit' \in [Editors -> Edit] /\ EditsInv' /\ edit'[c] = own
       /\ \A d \in Editors : d # c => \A j \in Kinds, x \in Keys : EditFinds(d, j, x)'
  <2>1. edit' = [d \in Editors |-> edit'[d]] /\ edit'[c] = own
    BY <1>3
  <2>2. EditOf(c)' /\ EditOfStage(c)'
    BY <1>2, <1>6, <1>10, <2>1 DEF EditOf, EditOfStage
  <2>3. \A d \in Editors : d # c =>
            edit'[d] = IdleEdit \/ edit'[d] = [edit[d] EXCEPT !.fresh = FALSE]
    BY <1>3
  <2> QED
    BY <1>6, <1>8, <1>9, <2>1, <2>2, <2>3, OthersAreStale
<1>12. /\ editOvertaken' \in BOOLEAN /\ edits' = edits
       /\ ~editOvertaken' => ~editOvertaken /\ e.fresh
  BY <1>1, <1>3, WroteWhenFresh
<1>13. ConfigTypeOK'
  BY <1>3, <1>7, <1>11, <1>12 DEF ConfigInv, ConfigTypeOK
<1>14. NothingBefore' /\ StagesAreSeeded'
  <2>1. creation # "none"
    BY <1>1, <1>3, EditIsTyped
  <2> QED
    BY <1>3, <1>8, <1>9, <2>1 DEF ConfigInv, NothingBefore, StagesAreSeeded
<1>15. ASSUME ~editOvertaken'
       PROVE  /\ OneDone' /\ \A j \in Kinds : OneDefault(j)'
              /\ \A j \in Kinds, x \in Keys : EditFinds(c, j, x)'
  <2>1. /\ OneDone /\ \A j \in Kinds : OneDefault(j)
        /\ \A j \in Kinds, x \in Keys : EditFinds(c, j, x)
    BY <1>12, <1>15 DEF ConfigInv, FreshConfig
  <2>2. \A x \in Keys : ~DefaultRow(k, x)'
    BY <1>4, <1>7
  <2>3. OneDone' /\ \A j \in Kinds : OneDefault(j)'
    BY <1>7, <1>8, <2>1, <2>2 DEF OneDone, OneDefault
  <2>4. ASSUME NEW j \in Kinds, NEW x \in Keys PROVE EditFinds(c, j, x)'
    <3> SUFFICES ASSUME j = k, x = e.key PROVE EditFinds(c, j, x)'
      BY <1>6, <1>11 DEF EditFinds
    <3>1. EditFinds(c, k, x) /\ e.fresh
      BY <1>12, <1>15, <2>1
    <3>2. e.op = "update" => Exists(k, x)
      BY <1>1, <1>2, <1>3, <3>1 DEF EditFinds
    <3>3. e.op = "update" => Exists(k, x)'
      BY <1>4, <1>7, <3>2 DEF Exists
    <3> QED
      BY <1>2, <1>6, <1>10, <1>11, <2>2, <3>3 DEF EditFinds
  <2> QED
    BY <2>3, <2>4
<1> QED
  BY <1>11, <1>13, <1>14, <1>15 DEF ConfigInv, FreshConfig

\* A transaction begins, and finds the rows that are the default.
LEMMA StatusBegins ==
    ASSUME ConfigInv, NEW c \in Editors, BeginStatus(c)
    PROVE  ConfigInv'
<1>1. PICK e \in Edit : e = edit[c]
  BY EditIsTyped
<1>2. PICK seen \in SUBSET Keys : seen = IF e.takes THEN Defaults("status") ELSE {}
  BY DefaultRows, KindsAndKeys
<1> DEFINE own == [e EXCEPT !.phase = "begun", !.seen = seen]
<1>3. /\ e.phase = "loaded" /\ e.kind = "status" /\ e.op \in {"insert", "update"}
      /\ edit' = [edit EXCEPT ![c] = own]
      /\ UNCHANGED <<table, used, seeding, creation, editOvertaken, edits>>
  BY <1>1, <1>2 DEF BeginStatus, config, created, ConfigInv, ConfigTypeOK
<1>4. /\ own \in Edit /\ own.phase = "begun" /\ own.kind = e.kind /\ own.op = e.op
      /\ own.key = e.key /\ own.row = e.row /\ own.takes = e.takes /\ own.fresh = e.fresh
      /\ own.seen = seen
  BY DEF Edit, EditPhases
<1> HIDE DEF own
<1>5. /\ edit' \in [Editors -> Edit] /\ edit'[c] = own
      /\ \A d \in Editors : d # c => edit'[d] = edit[d]
  BY <1>3, <1>4 DEF ConfigInv, ConfigTypeOK
<1>6. ConfigTypeOK'
  BY <1>3, <1>5 DEF ConfigInv, ConfigTypeOK
<1>7. NothingBefore' /\ StagesAreSeeded'
  <2>1. creation # "none"
    BY <1>1, <1>3, EditIsTyped
  <2> QED
    BY <1>3, <2>1 DEF ConfigInv, NothingBefore, StagesAreSeeded, HasStatuses, ProjectExists, Exists
<1>8. ASSUME NEW d \in Editors PROVE EditOf(d)' /\ EditOfStage(d)'
  <2>1. EditOf(d) /\ EditOfStage(d)
    BY DEF ConfigInv, EditsInv
  <2>2. CASE d = c
    BY <1>1, <1>3, <1>4, <1>5, <2>1, <2>2
       DEF EditOf, EditOfStage, HasStatuses, ProjectExists, Exists
  <2>3. CASE d # c
    BY <1>3, <1>5, <2>1, <2>3 DEF EditOf, EditOfStage, HasStatuses, ProjectExists, Exists
  <2> QED
    BY <2>2, <2>3
<1>9. ASSUME ~editOvertaken'
      PROVE  /\ OneDone' /\ \A j \in Kinds : OneDefault(j)'
             /\ \A d \in Editors, j \in Kinds, x \in Keys : EditFinds(d, j, x)'
  <2>1. /\ OneDone /\ \A j \in Kinds : OneDefault(j)
        /\ \A d \in Editors, j \in Kinds, x \in Keys : EditFinds(d, j, x)
    BY <1>3, <1>9 DEF ConfigInv, FreshConfig
  <2>2. /\ \A x : DoneRow(x)' <=> DoneRow(x)
        /\ \A j, x : (DefaultRow(j, x)' <=> DefaultRow(j, x)) /\ (Exists(j, x)' <=> Exists(j, x))
    BY <1>3 DEF DoneRow, DefaultRow, Exists
  <2>3. OneDone' /\ \A j \in Kinds : OneDefault(j)'
    BY <1>3, <2>1, <2>2 DEF OneDone, OneDefault, HasStatuses, ProjectExists
  <2>4. e.takes => \A x \in Keys : DefaultRow("status", x) => x \in seen
    BY <1>2, DefaultRows, KindsAndKeys
  <2>5. ASSUME NEW d \in Editors, NEW j \in Kinds, NEW x \in Keys PROVE EditFinds(d, j, x)'
    <3>1. EditFinds(d, j, x)
      BY <2>1
    <3>2. CASE d = c
      <4> SUFFICES ASSUME j = "status", x = e.key, e.fresh PROVE EditFinds(d, j, x)'
        BY <1>3, <1>4, <1>5, <3>2 DEF EditFinds
      <4>1. /\ e.op = "update" => Exists(j, x)
            /\ e.op = "update" =>
                  (e.row.isDone /\ e.row.isActive <=> \A y \in Keys \ {x} : ~DoneRow(y))
            /\ e.op = "insert" => (e.row.isDone <=> \A y \in Keys : ~DoneRow(y))
            /\ e.row.isDefault /\ ~e.takes => DefaultRow(j, x)
        BY <1>1, <1>3, <3>1, <3>2 DEF EditFinds
      <4> QED
        BY <1>3, <1>4, <1>5, <2>2, <2>4, <3>2, <4>1 DEF EditFinds
    <3>3. CASE d # c
      BY <1>3, <1>5, <2>2, <3>1, <3>3 DEF EditFinds
    <3> QED
      BY <3>2, <3>3
  <2> QED
    BY <2>3, <2>5
<1> QED
  BY <1>6, <1>7, <1>8, <1>9 DEF ConfigInv, EditsInv, FreshConfig

\* A request ends early; the creation of a project is then not completed.
LEMMA EditIsAborted ==
    ASSUME ConfigInv, NEW c \in Editors, AbortEdit(c)
    PROVE  ConfigInv'
<1>1. /\ edit' = [edit EXCEPT ![c] = IdleEdit]
      /\ UNCHANGED <<table, used, seeding, editOvertaken, edits>>
      /\ creation # "none" /\ creation' \in {creation, "failed"}
  BY EditIsTyped DEF AbortEdit, config
<1>2. /\ edit' \in [Editors -> Edit] /\ edit'[c] = IdleEdit
      /\ \A d \in Editors : d # c => edit'[d] = edit[d]
  BY <1>1, RowShape DEF ConfigInv, ConfigTypeOK
<1>3. ConfigTypeOK'
  BY <1>1, <1>2 DEF ConfigInv, ConfigTypeOK
<1>4. (HasStatuses' <=> HasStatuses) /\ creation' # "none"
  BY <1>1 DEF HasStatuses, ProjectExists
<1>5. NothingBefore' /\ StagesAreSeeded'
  BY <1>1, <1>4 DEF ConfigInv, NothingBefore, StagesAreSeeded, Exists
<1>6. ASSUME NEW d \in Editors PROVE EditOf(d)' /\ EditOfStage(d)'
  <2>1. EditOf(d) /\ EditOfStage(d)
    BY DEF ConfigInv, EditsInv
  <2>2. CASE d = c
    BY <1>2, <2>2, RowShape DEF EditOf, EditOfStage
  <2>3. CASE d # c
    BY <1>1, <1>2, <1>4, <2>1, <2>3 DEF EditOf, EditOfStage, Exists
  <2> QED
    BY <2>2, <2>3
<1>7. ASSUME ~editOvertaken'
      PROVE  /\ OneDone' /\ \A j \in Kinds : OneDefault(j)'
             /\ \A d \in Editors, j \in Kinds, x \in Keys : EditFinds(d, j, x)'
  <2>1. /\ OneDone /\ \A j \in Kinds : OneDefault(j)
        /\ \A d \in Editors, j \in Kinds, x \in Keys : EditFinds(d, j, x)
    BY <1>1, <1>7 DEF ConfigInv, FreshConfig
  <2>2. /\ \A x : DoneRow(x)' <=> DoneRow(x)
        /\ \A j, x : (DefaultRow(j, x)' <=> DefaultRow(j, x)) /\ (Exists(j, x)' <=> Exists(j, x))
    BY <1>1 DEF DoneRow, DefaultRow, Exists
  <2>3. OneDone' /\ \A j \in Kinds : OneDefault(j)'
    BY <1>4, <2>1, <2>2 DEF OneDone, OneDefault
  <2>4. ASSUME NEW d \in Editors, NEW j \in Kinds, NEW x \in Keys PROVE EditFinds(d, j, x)'
    <3>1. CASE d = c
      BY <1>2, <3>1, RowShape DEF EditFinds
    <3>2. CASE d # c
      <4>1. edit'[d] = edit[d] /\ EditFinds(d, j, x)
        BY <1>2, <2>1, <3>2
      <4> QED
        BY <1>1, <2>2, <4>1 DEF EditFinds
    <3> QED
      BY <3>1, <3>2
  <2> QED
    BY <2>3, <2>4
<1> QED
  BY <1>3, <1>5, <1>6, <1>7 DEF ConfigInv, EditsInv, FreshConfig

\* Tasks come to refer to rows.
LEMMA TasksRefer ==
    ASSUME ConfigInv, \/ \E k \in Seeded, key \in Keys : CreateTask(k, key)
                      \/ \E c \in Editors : SeedTasks(c)
    PROVE  ConfigInv'
<1>1. /\ table' = table /\ seeding' = seeding /\ edits' = edits
      /\ used' \in [Kinds -> SUBSET Keys]
      /\ \/ UNCHANGED <<creation, edit, editOvertaken>>
         \/ /\ creation = "created" /\ creation' = "complete"
            /\ \E c \in Editors : FinishEdit(c) /\ WroteRow(c)
  <2>1. used \in [Kinds -> SUBSET Keys]
    BY DEF ConfigInv, ConfigTypeOK
  <2>2. CASE \E k \in Seeded, key \in Keys : CreateTask(k, key)
    BY <2>1, <2>2, KindsAndKeys DEF CreateTask, created
  <2>3. ASSUME NEW c \in Editors, SeedTasks(c)
        PROVE  /\ UNCHANGED <<table, seeding, edits>> /\ used' \in [Kinds -> SUBSET Keys]
               /\ creation = "created" /\ creation' = "complete"
               /\ FinishEdit(c) /\ WroteRow(c)
    <3>1. \/ used' = used
          \/ \E k \in Kinds, key \in Keys : used' = [used EXCEPT ![k] = @ \cup {key}]
      BY <2>3, DefaultRows, KindsAndKeys DEF SeedTasks, Options, Seeded, Kinds
    <3>2. used' \in [Kinds -> SUBSET Keys]
      BY <2>1, <3>1
    <3> QED
      BY <2>3, <3>2 DEF SeedTasks, Creating, WroteRow
  <2> QED
    BY <2>2, <2>3
<1>2. \A x : Exists("status", x)' <=> Exists("status", x)
  BY <1>1 DEF Exists
<1>3. HasStatuses' <=> HasStatuses
  BY <1>1 DEF HasStatuses, ProjectExists
<1>4. /\ edit' \in [Editors -> Edit] /\ EditsInv' /\ editOvertaken' \in BOOLEAN
      /\ ~editOvertaken' =>
            /\ ~editOvertaken
            /\ \A d \in Editors, k \in Kinds, key \in Keys : EditFinds(d, k, key)'
  <2>1. CASE UNCHANGED <<creation, edit, editOvertaken>>
    <3>1. EditsInv' /\ edit' \in [Editors -> Edit] /\ editOvertaken' \in BOOLEAN
      BY <1>1, <1>2, <1>3, <2>1 DEF ConfigInv, EditsInv, EditOf, EditOfStage, ConfigTypeOK
    <3>2. ASSUME ~editOvertaken', NEW d \in Editors, NEW k \in Kinds, NEW key \in Keys
          PROVE  EditFinds(d, k, key)'
      <4>1. EditFinds(d, k, key)
        BY <2>1, <3>2 DEF ConfigInv, FreshConfig
      <4> QED
        BY <1>1, <2>1, <4>1 DEF EditFinds, Exists, DoneRow, DefaultRow
    <3> QED
      BY <2>1, <3>1, <3>2
  <2>2. ASSUME NEW c \in Editors, FinishEdit(c), WroteRow(c)
        PROVE  /\ edit' \in [Editors -> Edit] /\ EditsInv' /\ editOvertaken' \in BOOLEAN
               /\ ~editOvertaken' => ~editOvertaken
               /\ \A d \in Editors, k \in Kinds, key \in Keys : EditFinds(d, k, key)'
    BY <1>2, <1>3, <2>2, EditIsFinished, WroteWhenFresh
  <2> QED
    BY <1>1, <2>1, <2>2
<1>5. ConfigTypeOK'
  BY <1>1, <1>4 DEF ConfigInv, ConfigTypeOK
<1>6. NothingBefore' /\ StagesAreSeeded'
  BY <1>1, <1>2, <1>3 DEF ConfigInv, NothingBefore, StagesAreSeeded
<1>7. ~editOvertaken' => OneDone' /\ \A k \in Kinds : OneDefault(k)'
  BY <1>1, <1>3, <1>4
     DEF ConfigInv, FreshConfig, OneDone, OneDefault, DoneRow, DefaultRow, Exists
<1> QED
  BY <1>4, <1>5, <1>6, <1>7 DEF ConfigInv, FreshConfig

\* The rows of a kind are seeded, if none of their keys is taken.
LEMMA KindIsSeeded ==
    ASSUME ConfigInv, NEW c \in Editors, NEW k \in Seeded, SeedKind(c, k)
    PROVE  ConfigInv'
<1>1. PICK e \in Edit : e = edit[c]
  BY EditIsTyped
<1> DEFINE kept == [key \in DOMAIN table[k] \cup Seeds(k) |->
                       IF key \in Seeds(k) THEN Seed(k, key) ELSE table[k][key]]
<1>2. /\ e.phase = "loaded" /\ e.op = "project" /\ creation = "created" /\ k \in seeding
      /\ DOMAIN table[k] \cap Seeds(k) = {}
      /\ table' = [table EXCEPT ![k] = kept] /\ seeding' = seeding \ {k}
      /\ edit' = [d \in Editors |-> IF d = c \/ edit[d].phase = "idle" THEN edit[d]
                                    ELSE [edit[d] EXCEPT !.fresh = FALSE]]
      /\ WroteRow(c) /\ UNCHANGED <<used, creation>>
  BY <1>1, KindsAndKeys DEF SeedKind, Creating, ConfigInv, ConfigTypeOK
<1>3. k \in Kinds /\ k # "label" /\ e.kind = "label"
  BY <1>1, <1>2, KindsAndKeys DEF ConfigInv, EditsInv, EditOf
<1>4. /\ DOMAIN kept = DOMAIN table[k] \cup Seeds(k)
      /\ \A x \in Seeds(k) : kept[x] = Seed(k, x)
      /\ \A x \in DOMAIN table[k] : kept[x] = table[k][x]
  BY <1>2
<1>5. kept \in [DOMAIN kept -> Row] /\ DOMAIN kept \subseteq Keys
  <2>1. \A x \in DOMAIN kept : kept[x] \in Row
    BY <1>3, <1>4, RowShape, TableTypes
  <2>2. DOMAIN kept \subseteq Keys
    BY <1>3, <1>4, KindsAndKeys, TableTypes
  <2>3. kept = [x \in DOMAIN kept |-> kept[x]]
    OBVIOUS
  <2> HIDE DEF kept
  <2> QED
    BY <2>1, <2>2, <2>3
<1> HIDE DEF kept
<1>6. /\ DOMAIN table' = Kinds /\ table'[k] = kept
      /\ \A j \in Kinds : /\ DOMAIN table'[j] \subseteq Keys
                          /\ table'[j] \in [DOMAIN table'[j] -> Row]
                          /\ j # k => table'[j] = table[j]
      /\ \A x : Exists(k, x)' <=> x \in DOMAIN kept
      /\ \A x : DefaultRow(k, x)' <=> x \in DOMAIN kept /\ kept[x].isDefault
      /\ \A j \in Kinds : \A x : j # k => /\ Exists(j, x)' <=> Exists(j, x)
                                          /\ DefaultRow(j, x)' <=> DefaultRow(j, x)
      /\ k = "status" => \A x : DoneRow(x)' <=>
                            x \in DOMAIN kept /\ kept[x].isDone /\ kept[x].isActive
      /\ k # "status" => \A x : DoneRow(x)' <=> DoneRow(x)
  BY <1>2, <1>3, <1>5, TableIsWritten
<1>7. /\ HasStatuses' => HasStatuses \/ k = "status"
      /\ k = "status" => ~HasStatuses /\ \A key \in Stages : ~Exists("status", key)
  BY <1>2, KindsAndKeys DEF HasStatuses, ProjectExists, Exists
<1>8. \A x : Exists("status", x) => Exists("status", x)'
  BY <1>4, <1>6, KindsAndKeys DEF Exists
<1>9. /\ edit' \in [Editors -> Edit] /\ EditsInv' /\ edit'[c] = e
      /\ \A d \in Editors : d # c => \A j \in Kinds, x \in Keys : EditFinds(d, j, x)'
  <2>1. edit' = [d \in Editors |-> edit'[d]] /\ edit'[c] = e
    BY <1>1, <1>2
  <2>2. EditOf(c)' /\ EditOfStage(c)'
    BY <1>2, <1>3, <2>1 DEF EditOf, EditOfStage
  <2>3. \A d \in Editors : d # c =>
           \/ edit'[d] = edit[d] /\ edit[d].phase = "idle"
           \/ edit'[d] = [edit[d] EXCEPT !.fresh = FALSE]
    BY <1>2
  <2>4. HasStatuses' => HasStatuses \/ \A key \in Stages : ~Exists("status", key)
    BY <1>7
  <2> QED
    BY <1>8, <2>1, <2>2, <2>3, <2>4, OthersAreStale
<1>10. /\ editOvertaken' \in BOOLEAN /\ edits' = edits
       /\ ~editOvertaken' => ~editOvertaken /\ e.fresh
  BY <1>1, <1>2, WroteWhenFresh
<1>11. ConfigTypeOK'
  BY <1>2, <1>6, <1>9, <1>10 DEF ConfigInv, ConfigTypeOK
<1>12. NothingBefore'
  BY <1>2 DEF NothingBefore
<1>13. StagesAreSeeded'
  <2> SUFFICES ASSUME HasStatuses', NEW x \in Stages
               PROVE  Exists("status", x)' /\ IsStage(table'["status"][x], x)
    BY DEF StagesAreSeeded
  <2>1. CASE k = "status"
    <3>1. x \in Seeds("status")
      BY KindsAndKeys
    <3>2. kept[x] = Seed("status", x)
      BY <1>4, <2>1, <3>1
    <3> QED
      BY <1>4, <1>6, <2>1, <3>1, <3>2 DEF IsStage
  <2>2. CASE k # "status"
    <3>1. Exists("status", x) /\ IsStage(table["status"][x], x)
      BY <1>7, <2>2 DEF ConfigInv, StagesAreSeeded
    <3> QED
      BY <1>6, <2>2, <3>1, KindsAndKeys
  <2> QED
    BY <2>1, <2>2
<1>14. ASSUME ~editOvertaken'
       PROVE  /\ OneDone' /\ \A j \in Kinds : OneDefault(j)'
              /\ \A j \in Kinds, x \in Keys : EditFinds(c, j, x)'
  <2>1. /\ OneDone /\ \A j \in Kinds : OneDefault(j)
        /\ \A j \in Kinds, x \in Keys : EditFinds(c, j, x)
    BY <1>10, <1>14 DEF ConfigInv, FreshConfig
  <2>2. ~e.takes /\ \A j \in seeding : DOMAIN table[j] = {}
    <3>1. e.key \in Keys /\ e.fresh /\ "label" \in Kinds
      BY <1>10, <1>14, KindsAndKeys DEF Edit
    <3> QED
      BY <1>1, <1>2, <1>3, <2>1, <3>1 DEF EditFinds
  <2>3. DOMAIN kept = Seeds(k)
    BY <1>2, <1>4, <2>2
  <2>4. OneDone'
    <3> SUFFICES ASSUME HasStatuses', NEW x \in Keys PROVE DoneRow(x)' <=> x = "DONE"
      BY DEF OneDone
    <3>1. CASE k = "status"
      BY <1>4, <1>6, <2>3, <3>1, SeededStatuses, KindsAndKeys
    <3>2. CASE k # "status"
      BY <1>6, <1>7, <2>1, <3>2 DEF OneDone
    <3> QED
      BY <3>1, <3>2
  <2>5. OneDefault(k)'
    <3>1. CASE k = "status"
      <4>1. \A x : DefaultRow(k, x)' => x = "TODO"
        BY <1>4, <1>6, <2>3, <3>1, SeededStatuses
      <4> QED
        BY <4>1 DEF OneDefault
    <3>2. CASE k \in Options
      <4>1. \A x : DefaultRow(k, x)' => x = "default"
        BY <1>6, <2>3, <3>2, KindsAndKeys
      <4> QED
        BY <4>1 DEF OneDefault
    <3> QED
      BY <3>1, <3>2, KindsAndKeys
  <2>6. ASSUME NEW j \in Kinds, j # k PROVE OneDefault(j)'
    BY <1>6, <2>1, <2>6 DEF OneDefault
  <2>7. \A j \in seeding' : DOMAIN table'[j] = {}
    <3>1. \A j \in seeding : j \in Kinds
      BY KindsAndKeys DEF ConfigInv, ConfigTypeOK
    <3> QED
      BY <1>2, <1>6, <2>2, <3>1
  <2>8. \A j \in Kinds, x \in Keys : EditFinds(c, j, x)'
    BY <1>2, <1>3, <1>9, <2>2, <2>7 DEF EditFinds
  <2> QED
    BY <2>4, <2>5, <2>6, <2>8
<1> QED
  BY <1>9, <1>11, <1>12, <1>13, <1>14 DEF ConfigInv, FreshConfig

LEMMA ConfigInvariance == ConfigSpec => []ConfigInv
<1>1. ConfigInv /\ [ConfigNext]_configVars => ConfigInv'
  <2> SUFFICES ASSUME ConfigInv, [ConfigNext]_configVars PROVE ConfigInv'
    OBVIOUS
  <2>1. CASE UNCHANGED configVars
    <3>1. UNCHANGED <<table, used, seeding, creation, edit, editOvertaken, edits>>
      BY <2>1 DEF configVars, config, created
    <3>2. ConfigTypeOK' /\ NothingBefore' /\ StagesAreSeeded' /\ EditsInv'
      BY <3>1 DEF ConfigInv, ConfigTypeOK, NothingBefore, StagesAreSeeded, EditsInv, EditOf,
                  EditOfStage, HasStatuses, ProjectExists, Exists
    <3>3. FreshConfig'
      BY <3>1 DEF ConfigInv, FreshConfig, OneDone, OneDefault, EditFinds, DoneRow, DefaultRow,
                  HasStatuses, ProjectExists, Exists
    <3> QED
      BY <3>2, <3>3 DEF ConfigInv
  <2>2. CASE \E k \in Seeded, key \in Keys : CreateTask(k, key)
    BY <2>2, TasksRefer
  <2>3. ASSUME NEW c \in Editors, EditRequest(c) PROVE ConfigInv'
    BY <2>3, EditIsRequested
  <2>4. ASSUME NEW c \in Editors, EditWrite(c) PROVE ConfigInv'
    <3>1. CASE BeginStatus(c) \/ Unset(c)
      BY <3>1, StatusBegins, DefaultsAreUnset
    <3>2. CASE SaveRow(c) \/ RemoveRow(c) \/ AbortEdit(c)
      BY <3>2, RowIsSaved, RowIsRemoved, EditIsAborted
    <3>3. CASE (\E k \in Seeded : SeedKind(c, k)) \/ SeedTasks(c)
      BY <3>3, KindIsSeeded, TasksRefer
    <3> QED
      BY <2>4, <3>1, <3>2, <3>3 DEF EditWrite
  <2> QED
    BY <2>1, <2>2, <2>3, <2>4 DEF ConfigNext
<1> QED
  BY <1>1, ConfigStarts, PTL DEF ConfigSpec

\* A project keeps its canonical statuses, whatever is updated, deleted or saved late; and,
\* as long as no request was overtaken, one active status means done and no kind of row has
\* two defaults.
THEOREM ConfigurationIsAlwaysSound == ConfigSpec => []ConfigurationIsSound
<1>1. ConfigInv => ConfigurationIsSound
  <2> SUFFICES ASSUME ConfigInv PROVE ConfigurationIsSound
    OBVIOUS
  <2>1. CanonicalStatusesAreKept
    <3> SUFFICES ASSUME HasStatuses, NEW key \in Stages
                 PROVE  /\ Exists("status", key)
                        /\ [table["status"][key] EXCEPT !.isDefault = FALSE]
                               = [Seed("status", key) EXCEPT !.isDefault = FALSE]
      BY DEF CanonicalStatusesAreKept, HasStatuses
    <3>1. Exists("status", key) /\ IsStage(table["status"][key], key)
      BY DEF ConfigInv, StagesAreSeeded
    <3>2. PICK row \in Row : row = table["status"][key]
      BY <3>1, TableTypes, KindsAndKeys
    <3>3. PICK seed \in Row : seed = Seed("status", key)
      BY RowShape, KindsAndKeys
    <3>4. [row EXCEPT !.isDefault = FALSE] = [seed EXCEPT !.isDefault = FALSE]
      BY <3>1, <3>2, <3>3 DEF IsStage, Row
    <3> QED
      BY <3>1, <3>2, <3>3, <3>4
  <2>2. ASSUME ~editOvertaken, HasStatuses PROVE ActiveDone(table["status"]) = {"DONE"}
    BY <2>2, DoneRows, KindsAndKeys DEF ConfigInv, FreshConfig, OneDone
  <2>3. ASSUME ~editOvertaken, NEW k \in Kinds PROVE Cardinality(Defaults(k)) <= 1
    <3>1. \A x, y \in Defaults(k) : x = y
      BY <2>3, DefaultRows DEF ConfigInv, FreshConfig, OneDefault
    <3>2. CASE Defaults(k) = {}
      BY <3>2, FS_EmptySet
    <3>3. CASE \E x : x \in Defaults(k)
      <4>1. PICK x : Defaults(k) = {x}
        BY <3>1, <3>3
      <4>2. Cardinality({x}) = 1
        BY FS_Singleton
      <4> QED
        BY <4>1, <4>2
    <3> QED
      BY <3>2, <3>3
  <2> QED
    BY <2>1, <2>2, <2>3 DEF ConfigurationIsSound, OneOfEachIfFresh, HasStatuses
<1> QED
  BY <1>1, ConfigInvariance, PTL
-----------------------------------------------------------------------------
(***************************************************************************)
(* Sessions.                                                               *)
(*                                                                         *)
(* What a request has yet to do is one of few lists.  As long as nothing   *)
(* was disturbed, a request that will issue a session found its login not  *)
(* ended, and no session of that login goes on but the one it revokes.     *)
(***************************************************************************)
Signs == <<"save", "load", "issue">>
Refreshes == <<"revoke", "load", "issue">>
LoadsThenIssues == <<"load", "issue">>
Issue == <<"issue">>
AsksForOTP == <<"save", "otp">>
OTP == <<"otp">>
SavesThenRevokesAll == <<"save", "revokeAll">>
RevokesAllThenSaves == <<"revokeAll", "save">>
RevokesAll == <<"revokeAll">>
SavesUser == <<"save">>
RevokesOne == <<"revoke">>

Issues == {Signs, Refreshes, LoadsThenIssues, Issue}
Revokes == {Refreshes, RevokesOne}
Ends == {SavesThenRevokesAll, RevokesAllThenSaves, RevokesAll, SavesUser}
Plans == {<<>>, AsksForOTP, OTP} \cup Issues \cup Revokes \cup Ends

Planned == [todo : Plans, row : User, session : Nat, login : Nat, ends : BOOLEAN, fresh : BOOLEAN]

HandlerTypes ==
    /\ handler \in [Requests -> Planned]
    /\ \A c \in Requests :
          LET k == handler[c] IN
          /\ k.login <= served
          /\ k.todo \in Revokes => k.session \in DOMAIN sessions
          /\ k.ends => k.todo \in Ends

LoginTypes ==
    /\ sessions \in Seq(Session) /\ Len(sessions) <= MaxSessions
    /\ user \in User /\ served \in 0 .. MaxServed /\ endedAt \in 0 .. served /\ disturbed \in BOOLEAN
    /\ \A i \in DOMAIN sessions : sessions[i].login <= served

Expects(c) ==
    LET k == handler[c] IN
    /\ k.ends /\ k.todo = SavesUser => \A i \in DOMAIN sessions : sessions[i].revoked
    /\ k.todo \in Issues =>
          /\ endedAt < k.login
          /\ \A i \in DOMAIN sessions : ~sessions[i].revoked /\ sessions[i].login = k.login =>
                k.todo = Refreshes /\ i = k.session

SessionsInv ==
    /\ HandlerTypes /\ LoginTypes /\ SessionsEndIfFresh
    /\ ~disturbed => \A c \in Requests : handler[c].fresh => Expects(c)

(***************************************************************************)
(* The lists of writes, and what is left of each after its first.          *)
(***************************************************************************)
LEMMA PlanShapes ==
    /\ Head(Signs) = "save" /\ Len(Signs) = 3 /\ Tail(Signs) = LoadsThenIssues
    /\ Head(Refreshes) = "revoke" /\ Len(Refreshes) = 3 /\ Tail(Refreshes) = LoadsThenIssues
    /\ Head(LoadsThenIssues) = "load" /\ Len(LoadsThenIssues) = 2 /\ Tail(LoadsThenIssues) = Issue
    /\ Head(Issue) = "issue" /\ Len(Issue) = 1
    /\ Head(AsksForOTP) = "save" /\ Len(AsksForOTP) = 2 /\ Tail(AsksForOTP) = OTP
    /\ Head(OTP) = "otp" /\ Len(OTP) = 1
    /\ Head(SavesThenRevokesAll) = "save" /\ Len(SavesThenRevokesAll) = 2
    /\ Tail(SavesThenRevokesAll) = RevokesAll
    /\ Head(RevokesAllThenSaves) = "revokeAll" /\ Len(RevokesAllThenSaves) = 2
    /\ Tail(RevokesAllThenSaves) = SavesUser
    /\ Head(RevokesAll) = "revokeAll" /\ Len(RevokesAll) = 1
    /\ Head(SavesUser) = "save" /\ Len(SavesUser) = 1
    /\ Head(RevokesOne) = "revoke" /\ Len(RevokesOne) = 1
<1>1. Head(Signs) = "save" /\ Len(Signs) = 3 /\ Tail(Signs) = LoadsThenIssues
  BY DEF Signs, LoadsThenIssues
<1>2. Head(Refreshes) = "revoke" /\ Len(Refreshes) = 3 /\ Tail(Refreshes) = LoadsThenIssues
  BY DEF Refreshes, LoadsThenIssues
<1>3. Head(LoadsThenIssues) = "load" /\ Len(LoadsThenIssues) = 2 /\ Tail(LoadsThenIssues) = Issue
  BY DEF LoadsThenIssues, Issue
<1>4. Head(Issue) = "issue" /\ Len(Issue) = 1
  BY DEF Issue
<1>5. Head(AsksForOTP) = "save" /\ Len(AsksForOTP) = 2 /\ Tail(AsksForOTP) = OTP
  BY DEF AsksForOTP, OTP
<1>6. Head(OTP) = "otp" /\ Len(OTP) = 1
  BY DEF OTP
<1>7. /\ Head(SavesThenRevokesAll) = "save" /\ Len(SavesThenRevokesAll) = 2
      /\ Tail(SavesThenRevokesAll) = RevokesAll
  BY DEF SavesThenRevokesAll, RevokesAll
<1>8. /\ Head(RevokesAllThenSaves) = "revokeAll" /\ Len(RevokesAllThenSaves) = 2
      /\ Tail(RevokesAllThenSaves) = SavesUser
  BY DEF RevokesAllThenSaves, SavesUser
<1>9. Head(RevokesAll) = "revokeAll" /\ Len(RevokesAll) = 1
  BY DEF RevokesAll
<1>10. Head(SavesUser) = "save" /\ Len(SavesUser) = 1
  BY DEF SavesUser
<1>11. Head(RevokesOne) = "revoke" /\ Len(RevokesOne) = 1
  BY DEF RevokesOne
<1> QED
  BY <1>1, <1>2, <1>3, <1>4, <1>5, <1>6, <1>7, <1>8, <1>9, <1>10, <1>11

LEMMA PlansAreDifferent ==
    /\ <<>> \notin Issues \cup Revokes \cup Ends
    /\ Ends \cap (Issues \cup Revokes) = {}
    /\ AsksForOTP \notin Issues \cup Revokes /\ OTP \notin Issues \cup Revokes
    /\ RevokesOne \notin Issues /\ Signs \notin Revokes
    /\ LoadsThenIssues \notin Revokes /\ Issue \notin Revokes
    /\ Signs # Refreshes /\ LoadsThenIssues # Refreshes /\ Issue # Refreshes
    /\ SavesThenRevokesAll # SavesUser /\ RevokesAllThenSaves # SavesUser
    /\ RevokesAll # SavesUser
<1>1. Len(<<>>) = 0
  OBVIOUS
<1>2. \A p \in Issues \cup Revokes :
         /\ Head(p) \in {"save", "revoke", "load", "issue"} /\ Len(p) # 0
         /\ Head(p) = "save" => Len(p) = 3
  BY PlanShapes DEF Issues, Revokes
<1>3. \A p \in Ends : Head(p) \in {"save", "revokeAll"} /\ Len(p) \in {1, 2}
  BY PlanShapes DEF Ends
<1>4. \A p \in Issues : Head(p) = "revoke" => Len(p) = 3
  BY PlanShapes DEF Issues
<1>5. \A p \in Revokes : Head(p) = "revoke"
  BY PlanShapes DEF Revokes
<1>6. /\ <<>> \notin Issues \cup Revokes \cup Ends
      /\ Ends \cap (Issues \cup Revokes) = {}
  BY <1>1, <1>2, <1>3
<1>7. AsksForOTP \notin Issues \cup Revokes /\ OTP \notin Issues \cup Revokes
  BY <1>2, PlanShapes
<1>8. /\ RevokesOne \notin Issues /\ Signs \notin Revokes
      /\ LoadsThenIssues \notin Revokes /\ Issue \notin Revokes
  BY <1>4, <1>5, PlanShapes
<1>9. Signs # Refreshes /\ LoadsThenIssues # Refreshes /\ Issue # Refreshes
  <2>1. Refreshes \in Revokes
    BY DEF Revokes
  <2> QED
    BY <1>8, <2>1
<1>10. /\ SavesThenRevokesAll # SavesUser /\ RevokesAllThenSaves # SavesUser
       /\ RevokesAll # SavesUser
  <2>1. Head(RevokesAll) = "revokeAll" /\ Head(SavesUser) = "save"
    BY PlanShapes
  <2>2. Len(SavesThenRevokesAll) = 2 /\ Len(RevokesAllThenSaves) = 2 /\ Len(SavesUser) = 1
    BY PlanShapes
  <2> QED
    BY <2>1, <2>2
<1> QED
  BY <1>6, <1>7, <1>8, <1>9, <1>10

LEMMA PlanTails ==
    ASSUME NEW p \in {Signs, Refreshes, LoadsThenIssues, AsksForOTP, SavesThenRevokesAll,
                      RevokesAllThenSaves}
    PROVE  /\ Len(p) # 1 /\ Tail(p) # <<>>
           /\ Tail(p) \in {LoadsThenIssues, Issue, OTP, RevokesAll, SavesUser}
<1>1. /\ LoadsThenIssues # <<>> /\ Issue # <<>> /\ OTP # <<>> /\ RevokesAll # <<>>
      /\ SavesUser # <<>>
  BY DEF LoadsThenIssues, Issue, OTP, RevokesAll, SavesUser
<1>2. CASE p = Signs
  BY <1>1, <1>2, PlanShapes
<1>3. CASE p = Refreshes
  BY <1>1, <1>3, PlanShapes
<1>4. CASE p = LoadsThenIssues
  BY <1>1, <1>4, PlanShapes
<1>5. CASE p = AsksForOTP
  BY <1>1, <1>5, PlanShapes
<1>6. CASE p = SavesThenRevokesAll
  BY <1>1, <1>6, PlanShapes
<1>7. CASE p = RevokesAllThenSaves
  BY <1>1, <1>7, PlanShapes
<1> QED
  BY <1>2, <1>3, <1>4, <1>5, <1>6, <1>7

LEMMA LastWrites ==
    {SavesUser, OTP} \cap {Signs, AsksForOTP, SavesThenRevokesAll} = {}
<1>1. /\ Len(SavesUser) = 1 /\ Len(OTP) = 1 /\ Len(Signs) = 3 /\ Len(AsksForOTP) = 2
      /\ Len(SavesThenRevokesAll) = 2
  BY PlanShapes
<1> QED
  BY <1>1

LEMMA OTPIsNoEnd == AsksForOTP \notin Ends
<1>1. AsksForOTP # SavesThenRevokesAll
  BY DEF AsksForOTP, SavesThenRevokesAll
<1> QED
  BY <1>1, PlanShapes DEF Ends

LEMMA PlansAreKnown ==
    /\ Issues \subseteq Plans /\ Revokes \subseteq Plans /\ Ends \subseteq Plans
    /\ AsksForOTP \in Plans /\ OTP \in Plans
    /\ Signs \in Issues /\ Refreshes \in Issues /\ LoadsThenIssues \in Issues /\ Issue \in Issues
    /\ Refreshes \in Revokes /\ RevokesOne \in Revokes
    /\ SavesThenRevokesAll \in Ends /\ RevokesAllThenSaves \in Ends /\ RevokesAll \in Ends
    /\ SavesUser \in Ends
  BY DEF Plans, Issues, Revokes, Ends

LEMMA PlanHeads ==
    ASSUME NEW p \in Plans, p # <<>>
    PROVE  /\ Head(p) = "save" => p \in {Signs, AsksForOTP, SavesThenRevokesAll, SavesUser}
           /\ Head(p) = "revokeAll" => p \in {RevokesAllThenSaves, RevokesAll}
           /\ Head(p) = "revoke" => p \in {Refreshes, RevokesOne}
           /\ Head(p) = "load" => p = LoadsThenIssues
           /\ Head(p) = "issue" => p = Issue
           /\ Head(p) = "otp" => p = OTP
  BY PlanShapes DEF Plans, Issues, Revokes, Ends

LEMMA IdleIsPlanned ==
    /\ IdleHandler \in Planned
    /\ IdleHandler.todo = <<>> /\ IdleHandler.login = 0 /\ ~IdleHandler.ends
    /\ NewUser \in User
  BY DEF IdleHandler, NewUser, Planned, Plans, User, Date

LEMMA SessionsStart == SessionsInit => SessionsInv
<1> SUFFICES ASSUME SessionsInit PROVE SessionsInv
  OBVIOUS
<1>1. /\ sessions = <<>> /\ handler = [c \in Requests |-> IdleHandler]
      /\ served = 0 /\ disturbed = FALSE /\ endedAt = 0
      /\ user \in {[NewUser EXCEPT !.twoFactor = b] : b \in BOOLEAN}
  BY DEF SessionsInit
<1>2. user \in User
  BY <1>1, IdleIsPlanned DEF User
<1>3. HandlerTypes
  BY <1>1, IdleIsPlanned, PlansAreDifferent DEF HandlerTypes
<1>4. served \in 0 .. MaxServed /\ endedAt \in 0 .. served /\ sessions \in Seq(Session)
      /\ Len(sessions) <= MaxSessions
  BY <1>1, SessionsAssumption
<1>5. LoginTypes
  <2>1. disturbed \in BOOLEAN
    BY <1>1
  <2>2. DOMAIN sessions = {}
    BY <1>1
  <2> QED
    BY <1>2, <1>4, <1>1, <2>1, <2>2 DEF LoginTypes
<1>6. SessionsEndIfFresh
  BY <1>1 DEF SessionsEndIfFresh, AllSessionsEndIfFresh, OneSessionPerLoginIfFresh
<1>7. \A c \in Requests : Expects(c)
  BY <1>1, IdleIsPlanned, PlansAreDifferent DEF Expects
<1> QED
  BY <1>3, <1>5, <1>6, <1>7 DEF SessionsInv

(***************************************************************************)
(* A request starts: what it is to do, and with which login.               *)
(***************************************************************************)
LEMMA RequestStarts ==
    ASSUME SessionsInv, NEW c \in Requests, served < MaxServed,
           NEW todo \in Plans, NEW row \in User, NEW i \in Nat, NEW login \in Nat,
           NEW ends \in BOOLEAN, Starts(c, todo, row, i, login, ends),
           login <= served + 1,
           todo \in Revokes => i \in DOMAIN sessions,
           ends => todo \in Ends /\ todo # SavesUser,
           todo \in Issues =>
              \/ todo = Signs /\ login = served + 1
              \/ todo = Refreshes /\ login = sessions[i].login /\ ~sessions[i].revoked
    PROVE  SessionsInv'
<1> DEFINE k == [IdleHandler EXCEPT !.todo = todo, !.row = row, !.session = i, !.login = login,
                                    !.ends = ends]
<1>1. /\ handler' = [handler EXCEPT ![c] = k] /\ served' = served + 1
      /\ UNCHANGED <<user, sessions, disturbed, endedAt>>
  BY DEF Starts
<1>2. HandlerTypes /\ LoginTypes /\ SessionsEndIfFresh
  BY DEF SessionsInv
<1>3. /\ served \in Nat /\ endedAt \in Nat /\ endedAt <= served
      /\ \A j \in DOMAIN sessions : sessions[j] \in Session /\ sessions[j].login <= served
  BY <1>2, SessionsAssumption DEF LoginTypes
<1>4. k \in Planned /\ k.todo = todo /\ k.session = i /\ k.login = login /\ k.ends = ends
  BY IdleIsPlanned DEF Planned, IdleHandler
<1> HIDE DEF k
<1>5. /\ handler' \in [Requests -> Planned] /\ handler'[c] = k
      /\ \A d \in Requests : d # c => handler'[d] = handler[d]
  BY <1>1, <1>2, <1>4 DEF HandlerTypes
<1>6. \A d \in Requests : handler[d].login \in Nat
  BY <1>2 DEF HandlerTypes, Planned
<1>7. HandlerTypes'
  <2> SUFFICES ASSUME NEW d \in Requests
               PROVE  /\ handler'[d].login <= served'
                      /\ handler'[d].todo \in Revokes => handler'[d].session \in DOMAIN sessions
                      /\ handler'[d].ends => handler'[d].todo \in Ends
    BY <1>1, <1>5 DEF HandlerTypes
  <2>1. CASE d = c
    BY <1>1, <1>4, <1>5, <2>1
  <2>2. CASE d # c
    <3>1. handler'[d] = handler[d] /\ handler[d].login <= served
      BY <1>2, <1>5, <2>2 DEF HandlerTypes
    <3>2. handler[d].login <= served + 1
      BY <1>3, <1>6, <3>1
    <3> QED
      BY <1>1, <1>2, <3>1, <3>2 DEF HandlerTypes
  <2> QED
    BY <2>1, <2>2
<1>8. LoginTypes'
  <2>1. served' \in 0 .. MaxServed /\ endedAt' \in 0 .. served'
    BY <1>1, <1>3, SessionsAssumption
  <2>2. \A j \in DOMAIN sessions : sessions[j].login <= served'
    <3>1. \A j \in DOMAIN sessions : sessions[j].login \in Nat
      BY <1>3 DEF Session
    <3> QED
      BY <1>1, <1>3, <3>1
  <2> QED
    BY <1>1, <1>2, <2>1, <2>2 DEF LoginTypes
<1>9. SessionsEndIfFresh'
  BY <1>1, <1>2 DEF SessionsEndIfFresh, AllSessionsEndIfFresh, OneSessionPerLoginIfFresh
<1>10. ~disturbed => Expects(c)'
  <2> SUFFICES ASSUME ~disturbed PROVE Expects(c)'
    OBVIOUS
  <2>1. ~(k.ends /\ k.todo = SavesUser)
    BY <1>4
  <2>2. \A j \in DOMAIN sessions : sessions[j].login \in Nat
    BY <1>3 DEF Session
  <2>3. CASE todo = Signs /\ login = served + 1
    <3>1. endedAt < login /\ \A j \in DOMAIN sessions : sessions[j].login # login
      BY <1>3, <2>2, <2>3
    <3> QED
      BY <1>1, <1>4, <1>5, <2>1, <3>1 DEF Expects
  <2>4. CASE todo = Refreshes /\ login = sessions[i].login /\ ~sessions[i].revoked
    <3>1. i \in DOMAIN sessions
      BY <2>4 DEF Revokes
    <3>2. endedAt < login
      BY <1>2, <1>3, <2>2, <2>4, <3>1 DEF SessionsEndIfFresh, AllSessionsEndIfFresh
    <3>3. \A j \in DOMAIN sessions : ~sessions[j].revoked /\ sessions[j].login = login => j = i
      BY <1>2, <2>4, <3>1 DEF SessionsEndIfFresh, OneSessionPerLoginIfFresh
    <3> QED
      BY <1>1, <1>4, <1>5, <2>1, <2>4, <3>2, <3>3 DEF Expects
  <2>5. CASE todo \notin Issues
    BY <1>4, <1>5, <2>1, <2>5 DEF Expects
  <2> QED
    BY <2>3, <2>4, <2>5
<1>11. \A d \in Requests : d # c /\ Expects(d) => Expects(d)'
  BY <1>1, <1>5 DEF Expects
<1> QED
  BY <1>1, <1>5, <1>7, <1>8, <1>9, <1>10, <1>11 DEF SessionsInv

LEMMA UserChanged ==
    ASSUME NEW u \in User, NEW failed \in Nat, NEW version \in Nat, NEW password \in Nat,
           NEW date \in Date, NEW active \in BOOLEAN
    PROVE  /\ [u EXCEPT !.failed = failed, !.lockedUntil = date] \in User
           /\ [u EXCEPT !.failed = failed] \in User
           /\ [u EXCEPT !.lockedUntil = date, !.version = version] \in User
           /\ [u EXCEPT !.otp = date] \in User
           /\ [u EXCEPT !.reset = date] \in User
           /\ [u EXCEPT !.reset = "used", !.version = version, !.password = password] \in User
           /\ [u EXCEPT !.version = version, !.password = password] \in User
           /\ [u EXCEPT !.version = version] \in User
           /\ [u EXCEPT !.active = active] \in User
<1>1. [u EXCEPT !.failed = failed, !.lockedUntil = date] \in User
  BY DEF User
<1>2. [u EXCEPT !.failed = failed] \in User
  BY DEF User
<1>3. [u EXCEPT !.lockedUntil = date, !.version = version] \in User
  BY DEF User
<1>4. [u EXCEPT !.otp = date] \in User
  BY DEF User
<1>5. [u EXCEPT !.reset = date] \in User
  BY DEF User
<1>6. [u EXCEPT !.reset = "used", !.version = version, !.password = password] \in User
  BY DEF User
<1>7. [u EXCEPT !.version = version, !.password = password] \in User
  BY DEF User
<1>8. [u EXCEPT !.version = version] \in User
  BY DEF User
<1>9. [u EXCEPT !.active = active] \in User
  BY DEF User
<1> QED
  BY <1>1, <1>2, <1>3, <1>4, <1>5, <1>6, <1>7, <1>8, <1>9

\* A request that only saves a row, or that ends all sessions.
LEMMA SavingStarts ==
    ASSUME SessionsInv, NEW c \in Requests, served < MaxServed,
           NEW todo \in Ends \cup {AsksForOTP}, NEW row \in User, NEW i \in Nat,
           NEW login \in Nat, login <= served, NEW ends \in BOOLEAN,
           Starts(c, todo, row, i, login, ends),
           ends => todo \in Ends /\ todo # SavesUser
    PROVE  SessionsInv'
<1>1. todo \in Plans /\ todo \notin Revokes /\ todo \notin Issues
  BY PlansAreKnown, PlansAreDifferent
<1>2. served \in Nat
  BY SessionsAssumption DEF SessionsInv, LoginTypes
<1>3. login <= served + 1
  BY <1>2
<1> QED
  BY <1>1, <1>3, RequestStarts

LEMMA SigningStarts ==
    ASSUME SessionsInv, NEW c \in Requests, served < MaxServed, NEW row \in User, SignsIn(c, row)
    PROVE  SessionsInv'
<1>1. Starts(c, Signs, row, 0, served + 1, FALSE)
  BY DEF SignsIn, Signs
<1>2. served \in Nat
  BY SessionsAssumption DEF SessionsInv, LoginTypes
<1>3. PICK login \in Nat : login = served + 1
  BY <1>2
<1>4. Signs \in Plans /\ Signs \notin Revokes /\ login <= served + 1
  BY <1>2, <1>3, PlansAreKnown, PlansAreDifferent
<1>5. Starts(c, Signs, row, 0, login, FALSE)
  BY <1>1, <1>3
<1> QED
  BY <1>3, <1>4, <1>5, RequestStarts

LEMMA SessionsRequested ==
    ASSUME SessionsInv, NEW c \in Requests, Start(c)
    PROVE  SessionsInv'
<1>1. served < MaxServed /\ user \in User /\ served \in Nat
  BY SessionsAssumption DEF Start, ReadyToServe, SessionsInv, LoginTypes
<1>2. ASSUME NEW i \in DOMAIN sessions
      PROVE  /\ i \in Nat /\ sessions[i].login \in Nat /\ sessions[i].login <= served
             /\ sessions[i].login <= served + 1 /\ sessions[i].revoked \in BOOLEAN
  <2>1. sessions \in Seq(Session) /\ sessions[i].login <= served
    BY DEF SessionsInv, LoginTypes
  <2>2. sessions[i] \in Session /\ i \in Nat
    BY <2>1
  <2>3. sessions[i].login \in Nat /\ sessions[i].revoked \in BOOLEAN
    BY <2>2 DEF Session
  <2> QED
    BY <1>1, <2>1, <2>2, <2>3
<1>3. user.failed \in Nat /\ user.version \in Nat /\ user.password \in Nat
  BY <1>1 DEF User
<1>4. PICK failed \in Nat, version \in Nat, password \in Nat :
          failed = user.failed + 1 /\ version = user.version + 1 /\ password = user.password + 1
  BY <1>3
<1>5. {"none", "ahead", "past"} \subseteq Date /\ 0 \in Nat /\ 0 <= served
  BY <1>1 DEF Date
<1>6. ASSUME NEW todo \in Ends \cup {AsksForOTP}, NEW row \in User,
             Starts(c, todo, row, 0, 0, FALSE)
      PROVE  SessionsInv'
  BY <1>1, <1>5, <1>6, SavingStarts
<1>7. ASSUME NEW todo \in Ends, todo # SavesUser, NEW row \in User,
             Starts(c, todo, row, 0, 0, TRUE)
      PROVE  SessionsInv'
  BY <1>1, <1>5, <1>7, SavingStarts
<1>8. /\ SavesUser \in Ends /\ RevokesAll \in Ends /\ RevokesAll # SavesUser
      /\ SavesThenRevokesAll \in Ends /\ SavesThenRevokesAll # SavesUser
      /\ RevokesAllThenSaves \in Ends /\ RevokesAllThenSaves # SavesUser
  BY PlansAreKnown, PlansAreDifferent
<1>10. CASE LoginWithRightPassword(c)
  <2> DEFINE row == [user EXCEPT !.failed = 0, !.lockedUntil = "none"]
  <2>1. row \in User
    BY <1>1, <1>5, UserChanged
  <2>2. Starts(c, AsksForOTP, row, 0, 0, FALSE) \/ SignsIn(c, row)
    BY <1>10 DEF LoginWithRightPassword, AsksForOTP
  <2> HIDE DEF row
  <2> QED
    BY <1>1, <1>6, <2>1, <2>2, SigningStarts
<1>11. CASE LoginWithWrongPassword(c)
  <2> DEFINE row == [user EXCEPT !.failed = user.failed + 1]
             locked == [row EXCEPT !.lockedUntil = "ahead", !.version = @ + 1]
  <2>1. row \in User /\ row.version = user.version
    BY <1>1, <1>4, UserChanged DEF User
  <2>2. \/ Starts(c, RevokesAllThenSaves, locked, 0, 0, TRUE)
        \/ Starts(c, SavesUser, row, 0, 0, FALSE)
    BY <1>11 DEF LoginWithWrongPassword, RevokesAllThenSaves, SavesUser
  <2>3. locked \in User
    <3> HIDE DEF row
    <3>1. row.version + 1 = version
      BY <1>4, <2>1
    <3> QED
      BY <1>5, <2>1, <3>1, UserChanged
  <2> HIDE DEF row, locked
  <2> QED
    BY <1>6, <1>7, <1>8, <2>1, <2>2, <2>3
<1>12. CASE ValidateOTP(c)
  <2>1. SignsIn(c, [user EXCEPT !.otp = "past"]) /\ [user EXCEPT !.otp = "past"] \in User
    BY <1>1, <1>5, <1>12, UserChanged DEF ValidateOTP
  <2> QED
    BY <1>1, <2>1, SigningStarts
<1>13. CASE RequestPasswordReset(c)
  <2> DEFINE row == [user EXCEPT !.reset = "ahead"]
  <2>1. row \in User
    BY <1>1, <1>5, UserChanged
  <2>2. Starts(c, SavesUser, row, 0, 0, FALSE)
    BY <1>13 DEF RequestPasswordReset, SavesUser
  <2> HIDE DEF row
  <2> QED
    BY <1>6, <1>8, <2>1, <2>2
<1>14. CASE ResetPassword(c)
  <2> DEFINE row == [user EXCEPT !.reset = "used", !.version = user.version + 1,
                                 !.password = user.password + 1]
  <2>1. row \in User
    <3>1. [user EXCEPT !.reset = "used", !.version = version, !.password = password] \in User
      BY <1>1 DEF User
    <3> QED
      BY <1>4, <3>1
  <2>2. Starts(c, SavesThenRevokesAll, row, 0, 0, TRUE)
    BY <1>14 DEF ResetPassword, SavesThenRevokesAll
  <2> HIDE DEF row
  <2> QED
    BY <1>7, <1>8, <2>1, <2>2
<1>15. CASE ChangePassword(c) \/ LogoutAll(c) \/ AdminResetPassword(c)
  <2> DEFINE row == [user EXCEPT !.version = user.version + 1, !.password = user.password + 1]
             out == [user EXCEPT !.version = user.version + 1]
  <2>1. row \in User /\ out \in User
    <3>1. /\ [user EXCEPT !.version = version, !.password = password] \in User
          /\ [user EXCEPT !.version = version] \in User
      BY <1>1 DEF User
    <3> QED
      BY <1>4, <3>1
  <2>2. \/ Starts(c, SavesThenRevokesAll, row, 0, 0, TRUE)
        \/ Starts(c, SavesThenRevokesAll, out, 0, 0, TRUE)
        \/ Starts(c, SavesUser, row, 0, 0, FALSE)
    BY <1>15 DEF ChangePassword, LogoutAll, AdminResetPassword, SavesThenRevokesAll, SavesUser
  <2> HIDE DEF row, out
  <2> QED
    BY <1>6, <1>7, <1>8, <2>1, <2>2
<1>16. ASSUME NEW active \in BOOLEAN, UpdateUser(c, active) PROVE SessionsInv'
  <2> DEFINE row == [user EXCEPT !.active = active]
  <2>1. row \in User
    BY <1>1, UserChanged DEF User
  <2>2. Starts(c, SavesUser, row, 0, 0, FALSE)
    BY <1>16 DEF UpdateUser, SavesUser
  <2> HIDE DEF row
  <2> QED
    BY <1>6, <1>8, <2>1, <2>2
<1>17. ASSUME NEW i \in DOMAIN sessions, Starts(c, RevokesOne, user, i, 0, FALSE)
       PROVE  SessionsInv'
  <2>1. RevokesOne \in Plans /\ RevokesOne \notin Issues /\ 0 <= served + 1
    BY <1>1, PlansAreKnown, PlansAreDifferent
  <2> QED
    BY <1>1, <1>2, <1>5, <1>17, <2>1, RequestStarts
<1>18. ASSUME NEW i \in DOMAIN sessions, Logout(c, i) PROVE SessionsInv'
  BY <1>17, <1>18 DEF Logout, RevokesOne
<1>19. ASSUME NEW i \in DOMAIN sessions, RefreshToken(c, i) PROVE SessionsInv'
  <2> DEFINE login == sessions[i].login
  <2>1. \/ sessions[i].revoked /\ Starts(c, RevokesAll, user, i, login, TRUE)
        \/ ~sessions[i].revoked /\ Starts(c, RevokesOne, user, i, login, FALSE)
        \/ ~sessions[i].revoked /\ Starts(c, Refreshes, user, i, login, FALSE)
    <3>1. CASE sessions[i].revoked
      BY <1>19, <3>1 DEF RefreshToken, RevokesAll
    <3>2. CASE ~sessions[i].revoked
      <4>1. sessions[i].revoked = FALSE
        BY <1>2, <3>2
      <4> QED
        BY <1>19, <4>1 DEF RefreshToken, RevokesOne, Refreshes
    <3> QED
      BY <3>1, <3>2
  <2>2. i \in Nat /\ login \in Nat /\ login <= served /\ login <= served + 1
    BY <1>2
  <2>3. CASE Starts(c, RevokesAll, user, i, login, TRUE)
    BY <1>1, <1>8, <2>2, <2>3, SavingStarts
  <2>4. CASE Starts(c, RevokesOne, user, i, login, FALSE)
    <3>1. RevokesOne \in Plans /\ RevokesOne \notin Issues
      BY PlansAreKnown, PlansAreDifferent
    <3> QED
      BY <1>1, <2>2, <2>4, <3>1, RequestStarts
  <2>5. CASE ~sessions[i].revoked /\ Starts(c, Refreshes, user, i, login, FALSE)
    <3>1. Refreshes \in Plans
      BY PlansAreKnown
    <3> QED
      BY <1>1, <2>2, <2>5, <3>1, RequestStarts
  <2> QED
    BY <2>1, <2>3, <2>4, <2>5
<1> QED
  BY <1>10, <1>11, <1>12, <1>13, <1>14, <1>15, <1>16, <1>18, <1>19 DEF Start, RevokeSession

(***************************************************************************)
(* A write: what the request has left to do, and what became of the copies *)
(* of the others.                                                          *)
(***************************************************************************)
LEMMA WhatIsLeft ==
    ASSUME SessionsInv, NEW c \in Requests, handler[c].todo # <<>>
    PROVE  LET k == handler[c]  p == k.todo IN
           /\ k \in Planned /\ k.login <= served
           /\ p \in {Issue, OTP, RevokesAll, SavesUser, RevokesOne} => Rest(c) = IdleHandler
           /\ p \in {Signs, Refreshes, LoadsThenIssues, AsksForOTP, SavesThenRevokesAll,
                     RevokesAllThenSaves} =>
                 /\ Rest(c) \in Planned /\ Rest(c) # IdleHandler
                 /\ Rest(c).todo = Tail(p) /\ Rest(c).login = k.login /\ Rest(c).ends = k.ends
<1> DEFINE k == handler[c]
           r == [k EXCEPT !.todo = Tail(k.todo)]
<1>1. k \in Planned /\ k.login <= served
  BY DEF SessionsInv, HandlerTypes
<1>2. k.todo \in {Issue, OTP, RevokesAll, SavesUser, RevokesOne} => Rest(c) = IdleHandler
  BY PlanShapes DEF Rest
<1>3. ASSUME k.todo \in {Signs, Refreshes, LoadsThenIssues, AsksForOTP, SavesThenRevokesAll,
                         RevokesAllThenSaves}
      PROVE  /\ Rest(c) \in Planned /\ Rest(c) # IdleHandler
             /\ Rest(c).todo = Tail(k.todo) /\ Rest(c).login = k.login /\ Rest(c).ends = k.ends
  <2>1. Len(k.todo) # 1
    BY <1>3, PlanTails
  <2>2. Rest(c) = r
    BY <2>1 DEF Rest
  <2>3. /\ Tail(k.todo) \in {LoadsThenIssues, Issue, OTP, RevokesAll, SavesUser}
        /\ Tail(k.todo) # <<>>
    BY <1>3, PlanTails
  <2>4. Tail(k.todo) \in Plans
    BY <2>3, PlansAreKnown
  <2>5. r \in Planned /\ r.todo = Tail(k.todo) /\ r.login = k.login /\ r.ends = k.ends
    <3> HIDE DEF k
    <3> QED
      BY <1>1, <2>4 DEF Planned
  <2> QED
    BY <2>2, <2>3, <2>5, IdleIsPlanned
<1> QED
  BY <1>1, <1>2, <1>3

LEMMA WriteIsDone ==
    ASSUME SessionsInv, NEW c \in Requests, NEW rest \in Planned, Done(c, rest),
           rest.login <= served, rest.todo \notin Revokes, rest.ends => rest.todo \in Ends,
           sessions' \in Seq(Session), Len(sessions') <= MaxSessions, user' \in User,
           DOMAIN sessions \subseteq DOMAIN sessions',
           \A i \in DOMAIN sessions' : sessions'[i].login <= served
    PROVE  /\ HandlerTypes' /\ LoginTypes'
           /\ handler'[c] = rest /\ served' = served
           /\ endedAt' = IF handler[c].ends /\ rest = IdleHandler THEN served ELSE endedAt
           /\ ~disturbed' => ~disturbed /\ handler[c].fresh /\ Expects(c)
           /\ \A d \in Requests : d # c /\ handler'[d].fresh => Expects(d)'
<1>1. /\ handler' = [d \in Requests |->
                        IF d = c THEN rest
                        ELSE IF HandlerIsIdle(handler[d]) THEN IdleHandler
                        ELSE [handler[d] EXCEPT !.fresh = FALSE]]
      /\ disturbed' = (disturbed \/ ~handler[c].fresh)
      /\ endedAt' = IF handler[c].ends /\ rest = IdleHandler THEN served ELSE endedAt
      /\ served' = served
  BY DEF Done
<1>2. HandlerTypes /\ LoginTypes /\ handler'[c] = rest
  BY <1>1 DEF SessionsInv
<1>3. served \in Nat /\ endedAt \in 0 .. served
  BY <1>2, SessionsAssumption DEF LoginTypes
<1>4. ASSUME NEW d \in Requests, d # c
      PROVE  /\ handler'[d] \in Planned /\ handler'[d].login <= served
             /\ handler'[d].todo \in Revokes => handler'[d].session \in DOMAIN sessions'
             /\ handler'[d].ends => handler'[d].todo \in Ends
             /\ handler'[d].fresh => handler'[d] = IdleHandler
  <2>1. CASE HandlerIsIdle(handler[d])
    <3>1. handler'[d] = IdleHandler
      BY <1>1, <1>4, <2>1
    <3> QED
      BY <1>3, <3>1, IdleIsPlanned, PlansAreDifferent
  <2>2. CASE ~HandlerIsIdle(handler[d])
    <3>1. handler'[d] = [handler[d] EXCEPT !.fresh = FALSE]
      BY <1>1, <1>4, <2>2
    <3>2. /\ handler[d] \in Planned /\ handler[d].login <= served
          /\ handler[d].todo \in Revokes => handler[d].session \in DOMAIN sessions
          /\ handler[d].ends => handler[d].todo \in Ends
      BY <1>2 DEF HandlerTypes
    <3>3. /\ handler'[d] \in Planned /\ handler'[d].todo = handler[d].todo
          /\ handler'[d].login = handler[d].login /\ handler'[d].session = handler[d].session
          /\ handler'[d].ends = handler[d].ends /\ ~handler'[d].fresh
      BY <3>1, <3>2 DEF Planned
    <3> QED
      BY <3>2, <3>3
  <2> QED
    BY <2>1, <2>2
<1>5. HandlerTypes'
  <2>1. DOMAIN handler' = Requests /\ handler' = [d \in Requests |-> handler'[d]]
    BY <1>1
  <2>2. \A d \in Requests : handler'[d] \in Planned
    BY <1>2, <1>4
  <2>3. handler' \in [Requests -> Planned]
    BY <2>1, <2>2
  <2>4. \A d \in Requests :
           /\ handler'[d].login <= served'
           /\ handler'[d].todo \in Revokes => handler'[d].session \in DOMAIN sessions'
           /\ handler'[d].ends => handler'[d].todo \in Ends
    BY <1>1, <1>2, <1>4
  <2> QED
    BY <2>3, <2>4 DEF HandlerTypes
<1>6. LoginTypes'
  <2>1. disturbed' \in BOOLEAN
    BY <1>1
  <2>2. endedAt' \in 0 .. served' /\ served' \in 0 .. MaxServed
    BY <1>1, <1>2, <1>3 DEF LoginTypes
  <2> QED
    BY <1>1, <2>1, <2>2 DEF LoginTypes
<1>7. ~disturbed' => ~disturbed /\ handler[c].fresh /\ Expects(c)
  BY <1>1 DEF SessionsInv
<1>8. \A d \in Requests : d # c /\ handler'[d].fresh => Expects(d)'
  BY <1>4, IdleIsPlanned, PlansAreDifferent DEF Expects
<1> QED
  BY <1>1, <1>2, <1>5, <1>6, <1>7, <1>8

\* A write of the user's row.
LEMMA UserSaved ==
    ASSUME SessionsInv, NEW c \in Requests, SaveUser(c) \/ SendOTP(c)
    PROVE  SessionsInv'
<1> DEFINE k == handler[c]
           rest == Rest(c)
<1>1. /\ k.todo # <<>> /\ Head(k.todo) \in {"save", "otp"}
      /\ sessions' = sessions /\ Done(c, rest)
      /\ user' = k.row \/ user' = [k.row EXCEPT !.otp = "ahead"]
  BY DEF SaveUser, SendOTP, Does
<1>2. k \in Planned /\ k.login <= served
  BY <1>1, WhatIsLeft
<1>3. k.todo \in {Signs, AsksForOTP, SavesThenRevokesAll, SavesUser, OTP}
  BY <1>1, <1>2, PlanHeads DEF Planned
<1>4. HandlerTypes /\ LoginTypes /\ SessionsEndIfFresh /\ (k.ends => k.todo \in Ends)
  BY DEF SessionsInv, HandlerTypes
<1>5. /\ k.todo = Signs => rest # IdleHandler /\ rest.todo = LoadsThenIssues
      /\ k.todo = AsksForOTP => rest # IdleHandler /\ rest.todo = OTP
      /\ k.todo = SavesThenRevokesAll => rest # IdleHandler /\ rest.todo = RevokesAll
      /\ k.todo \in {SavesUser, OTP} => rest = IdleHandler
      /\ rest # IdleHandler => rest \in Planned /\ rest.login = k.login /\ rest.ends = k.ends
  <2>1. CASE k.todo \in {Signs, AsksForOTP, SavesThenRevokesAll}
    <3>1. /\ rest # IdleHandler /\ rest \in Planned /\ rest.todo = Tail(k.todo)
          /\ rest.login = k.login /\ rest.ends = k.ends
      BY <1>1, <2>1, WhatIsLeft
    <3>2. SavesUser \notin {Signs, AsksForOTP, SavesThenRevokesAll}
          /\ OTP \notin {Signs, AsksForOTP, SavesThenRevokesAll}
      BY LastWrites
    <3> HIDE DEF k, rest
    <3> QED
      BY <2>1, <3>1, <3>2, PlanShapes
  <2>2. CASE k.todo \in {SavesUser, OTP}
    <3>1. rest = IdleHandler
      BY <1>1, <2>2, WhatIsLeft
    <3>2. k.todo \notin {Signs, AsksForOTP, SavesThenRevokesAll}
      BY <2>2, LastWrites
    <3> QED
      BY <2>2, <3>1, <3>2
  <2> QED
    BY <1>3, <2>1, <2>2
<1>6. user' \in User
  <2>1. k.row \in User /\ "ahead" \in Date
    BY <1>2 DEF Planned, Date
  <2> QED
    BY <1>1, <2>1 DEF User
<1> HIDE DEF k, rest
<1>7. /\ rest \in Planned /\ rest.login <= served /\ rest.todo \notin Revokes
      /\ rest.ends => rest.todo \in Ends
  <2>1. CASE rest = IdleHandler
    <3>1. 0 <= served
      BY <1>4, SessionsAssumption DEF LoginTypes
    <3> QED
      BY <2>1, <3>1, IdleIsPlanned, PlansAreDifferent
  <2>2. CASE rest # IdleHandler
    <3>1. /\ LoadsThenIssues \notin Revokes /\ OTP \notin Revokes /\ RevokesAll \notin Revokes
          /\ RevokesAll \in Ends
      BY PlansAreDifferent, PlansAreKnown
    <3>2. rest.todo \notin Revokes
      BY <1>3, <1>5, <2>2, <3>1
    <3>3. k.todo \in {Signs, AsksForOTP, SavesThenRevokesAll}
      BY <1>3, <1>5, <2>2
    <3>4. Signs \notin Ends /\ AsksForOTP \notin Ends
      BY OTPIsNoEnd, PlansAreDifferent, PlansAreKnown
    <3>5. k.ends => k.todo = SavesThenRevokesAll
      BY <1>4, <3>3, <3>4
    <3> QED
      BY <1>2, <1>5, <2>2, <3>1, <3>2, <3>5
  <2> QED
    BY <2>1, <2>2
<1>8. /\ sessions' \in Seq(Session) /\ Len(sessions') <= MaxSessions
      /\ DOMAIN sessions \subseteq DOMAIN sessions'
      /\ \A i \in DOMAIN sessions' : sessions'[i].login <= served
  BY <1>1, <1>4 DEF LoginTypes
<1>9. /\ HandlerTypes' /\ LoginTypes' /\ handler'[c] = rest /\ served' = served
      /\ endedAt' = IF k.ends /\ rest = IdleHandler THEN served ELSE endedAt
      /\ ~disturbed' => ~disturbed /\ k.fresh /\ Expects(c)
      /\ \A d \in Requests : d # c /\ handler'[d].fresh => Expects(d)'
  BY <1>1, <1>6, <1>7, <1>8, WriteIsDone DEF k
<1>10. ASSUME ~disturbed' PROVE SessionsEndIfFresh' /\ Expects(c)'
  <2>1. ~disturbed /\ Expects(c)
    BY <1>9, <1>10
  <2>2. CASE k.ends /\ rest = IdleHandler
    <3>1. k.todo = SavesUser
      <4>1. OTP \notin Ends
        <5>1. Len(OTP) = 1 /\ Head(OTP) # "save" /\ Head(OTP) # "revokeAll"
          BY PlanShapes
        <5> QED
          BY <5>1, PlanShapes DEF Ends
      <4>2. k.todo \notin {Signs, AsksForOTP}
        BY <1>4, <2>2, OTPIsNoEnd, PlansAreDifferent, PlansAreKnown
      <4>3. k.todo # SavesThenRevokesAll
        BY <1>5, <2>2
      <4> QED
        BY <1>3, <1>4, <2>2, <4>1, <4>2, <4>3
    <3>2. \A i \in DOMAIN sessions : sessions[i].revoked
      BY <2>1, <2>2, <3>1 DEF Expects, k
    <3>3. SessionsEndIfFresh'
      BY <1>1, <3>2 DEF SessionsEndIfFresh, AllSessionsEndIfFresh, OneSessionPerLoginIfFresh
    <3> QED
      BY <1>9, <2>2, <3>3, IdleIsPlanned, PlansAreDifferent DEF Expects
  <2>3. CASE ~(k.ends /\ rest = IdleHandler)
    <3>1. endedAt' = endedAt
      BY <1>9, <2>3
    <3>2. SessionsEndIfFresh'
      BY <1>1, <1>4, <2>1, <3>1
         DEF SessionsEndIfFresh, AllSessionsEndIfFresh, OneSessionPerLoginIfFresh
    <3>3. Expects(c)'
      <4>1. CASE rest = IdleHandler
        BY <1>9, <4>1, IdleIsPlanned, PlansAreDifferent DEF Expects
      <4>2. CASE k.todo = Signs
        <5>1. /\ endedAt < k.login
              /\ \A i \in DOMAIN sessions : sessions[i].revoked \/ sessions[i].login # k.login
          BY <2>1, <4>2, PlansAreKnown, PlansAreDifferent DEF Expects, k
        <5>2. rest.todo = LoadsThenIssues /\ rest.login = k.login /\ LoadsThenIssues # SavesUser
          BY <1>5, <4>2, PlansAreDifferent, PlansAreKnown
        <5> QED
          BY <1>1, <1>9, <3>1, <5>1, <5>2 DEF Expects
      <4>3. CASE k.todo \in {AsksForOTP, SavesThenRevokesAll}
        <5>1. /\ OTP # SavesUser /\ RevokesAll # SavesUser
              /\ OTP \notin Issues /\ RevokesAll \notin Issues
          BY PlansAreDifferent, PlansAreKnown, PlanShapes
        <5>2. rest.todo \in {OTP, RevokesAll}
          BY <1>5, <4>3
        <5> QED
          BY <1>9, <5>1, <5>2 DEF Expects
      <4> QED
        BY <1>3, <1>5, <4>1, <4>2, <4>3
    <3> QED
      BY <3>2, <3>3
  <2> QED
    BY <2>2, <2>3
<1> QED
  <2>1. disturbed' => SessionsEndIfFresh'
    BY DEF SessionsEndIfFresh, AllSessionsEndIfFresh, OneSessionPerLoginIfFresh
  <2> QED
    BY <1>9, <1>10, <2>1 DEF SessionsInv

\* All sessions are revoked, or the one that a request loaded.
LEMMA SessionsRevoked ==
    ASSUME SessionsInv, NEW c \in Requests, RevokeAllSessions(c) \/ SaveSession(c)
    PROVE  SessionsInv'
<1> DEFINE k == handler[c]
           rest == Rest(c)
<1>1. k.todo # <<>> /\ Done(c, rest) /\ user' = user
  BY DEF RevokeAllSessions, SaveSession, Does
<1>2. k \in Planned /\ k.login <= served
  BY <1>1, WhatIsLeft
<1>3. \/ /\ k.todo \in {RevokesAllThenSaves, RevokesAll}
         /\ sessions' = [i \in DOMAIN sessions |-> [sessions[i] EXCEPT !.revoked = TRUE]]
      \/ /\ k.todo \in {Refreshes, RevokesOne}
         /\ sessions' = [sessions EXCEPT ![k.session].revoked = TRUE]
  BY <1>2, PlanHeads DEF RevokeAllSessions, SaveSession, Does, Planned
<1>4. /\ HandlerTypes /\ LoginTypes /\ SessionsEndIfFresh
      /\ k.ends => k.todo \in Ends
      /\ k.todo \in Revokes => k.session \in DOMAIN sessions
  BY DEF SessionsInv, HandlerTypes
<1>5. /\ k.todo = Refreshes => rest # IdleHandler /\ rest.todo = LoadsThenIssues
      /\ k.todo = RevokesAllThenSaves => rest # IdleHandler /\ rest.todo = SavesUser
      /\ k.todo \in {RevokesAll, RevokesOne} => rest = IdleHandler
      /\ rest # IdleHandler => rest \in Planned /\ rest.login = k.login /\ rest.ends = k.ends
  BY <1>1, <1>3, WhatIsLeft, PlanShapes
<1> HIDE DEF k, rest
<1>6. sessions \in Seq(Session) /\ \A i \in DOMAIN sessions : sessions[i] \in Session
  BY <1>4 DEF LoginTypes
<1>7. /\ DOMAIN sessions' = DOMAIN sessions
      /\ \A i \in DOMAIN sessions :
            /\ sessions'[i] \in Session
            /\ sessions'[i].login = sessions[i].login
            /\ sessions'[i].revoked
                  <=> (sessions[i].revoked \/ k.todo \notin Revokes \/ i = k.session)
  <2>1. CASE /\ k.todo \in {RevokesAllThenSaves, RevokesAll}
             /\ sessions' = [i \in DOMAIN sessions |-> [sessions[i] EXCEPT !.revoked = TRUE]]
    <3>1. k.todo \notin Revokes
      BY <2>1, PlansAreDifferent, PlansAreKnown
    <3> QED
      BY <1>6, <2>1, <3>1 DEF Session
  <2>2. CASE /\ k.todo \in {Refreshes, RevokesOne}
             /\ sessions' = [sessions EXCEPT ![k.session].revoked = TRUE]
    <3>1. k.todo \in Revokes /\ k.session \in DOMAIN sessions
      BY <1>4, <2>2, PlansAreKnown
    <3>2. /\ DOMAIN sessions' = DOMAIN sessions
          /\ sessions'[k.session] = [sessions[k.session] EXCEPT !.revoked = TRUE]
          /\ \A i \in DOMAIN sessions : i # k.session => sessions'[i] = sessions[i]
      BY <2>2, <3>1
    <3>3. ASSUME NEW i \in DOMAIN sessions, i # k.session
          PROVE  sessions'[i] = sessions[i] /\ sessions[i] \in Session
      BY <1>6, <3>2, <3>3
    <3>4. /\ sessions'[k.session] \in Session
          /\ sessions'[k.session].login = sessions[k.session].login
          /\ sessions'[k.session].revoked
      BY <1>6, <3>1, <3>2 DEF Session
    <3> QED
      BY <3>1, <3>2, <3>3, <3>4
  <2> QED
    BY <1>3, <2>1, <2>2
<1>8. sessions' \in Seq(Session) /\ Len(sessions') = Len(sessions)
  <2>1. PICK n \in Nat : n = Len(sessions)
    BY <1>6
  <2>2. DOMAIN sessions' = 1 .. n
    BY <1>6, <1>7, <2>1
  <2>3. sessions' = [i \in 1 .. n |-> sessions'[i]]
    BY <1>3, <1>6, <2>1
  <2>4. sessions' \in [1 .. n -> Session]
    BY <1>7, <2>2, <2>3
  <2> QED
    BY <2>1, <2>4, <2>2 DEF Seq
<1>9. /\ rest \in Planned /\ rest.login <= served /\ rest.todo \notin Revokes
      /\ rest.ends => rest.todo \in Ends
  <2>1. CASE rest = IdleHandler
    <3>1. 0 <= served
      BY <1>4, SessionsAssumption DEF LoginTypes
    <3> QED
      BY <2>1, <3>1, IdleIsPlanned, PlansAreDifferent
  <2>2. CASE rest # IdleHandler
    <3>1. k.todo \in {Refreshes, RevokesAllThenSaves}
      BY <1>3, <1>5, <2>2
    <3>2. LoadsThenIssues \notin Revokes /\ SavesUser \notin Revokes /\ SavesUser \in Ends
          /\ Refreshes \notin Ends
      BY PlansAreDifferent, PlansAreKnown
    <3> QED
      BY <1>2, <1>4, <1>5, <2>2, <3>1, <3>2
  <2> QED
    BY <2>1, <2>2
<1>10. /\ Len(sessions') <= MaxSessions /\ user' \in User
       /\ DOMAIN sessions \subseteq DOMAIN sessions'
       /\ \A i \in DOMAIN sessions' : sessions'[i].login <= served
  BY <1>1, <1>4, <1>7, <1>8 DEF LoginTypes
<1>11. /\ HandlerTypes' /\ LoginTypes' /\ handler'[c] = rest /\ served' = served
       /\ endedAt' = IF k.ends /\ rest = IdleHandler THEN served ELSE endedAt
       /\ ~disturbed' => ~disturbed /\ k.fresh /\ Expects(c)
       /\ \A d \in Requests : d # c /\ handler'[d].fresh => Expects(d)'
  BY <1>1, <1>8, <1>9, <1>10, WriteIsDone DEF k
<1>12. ASSUME ~disturbed' PROVE SessionsEndIfFresh' /\ Expects(c)'
  <2>1. ~disturbed /\ Expects(c)
    BY <1>11, <1>12
  <2>2. OneSessionPerLoginIfFresh'
    BY <1>4, <1>7, <2>1 DEF SessionsEndIfFresh, OneSessionPerLoginIfFresh
  <2>3. CASE k.todo \in {RevokesAllThenSaves, RevokesAll}
    <3>1. \A i \in DOMAIN sessions' : sessions'[i].revoked
      BY <1>7, <2>3, PlansAreDifferent, PlansAreKnown
    <3>2. AllSessionsEndIfFresh'
      BY <3>1 DEF AllSessionsEndIfFresh
    <3>3. rest = IdleHandler \/ rest.todo = SavesUser
      BY <1>5, <2>3
    <3>4. rest.todo \notin Issues
      BY <3>3, IdleIsPlanned, PlansAreDifferent, PlansAreKnown
    <3> QED
      BY <1>11, <2>2, <3>1, <3>2, <3>4 DEF Expects, SessionsEndIfFresh
  <2>4. CASE k.todo \in {Refreshes, RevokesOne}
    <3>1. k.todo \in Revokes /\ ~k.ends
      BY <1>4, <2>4, PlansAreDifferent, PlansAreKnown
    <3>2. endedAt' = endedAt
      BY <1>11, <3>1
    <3>3. AllSessionsEndIfFresh'
      BY <1>4, <1>7, <2>1, <3>2 DEF SessionsEndIfFresh, AllSessionsEndIfFresh
    <3>4. CASE rest = IdleHandler
      BY <1>11, <2>2, <3>3, <3>4, IdleIsPlanned, PlansAreDifferent DEF Expects, SessionsEndIfFresh
    <3>5. CASE k.todo = Refreshes
      <4>1. /\ endedAt < k.login
            /\ \A i \in DOMAIN sessions :
                  ~sessions[i].revoked /\ sessions[i].login = k.login => i = k.session
        BY <2>1, <3>5, PlansAreKnown DEF Expects, k
      <4>2. \A i \in DOMAIN sessions' : ~sessions'[i].revoked => sessions'[i].login # k.login
        BY <1>7, <3>1, <4>1
      <4>3. rest.todo = LoadsThenIssues /\ rest.login = k.login /\ LoadsThenIssues # SavesUser
        BY <1>5, <3>5, PlansAreDifferent, PlansAreKnown
      <4> QED
        BY <1>11, <2>2, <3>2, <3>3, <4>1, <4>2, <4>3 DEF Expects, SessionsEndIfFresh
    <3> QED
      BY <1>5, <2>4, <3>4, <3>5
  <2> QED
    BY <1>3, <2>3, <2>4
<1> QED
  <2>1. disturbed' => SessionsEndIfFresh'
    BY DEF SessionsEndIfFresh, AllSessionsEndIfFresh, OneSessionPerLoginIfFresh
  <2> QED
    BY <1>11, <1>12, <2>1 DEF SessionsInv

\* Before its session is issued, a request loads the user again.
LEMMA UserLoaded ==
    ASSUME SessionsInv, NEW c \in Requests, LoadUser(c)
    PROVE  SessionsInv'
<1> DEFINE k == handler[c]
           rest == [Rest(c) EXCEPT !.row = user]
<1>1. /\ k.todo # <<>> /\ Head(k.todo) = "load"
      /\ handler' = [handler EXCEPT ![c] = rest]
      /\ UNCHANGED <<user, sessions, served, disturbed, endedAt>>
  BY DEF LoadUser, Does
<1>2. k \in Planned /\ k.login <= served /\ k.todo = LoadsThenIssues
  BY <1>1, WhatIsLeft, PlanHeads DEF Planned
<1>3. HandlerTypes /\ LoginTypes /\ SessionsEndIfFresh /\ ~k.ends
  <2>1. LoadsThenIssues \notin Ends
    BY PlansAreDifferent, PlansAreKnown
  <2> QED
    BY <1>2, <2>1 DEF SessionsInv, HandlerTypes
<1>4. /\ Rest(c) = [k EXCEPT !.todo = Issue] /\ user \in User
  <2>1. Len(k.todo) # 1 /\ Tail(k.todo) = Issue
    BY <1>2, PlanShapes
  <2> QED
    BY <1>3, <2>1 DEF Rest, LoginTypes
<1>5. /\ rest \in Planned /\ rest.todo = Issue /\ rest.login = k.login /\ ~rest.ends
      /\ rest.fresh = k.fresh
  <2>1. Issue \in Plans
    BY PlansAreKnown
  <2> HIDE DEF k
  <2> QED
    BY <1>2, <1>3, <1>4, <2>1 DEF Planned
<1> HIDE DEF k, rest
<1>6. /\ handler' \in [Requests -> Planned] /\ handler'[c] = rest
      /\ \A d \in Requests : d # c => handler'[d] = handler[d]
  BY <1>1, <1>3, <1>5 DEF HandlerTypes
<1>7. HandlerTypes'
  <2>1. Issue \notin Revokes
    BY PlansAreDifferent
  <2> SUFFICES ASSUME NEW d \in Requests
               PROVE  /\ handler'[d].login <= served
                      /\ handler'[d].todo \in Revokes => handler'[d].session \in DOMAIN sessions
                      /\ handler'[d].ends => handler'[d].todo \in Ends
    BY <1>1, <1>6 DEF HandlerTypes
  <2>2. CASE d = c
    BY <1>2, <1>5, <1>6, <2>1, <2>2
  <2>3. CASE d # c
    BY <1>3, <1>6, <2>3 DEF HandlerTypes
  <2> QED
    BY <2>2, <2>3
<1>8. LoginTypes' /\ SessionsEndIfFresh'
  BY <1>1, <1>3 DEF LoginTypes, SessionsEndIfFresh, AllSessionsEndIfFresh, OneSessionPerLoginIfFresh
<1>9. ASSUME ~disturbed, rest.fresh PROVE Expects(c)'
  <2>1. Expects(c)
    BY <1>5, <1>9 DEF SessionsInv, k
  <2>2. /\ endedAt < k.login
        /\ \A i \in DOMAIN sessions : sessions[i].revoked \/ sessions[i].login # k.login
    BY <1>2, <2>1, PlansAreKnown, PlansAreDifferent DEF Expects, k
  <2> QED
    BY <1>1, <1>5, <1>6, <2>2 DEF Expects
<1>10. \A d \in Requests : d # c /\ Expects(d) => Expects(d)'
  BY <1>1, <1>6 DEF Expects
<1> QED
  BY <1>1, <1>6, <1>7, <1>8, <1>9, <1>10 DEF SessionsInv

\* A session is issued: of a login that was not ended and has no other session.
LEMMA TokensIssued ==
    ASSUME SessionsInv, NEW c \in Requests, IssueTokenPair(c)
    PROVE  SessionsInv'
<1> DEFINE k == handler[c]
           s == [version |-> k.row.version, login |-> k.login, revoked |-> FALSE, age |-> "young"]
<1>1. /\ k.todo # <<>> /\ Head(k.todo) = "issue" /\ Len(sessions) < MaxSessions
      /\ sessions' = Append(sessions, s) /\ Done(c, Rest(c)) /\ user' = user
  BY DEF IssueTokenPair, Does
<1>2. k \in Planned /\ k.login <= served /\ k.todo = Issue
  BY <1>1, WhatIsLeft, PlanHeads DEF Planned
<1>3. Rest(c) = IdleHandler
  BY <1>1, <1>2, WhatIsLeft
<1>4. HandlerTypes /\ LoginTypes /\ SessionsEndIfFresh /\ ~k.ends
  <2>1. Issue \notin Ends
    BY PlansAreDifferent, PlansAreKnown
  <2> QED
    BY <1>2, <2>1 DEF SessionsInv, HandlerTypes
<1>5. s \in Session /\ s.login = k.login /\ ~s.revoked /\ k.login \in Nat
  BY <1>2 DEF Session, Planned, User
<1> HIDE DEF k, s
<1>6. PICK n \in Nat : n = Len(sessions)
  BY <1>4 DEF LoginTypes
<1>7. PICK m \in Nat : m = n + 1
  OBVIOUS
<1>8. /\ sessions' \in Seq(Session) /\ Len(sessions') = m
      /\ DOMAIN sessions = 1 .. n /\ DOMAIN sessions' = 1 .. m
      /\ sessions'[m] = s /\ \A i \in 1 .. n : sessions'[i] = sessions[i]
  BY <1>1, <1>4, <1>5, <1>6, <1>7 DEF LoginTypes
<1>9. \A i \in 1 .. m : i \in 1 .. n \/ i = m
  BY <1>7
<1>10. /\ Len(sessions') <= MaxSessions /\ user' \in User
       /\ DOMAIN sessions \subseteq DOMAIN sessions'
       /\ \A i \in DOMAIN sessions' : sessions'[i].login <= served
  <2>1. Len(sessions') <= MaxSessions
    BY <1>1, <1>6, <1>7, <1>8, SessionsAssumption
  <2>2. 1 .. n \subseteq 1 .. m
    BY <1>7
  <2>3. \A i \in 1 .. n : sessions[i].login <= served
    BY <1>4, <1>8 DEF LoginTypes
  <2> QED
    BY <1>1, <1>2, <1>4, <1>5, <1>8, <1>9, <2>1, <2>2, <2>3 DEF LoginTypes
<1>11. 0 <= served
  BY <1>4, SessionsAssumption DEF LoginTypes
<1>12. /\ HandlerTypes' /\ LoginTypes' /\ handler'[c] = IdleHandler /\ served' = served
       /\ endedAt' = endedAt
       /\ ~disturbed' => ~disturbed /\ k.fresh /\ Expects(c)
       /\ \A d \in Requests : d # c /\ handler'[d].fresh => Expects(d)'
  <2>1. Done(c, IdleHandler)
    BY <1>1, <1>3
  <2> QED
    BY <1>4, <1>8, <1>10, <1>11, <2>1, WriteIsDone, IdleIsPlanned, PlansAreDifferent DEF k
<1>13. Expects(c)'
  BY <1>12, IdleIsPlanned, PlansAreDifferent DEF Expects
<1>14. ASSUME ~disturbed' PROVE SessionsEndIfFresh'
  <2>1. ~disturbed /\ Expects(c)
    BY <1>12, <1>14
  <2>2. /\ endedAt < k.login
        /\ \A i \in 1 .. n : sessions[i].revoked \/ sessions[i].login # k.login
    BY <1>2, <1>8, <2>1, PlansAreKnown, PlansAreDifferent DEF Expects, k
  <2>3. AllSessionsEndIfFresh'
    BY <1>4, <1>5, <1>8, <1>9, <1>12, <2>1, <2>2 DEF SessionsEndIfFresh, AllSessionsEndIfFresh
  <2>4. OneSessionPerLoginIfFresh'
    <3> SUFFICES ASSUME NEW i \in 1 .. m, NEW j \in 1 .. m, ~sessions'[i].revoked,
                        ~sessions'[j].revoked, sessions'[i].login = sessions'[j].login
                 PROVE  i = j
      BY <1>8 DEF OneSessionPerLoginIfFresh
    <3>1. CASE i \in 1 .. n /\ j \in 1 .. n
      BY <1>4, <1>8, <2>1, <3>1 DEF SessionsEndIfFresh, OneSessionPerLoginIfFresh
    <3>2. CASE i = m /\ j \in 1 .. n
      BY <1>5, <1>8, <2>2, <3>2
    <3>3. CASE i \in 1 .. n /\ j = m
      BY <1>5, <1>8, <2>2, <3>3
    <3> QED
      BY <1>9, <3>1, <3>2, <3>3
  <2> QED
    BY <2>3, <2>4 DEF SessionsEndIfFresh
<1> QED
  <2>1. disturbed' => SessionsEndIfFresh'
    BY DEF SessionsEndIfFresh, AllSessionsEndIfFresh, OneSessionPerLoginIfFresh
  <2> QED
    BY <1>12, <1>13, <1>14, <2>1 DEF SessionsInv

\* A request is cut short.
LEMMA HandlerAborted ==
    ASSUME SessionsInv, NEW c \in Requests, AbortHandler(c)
    PROVE  SessionsInv'
<1>1. /\ handler' = [handler EXCEPT ![c] = IdleHandler] /\ disturbed' = TRUE
      /\ UNCHANGED <<user, sessions, served, endedAt>>
  BY DEF AbortHandler
<1>2. HandlerTypes /\ LoginTypes
  BY DEF SessionsInv
<1>3. /\ handler' \in [Requests -> Planned] /\ handler'[c] = IdleHandler
      /\ \A d \in Requests : d # c => handler'[d] = handler[d]
  BY <1>1, <1>2, IdleIsPlanned DEF HandlerTypes
<1>4. 0 <= served
  BY <1>2, SessionsAssumption DEF LoginTypes
<1>5. HandlerTypes'
  <2> SUFFICES ASSUME NEW d \in Requests
               PROVE  /\ handler'[d].login <= served
                      /\ handler'[d].todo \in Revokes => handler'[d].session \in DOMAIN sessions
                      /\ handler'[d].ends => handler'[d].todo \in Ends
    BY <1>1, <1>3 DEF HandlerTypes
  <2>1. CASE d = c
    BY <1>3, <1>4, <2>1, IdleIsPlanned, PlansAreDifferent
  <2>2. CASE d # c
    BY <1>2, <1>3, <2>2 DEF HandlerTypes
  <2> QED
    BY <2>1, <2>2
<1>6. LoginTypes'
  BY <1>1, <1>2 DEF LoginTypes
<1> QED
  BY <1>1, <1>5, <1>6
     DEF SessionsInv, SessionsEndIfFresh, AllSessionsEndIfFresh, OneSessionPerLoginIfFresh

\* Time passes for the user's dates, and for a session that goes on.
LEMMA DatesPassOrSessionsAge ==
    ASSUME SessionsInv, DatesPass \/ \E i \in DOMAIN sessions : SessionAges(i)
    PROVE  SessionsInv'
<1>1. UNCHANGED <<handler, served, disturbed, endedAt>>
  BY DEF DatesPass, SessionAges
<1>2. HandlerTypes /\ LoginTypes /\ SessionsEndIfFresh
  BY DEF SessionsInv
<1>3. CASE DatesPass
  <2>1. sessions' = sessions
    BY <1>3 DEF DatesPass
  <2>2. user' \in User
    <3>1. PICK column \in {"lockedUntil", "otp", "reset"} :
              user[column] = "ahead" /\ user' = [user EXCEPT ![column] = "past"]
      BY <1>3 DEF DatesPass, Passes
    <3>2. user \in User /\ "past" \in Date
      BY <1>2 DEF LoginTypes, Date
    <3>3. CASE column = "lockedUntil"
      BY <3>1, <3>2, <3>3 DEF User
    <3>4. CASE column = "otp"
      BY <3>1, <3>2, <3>4 DEF User
    <3>5. CASE column = "reset"
      BY <3>1, <3>2, <3>5 DEF User
    <3> QED
      BY <3>3, <3>4, <3>5
  <2>3. HandlerTypes' /\ LoginTypes' /\ SessionsEndIfFresh'
    BY <1>1, <1>2, <2>1, <2>2
       DEF HandlerTypes, LoginTypes, SessionsEndIfFresh, AllSessionsEndIfFresh,
           OneSessionPerLoginIfFresh
  <2>4. \A c \in Requests : Expects(c) => Expects(c)'
    BY <1>1, <2>1 DEF Expects
  <2> QED
    BY <1>1, <2>3, <2>4 DEF SessionsInv
<1>4. ASSUME NEW i \in DOMAIN sessions, SessionAges(i) PROVE SessionsInv'
  <2>1. PICK age \in {"young", "idle", "expired"} :
            sessions' = [sessions EXCEPT ![i].age = age]
    BY <1>4 DEF SessionAges
  <2>2. /\ sessions \in Seq(Session) /\ DOMAIN sessions' = DOMAIN sessions
        /\ \A j \in DOMAIN sessions : sessions[j] \in Session
    BY <1>2, <2>1 DEF LoginTypes
  <2>3. ASSUME NEW j \in DOMAIN sessions
        PROVE  /\ sessions'[j] \in Session /\ sessions'[j].login = sessions[j].login
               /\ sessions'[j].revoked = sessions[j].revoked
    <3>1. CASE j = i
      BY <2>1, <2>2, <3>1 DEF Session
    <3>2. CASE j # i
      BY <2>1, <2>2, <3>2
    <3> QED
      BY <3>1, <3>2
  <2>4. sessions' \in Seq(Session) /\ Len(sessions') = Len(sessions)
    <3>1. PICK n \in Nat : n = Len(sessions) /\ DOMAIN sessions = 1 .. n
      BY <2>2
    <3>2. sessions' = [j \in 1 .. n |-> sessions'[j]]
      BY <2>1, <3>1
    <3>3. sessions' \in [1 .. n -> Session]
      BY <2>3, <3>1, <3>2
    <3> QED
      BY <2>2, <3>1, <3>3 DEF Seq
  <2>5. user' = user
    BY <1>4 DEF SessionAges
  <2>6. HandlerTypes' /\ LoginTypes' /\ SessionsEndIfFresh'
    <3>1. HandlerTypes'
      BY <1>1, <1>2, <2>2 DEF HandlerTypes
    <3>2. LoginTypes'
      BY <1>1, <1>2, <2>2, <2>3, <2>4, <2>5 DEF LoginTypes
    <3>3. SessionsEndIfFresh'
      BY <1>1, <1>2, <2>2, <2>3
         DEF SessionsEndIfFresh, AllSessionsEndIfFresh, OneSessionPerLoginIfFresh
    <3> QED
      BY <3>1, <3>2, <3>3
  <2>7. \A c \in Requests : Expects(c) => Expects(c)'
    BY <1>1, <2>2, <2>3 DEF Expects
  <2> QED
    BY <1>1, <2>6, <2>7 DEF SessionsInv
<1> QED
  BY <1>3, <1>4

LEMMA SessionsInvariance == SessionsSpec => []SessionsInv
<1>1. SessionsInv /\ [SessionsNext]_sessionVars => SessionsInv'
  <2> SUFFICES ASSUME SessionsInv, [SessionsNext]_sessionVars PROVE SessionsInv'
    OBVIOUS
  <2>1. CASE UNCHANGED sessionVars
    BY <2>1 DEF sessionVars, SessionsInv, HandlerTypes, LoginTypes, SessionsEndIfFresh,
                AllSessionsEndIfFresh, OneSessionPerLoginIfFresh, Expects
  <2>2. ASSUME NEW c \in Requests, Continue(c) PROVE SessionsInv'
    BY <2>2, UserSaved, SessionsRevoked, UserLoaded, TokensIssued, HandlerAborted DEF Continue
  <2>3. ASSUME NEW c \in Requests, Start(c) PROVE SessionsInv'
    BY <2>3, SessionsRequested
  <2>4. CASE DatesPass \/ \E i \in DOMAIN sessions : SessionAges(i)
    BY <2>4, DatesPassOrSessionsAge
  <2> QED
    BY <2>1, <2>2, <2>3, <2>4 DEF SessionsNext
<1> QED
  BY <1>1, SessionsStart, PTL DEF SessionsSpec

\* Undisturbed, sessions end when all are ended, and refreshing leaves one of each login:
\* signing out everywhere, a new password, a lock and a token that is presented twice.
THEOREM SessionsAlwaysEndIfFresh == SessionsSpec => []SessionsEndIfFresh
<1>1. SessionsInv => SessionsEndIfFresh
  BY DEF SessionsInv
<1> QED
  BY <1>1, SessionsInvariance, PTL
-----------------------------------------------------------------------------
(***************************************************************************)
(* Reports from the field.                                                 *)
(*                                                                         *)
(* A receipt is of the event whose key it has.  The one request that holds *)
(* the lock is for an event without a receipt, so that its effect is the   *)
(* first; what a request has gathered to answer stands in receipts, which  *)
(* are never changed.                                                      *)
(***************************************************************************)
LocationRow == [at : Nat, by : [Fields -> Reports \cup {NoReport}]]

Outcomes == {"applied", "failed"}

Sent == [phase : {"idle", "next", "locked"}, batch : Seq(Events), seen : LocationRow \cup {<<>>},
            answers : UNION {[S -> Outcomes] : S \in SUBSET Events}]

ReceiptTypes ==
    \A k \in DOMAIN receipt :
        LET r == receipt[k] IN
        /\ r.event \in Events /\ r.event.key = k
        /\ r.site \in {NoSite, r.event.site} /\ r.status \in Outcomes

RowTypes ==
    /\ applied \in [Reports -> Nat] /\ location \in [Sites -> LocationRow]
    /\ comment \in [Reports -> {"none", "shown", "deleted"}]
    /\ form \in [Reports -> LocationRow \cup {<<>>}]
    /\ removed \subseteq Reports /\ late \in BOOLEAN /\ stale \in BOOLEAN

RequestOf(d) ==
    LET q == sending[d] IN
    /\ q.batch \in Seq(EventsOf[d])
    /\ q.phase = "locked" =>
          q.batch # <<>> /\ Head(q.batch).key \notin DOMAIN receipt /\ q.seen \in LocationRow
    /\ \A e \in DOMAIN q.answers :
          /\ e \in EventsOf[d] /\ e.key \in DOMAIN receipt
          /\ Alike(receipt[e.key].event, e) /\ receipt[e.key].status = q.answers[e]

Requested ==
    /\ sending \in [Devices -> Sent]
    /\ \A d \in Devices : RequestOf(d)
    /\ \A d, d2 \in Devices : sending[d].phase = "locked" /\ sending[d2].phase = "locked" => d = d2

ToldOf(d) ==
    \A e \in EventsOf[d] :
        /\ told[d][e] \in Outcomes =>
              /\ e.key \in DOMAIN receipt
              /\ Alike(receipt[e.key].event, e) /\ receipt[e.key].status = told[d][e]
        /\ told[d][e] = "reused" =>
              /\ e.key \in DOMAIN receipt
              /\ \/ ~(Alike(receipt[e.key].event, e) /\ receipt[e.key].actor = ActorOf[d])
                 \/ receipt[e.key].site = NoSite

Told == DOMAIN told = Devices /\ \A d \in Devices : ToldOf(d)

Counted(e) ==
    /\ e.key \in DOMAIN receipt
    /\ receipt[e.key].event = e /\ receipt[e.key].status = "applied"

EffectsAreCounted == \A e \in Events : applied[e] = IF Counted(e) THEN 1 ELSE 0

\* The row of a location is as late as the latest report of it.
RowsAreLatest ==
    ~late /\ ~stale => \A r \in Reports : r.kind = "location" /\ applied[r] > 0 =>
                                             r.at <= location[r.site].at

CommentsWereNotes == ~stale => \A e \in Reports : comment[e] # "none" => applied[e] > 0

RowsInv ==
    /\ RowTypes /\ RowsAreLatest /\ LocationsShowTheLatest
    /\ CommentsWereNotes /\ RemovedNotesStay

ReportsInv == ReceiptTypes /\ Requested /\ Told /\ EffectsAreCounted /\ RowsInv

LEMMA SitesOfReports ==
    ASSUME NEW r \in Reports
    PROVE  /\ r.site \in Sites /\ r.site # NoSite /\ r.at \in Nat /\ r.sets \subseteq Fields
           /\ r.kind \in {"location", "note", "progress"}
  BY ReportsAssumption DEF Sites, Fields

LEMMA NoBatchIsSent ==
    /\ NoBatch \in Sent /\ NoBatch.phase = "idle" /\ NoBatch.batch = <<>>
    /\ DOMAIN NoBatch.answers = {}
    /\ \A S : NoBatch.batch \in Seq(S)
<1>1. <<>> \in UNION {[S -> Outcomes] : S \in SUBSET Events}
  <2>1. <<>> \in [{} -> Outcomes]
    OBVIOUS
  <2> QED
    BY <2>1
<1> QED
  BY <1>1 DEF NoBatch, Sent

LEMMA ReportsStart == ReportsInit => ReportsInv
<1> SUFFICES ASSUME ReportsInit PROVE ReportsInv
  OBVIOUS
<1>1. /\ receipt = <<>> /\ applied = [r \in Reports |-> 0]
      /\ location = [s \in Sites |-> EmptyRow] /\ comment = [r \in Reports |-> "none"]
      /\ form = [r \in Reports |-> <<>>] /\ sending = [d \in Devices |-> NoBatch]
      /\ told = [d \in Devices |-> [e \in EventsOf[d] |-> "nothing"]]
      /\ removed = {} /\ late = FALSE /\ stale = FALSE
  BY DEF ReportsInit
<1>2. DOMAIN receipt = {}
  BY <1>1
<1>3. ReceiptTypes
  BY <1>2 DEF ReceiptTypes
<1>4. Requested
  BY <1>1, NoBatchIsSent DEF Requested, RequestOf
<1>5. Told
  <2>1. \A d \in Devices : \A e \in EventsOf[d] : told[d][e] = "nothing"
    BY <1>1
  <2> QED
    BY <1>1, <2>1 DEF Told, ToldOf, Outcomes
<1>6. EffectsAreCounted
  BY <1>1, <1>2, ReportsAssumption DEF EffectsAreCounted, Counted
<1>7. EmptyRow \in LocationRow
  BY DEF EmptyRow, LocationRow
<1>8. RowTypes
  BY <1>1, <1>7 DEF RowTypes
<1>9. LocationsShowTheLatest
  <2> SUFFICES ASSUME NEW s \in Sites, NEW f \in Fields
               PROVE  /\ {r \in Reports : r.kind = "location" /\ r.site = s /\ f \in r.sets
                                             /\ applied[r] > 0} = {}
                      /\ location[s].by[f] = NoReport
    BY DEF LocationsShowTheLatest
  <2> QED
    BY <1>1 DEF EmptyRow
<1>10. RowsAreLatest /\ CommentsWereNotes /\ RemovedNotesStay
  BY <1>1 DEF RowsAreLatest, CommentsWereNotes, RemovedNotesStay
<1> QED
  BY <1>3, <1>4, <1>5, <1>6, <1>8, <1>9, <1>10 DEF ReportsInv, RowsInv

(***************************************************************************)
(* What stays as it is.                                                    *)
(***************************************************************************)
LEMMA RowsUnchanged ==
    ASSUME ReportsInv, UNCHANGED <<applied, location, comment, form, removed, late, stale>>
    PROVE  RowsInv'
<1>1. RowsInv
  BY DEF ReportsInv
<1> QED
  BY <1>1 DEF RowsInv, RowTypes, RowsAreLatest, LocationsShowTheLatest, CommentsWereNotes,
              RemovedNotesStay

LEMMA ReceiptsUnchanged ==
    ASSUME ReportsInv, UNCHANGED <<receipt, applied>>
    PROVE  ReceiptTypes' /\ EffectsAreCounted'
  BY DEF ReportsInv, ReceiptTypes, EffectsAreCounted, Counted

LEMMA RequestsUnchanged ==
    ASSUME ReportsInv, UNCHANGED <<sending, receipt>>
    PROVE  Requested'
  BY DEF ReportsInv, Requested, RequestOf

LEMMA ToldUnchanged ==
    ASSUME ReportsInv, UNCHANGED <<told, receipt>>
    PROVE  Told'
  BY DEF ReportsInv, Told, ToldOf

(***************************************************************************)
(* A request changes: to one that holds no lock, or that comes to hold the *)
(* lock that nobody held.                                                  *)
(***************************************************************************)
LEMMA RequestChanges ==
    ASSUME ReportsInv, NEW d \in Devices, UNCHANGED receipt, NEW q \in Sent,
           sending' = [sending EXCEPT ![d] = q],
           q.batch \in Seq(EventsOf[d]),
           q.phase = "locked" =>
              /\ LockIsFree /\ q.batch # <<>> /\ q.seen \in LocationRow
              /\ Head(q.batch).key \notin DOMAIN receipt,
           \A e \in DOMAIN q.answers :
              /\ e \in EventsOf[d] /\ e.key \in DOMAIN receipt
              /\ Alike(receipt[e.key].event, e) /\ receipt[e.key].status = q.answers[e]
    PROVE  Requested'
<1>1. Requested
  BY DEF ReportsInv
<1>2. /\ sending' \in [Devices -> Sent] /\ sending'[d] = q
      /\ \A d2 \in Devices : d2 # d => sending'[d2] = sending[d2]
  BY <1>1 DEF Requested
<1>3. ASSUME NEW d2 \in Devices PROVE RequestOf(d2)'
  <2>1. CASE d2 = d
    BY <1>2, <2>1 DEF RequestOf
  <2>2. CASE d2 # d
    BY <1>1, <1>2, <2>2 DEF Requested, RequestOf
  <2> QED
    BY <2>1, <2>2
<1>4. ASSUME NEW d1 \in Devices, NEW d2 \in Devices,
             sending'[d1].phase = "locked", sending'[d2].phase = "locked"
      PROVE  d1 = d2
  BY <1>1, <1>2, <1>4 DEF Requested, LockIsFree
<1> QED
  BY <1>2, <1>3, <1>4 DEF Requested

LEMMA RequestIsOver ==
    ASSUME ReportsInv, NEW d \in Devices, UNCHANGED receipt,
           sending' = [sending EXCEPT ![d] = NoBatch]
    PROVE  Requested'
  BY NoBatchIsSent, RequestChanges

(***************************************************************************)
(* A device is told something of its events.                               *)
(***************************************************************************)
LEMMA DeviceIsTold ==
    ASSUME ReportsInv, NEW d \in Devices, UNCHANGED receipt, NEW answers, Tells(d, answers),
           \A e \in DOMAIN answers :
              /\ answers[e] \in Outcomes =>
                    /\ e.key \in DOMAIN receipt
                    /\ Alike(receipt[e.key].event, e) /\ receipt[e.key].status = answers[e]
              /\ answers[e] = "reused" =>
                    /\ e.key \in DOMAIN receipt
                    /\ \/ ~(Alike(receipt[e.key].event, e) /\ receipt[e.key].actor = ActorOf[d])
                       \/ receipt[e.key].site = NoSite
    PROVE  Told'
<1>1. Told
  BY DEF ReportsInv
<1>2. /\ DOMAIN told' = Devices
      /\ \A e \in EventsOf[d] :
            told'[d][e] = IF e \in DOMAIN answers THEN answers[e] ELSE told[d][e]
      /\ \A d2 \in Devices : d2 # d => told'[d2] = told[d2]
  BY <1>1 DEF Told, Tells
<1>3. ASSUME NEW d2 \in Devices PROVE ToldOf(d2)'
  <2>1. CASE d2 = d
    <3> SUFFICES ASSUME NEW e \in EventsOf[d]
                 PROVE  /\ told'[d][e] \in Outcomes =>
                              /\ e.key \in DOMAIN receipt
                              /\ Alike(receipt[e.key].event, e) /\ receipt[e.key].status = told'[d][e]
                        /\ told'[d][e] = "reused" =>
                              /\ e.key \in DOMAIN receipt
                              /\ \/ ~(Alike(receipt[e.key].event, e) /\ receipt[e.key].actor = ActorOf[d])
                                 \/ receipt[e.key].site = NoSite
      BY <2>1 DEF ToldOf
    <3>1. CASE e \in DOMAIN answers
      BY <1>2, <3>1
    <3>2. CASE e \notin DOMAIN answers
      BY <1>1, <1>2, <3>2 DEF Told, ToldOf
    <3> QED
      BY <3>1, <3>2
  <2>2. CASE d2 # d
    BY <1>1, <1>2, <2>2 DEF Told, ToldOf
  <2> QED
    BY <2>1, <2>2
<1> QED
  BY <1>2, <1>3 DEF Told

LEMMA HeadAndTail ==
    ASSUME NEW S, NEW b \in Seq(S), b # <<>>
    PROVE  Head(b) \in S /\ Tail(b) \in Seq(S)
  OBVIOUS

\* The event that a request is at.
LEMMA CurrentIsCollected ==
    ASSUME ReportsInv, NEW d \in Devices, sending[d].batch # <<>>
    PROVE  /\ Current(d) \in EventsOf[d] /\ Current(d) \in Events /\ Current(d) \in Reports
           /\ Current(d).site \in Sites /\ Current(d).site # NoSite
           /\ Tail(sending[d].batch) \in Seq(EventsOf[d]) /\ Tail(sending[d].batch) \in Seq(Events)
<1>1. sending[d] \in Sent /\ sending[d].batch \in Seq(EventsOf[d])
  BY DEF ReportsInv, Requested, RequestOf
<1>2. sending[d].batch \in Seq(Events)
  BY <1>1 DEF Sent
<1>3. Current(d) \in EventsOf[d] /\ Tail(sending[d].batch) \in Seq(EventsOf[d])
  BY <1>1, HeadAndTail DEF Current
<1>4. Current(d) \in Events /\ Current(d) \in Reports
  BY <1>3, ReportsAssumption
<1>5. Tail(sending[d].batch) \in Seq(Events)
  BY <1>2, HeadAndTail
<1>6. Current(d).site \in Sites /\ Current(d).site # NoSite
  BY <1>4, SitesOfReports
<1> QED
  BY <1>3, <1>4, <1>5, <1>6

LEMMA RequestGoesOn ==
    ASSUME ReportsInv, NEW d \in Devices, sending[d].batch # <<>>, NEW answer \in Outcomes,
           Goes(d, answer),
           \A d2 \in Devices : d2 # d => sending[d2].phase # "locked",
           \A k \in DOMAIN receipt :
              /\ k \in DOMAIN receipt' /\ receipt'[k].event = receipt[k].event
              /\ receipt'[k].status = receipt[k].status,
           Current(d).key \in DOMAIN receipt', Alike(receipt'[Current(d).key].event, Current(d)),
           receipt'[Current(d).key].status = answer
    PROVE  Requested'
<1>1. Requested
  BY DEF ReportsInv
<1>2. PICK c \in EventsOf[d] : c = Current(d) /\ c \in Events
  BY CurrentIsCollected
<1> DEFINE q == sending[d]
           more == [e \in DOMAIN q.answers \cup {c} |-> IF e = c THEN answer ELSE q.answers[e]]
<1>3. q \in Sent
  BY <1>1 DEF Requested
<1>4. /\ sending'[d] = [q EXCEPT !.phase = "next", !.batch = Tail(q.batch), !.seen = <<>>,
                                 !.answers = more]
      /\ DOMAIN sending' = Devices /\ sending' = [d2 \in Devices |-> sending'[d2]]
      /\ \A d2 \in Devices : d2 # d => sending'[d2] = sending[d2]
  BY <1>1, <1>2 DEF Goes, Requested
<1>5. /\ Tail(q.batch) \in Seq(EventsOf[d]) /\ Tail(q.batch) \in Seq(Events)
  BY CurrentIsCollected
<1>6. more \in UNION {[S -> Outcomes] : S \in SUBSET Events}
  <2>1. PICK S \in SUBSET Events : q.answers \in [S -> Outcomes]
    BY <1>3 DEF Sent
  <2>2. DOMAIN more \in SUBSET Events /\ more \in [DOMAIN more -> Outcomes]
    BY <1>2, <2>1
  <2> QED
    BY <2>2
<1>7. /\ DOMAIN more = DOMAIN q.answers \cup {c} /\ more[c] = answer
      /\ \A e \in DOMAIN q.answers : e # c => more[e] = q.answers[e]
  OBVIOUS
<1> HIDE DEF more
<1>8. /\ sending'[d] \in Sent /\ sending'[d].phase = "next"
      /\ sending'[d].batch = Tail(q.batch) /\ sending'[d].answers = more
  <2> HIDE DEF q
  <2> QED
    BY <1>3, <1>4, <1>5, <1>6 DEF Sent
<1>9. sending' \in [Devices -> Sent]
  <2>1. \A d2 \in Devices : sending'[d2] \in Sent
    BY <1>1, <1>4, <1>8 DEF Requested
  <2> QED
    BY <1>4, <2>1
<1>10. ASSUME NEW d2 \in Devices PROVE RequestOf(d2)'
  <2>1. CASE d2 = d
    <3>1. \A e \in DOMAIN q.answers :
             /\ e \in EventsOf[d] /\ e.key \in DOMAIN receipt
             /\ Alike(receipt[e.key].event, e) /\ receipt[e.key].status = q.answers[e]
      BY <1>1 DEF Requested, RequestOf
    <3>2. ASSUME NEW e \in DOMAIN more
          PROVE  /\ e \in EventsOf[d] /\ e.key \in DOMAIN receipt'
                 /\ Alike(receipt'[e.key].event, e) /\ receipt'[e.key].status = more[e]
      <4>1. CASE e = c
        BY <1>2, <1>7, <4>1
      <4>2. CASE e # c
        BY <1>7, <3>1, <4>2
      <4> QED
        BY <4>1, <4>2
    <3> QED
      BY <1>5, <1>8, <2>1, <3>2 DEF RequestOf
  <2>2. CASE d2 # d
    BY <1>1, <1>4, <2>2 DEF Requested, RequestOf
  <2> QED
    BY <2>1, <2>2
<1>11. \A d1, d2 \in Devices : sending'[d1].phase = "locked" /\ sending'[d2].phase = "locked"
                                  => d1 = d2
  BY <1>4, <1>8
<1> QED
  BY <1>9, <1>10, <1>11 DEF Requested

LEMMA EventIsReceived ==
    ASSUME ReportsInv, NEW d \in Devices, sending[d].batch # <<>>,
           Current(d).key \notin DOMAIN receipt,
           NEW site \in {NoSite, Current(d).site}, NEW status \in Outcomes,
           Receives(d, site, status), UNCHANGED told
    PROVE  /\ ReceiptTypes' /\ Told'
           /\ \A k \in DOMAIN receipt : k \in DOMAIN receipt' /\ receipt'[k] = receipt[k]
           /\ Current(d).key \in DOMAIN receipt' /\ Alike(receipt'[Current(d).key].event, Current(d))
           /\ receipt'[Current(d).key].status = status
           /\ \A e \in Events : Counted(e)' <=> Counted(e) \/ (e = Current(d) /\ status = "applied")
<1>1. ReceiptTypes /\ Told
  BY DEF ReportsInv
<1>2. PICK c \in EventsOf[d] : c = Current(d) /\ c \in Events /\ c.site \in Sites
  BY CurrentIsCollected
<1>3. /\ DOMAIN receipt' = DOMAIN receipt \cup {c.key}
      /\ receipt'[c.key] = [actor |-> ActorOf[d], event |-> c, site |-> site, status |-> status]
      /\ \A k \in DOMAIN receipt : receipt'[k] = receipt[k]
  BY <1>2 DEF Receives
<1>4. ReceiptTypes'
  BY <1>1, <1>2, <1>3 DEF ReceiptTypes
<1>5. Told'
  BY <1>1, <1>3 DEF Told, ToldOf
<1>6. ASSUME NEW e \in Events
      PROVE  Counted(e)' <=> Counted(e) \/ (e = c /\ status = "applied")
  <2>1. CASE e.key = c.key
    BY <1>2, <1>3, <2>1 DEF Counted
  <2>2. CASE e.key # c.key
    BY <1>3, <2>2 DEF Counted
  <2> QED
    BY <2>1, <2>2
<1>7. Alike(c, c)
  BY DEF Alike
<1> QED
  BY <1>2, <1>3, <1>4, <1>5, <1>6, <1>7

(***************************************************************************)
(* The effect of a report; one that becomes a comment had none yet.        *)
(***************************************************************************)
LEMMA ReportHasEffect ==
    ASSUME ReportsInv, NEW r \in Reports, applied[r] = 0 \/ r.kind # "note", NEW row \in LocationRow,
           Effect(r, row), NEW form2, form' = form2, form2 \in [Reports -> LocationRow \cup {<<>>}],
           UNCHANGED removed
    PROVE  /\ RowsInv' /\ applied'[r] = applied[r] + 1
           /\ \A r2 \in Reports : r2 # r => applied'[r2] = applied[r2]
<1>1. /\ RowTypes /\ RowsAreLatest /\ LocationsShowTheLatest /\ CommentsWereNotes
      /\ RemovedNotesStay
  BY DEF ReportsInv, RowsInv
<1>2. PICK site \in Sites : site = r.site
  BY SitesOfReports
<1>3. /\ r.at \in Nat /\ r.sets \subseteq Fields
      /\ \A s \in Sites : location[s] \in LocationRow /\ location[s].at \in Nat
  BY <1>1, SitesOfReports DEF RowTypes, LocationRow
<1>4. /\ applied' \in [Reports -> Nat] /\ applied'[r] = applied[r] + 1
      /\ \A r2 \in Reports : r2 # r => applied'[r2] = applied[r2]
  BY <1>1 DEF RowTypes, Effect
<1>5. ASSUME NEW r2 \in Reports PROVE applied'[r2] > 0 <=> applied[r2] > 0 \/ r2 = r
  <2>1. applied[r] \in Nat /\ applied'[r] > 0
    BY <1>1, <1>4 DEF RowTypes
  <2> QED
    BY <1>4, <2>1
<1>6. /\ Filled(row, r) \in LocationRow /\ Filled(row, r).at = r.at
      /\ \A f \in Fields : Filled(row, r).by[f] = IF f \in r.sets THEN r ELSE row.by[f]
  BY <1>3 DEF Filled, LocationRow
<1>7. /\ r.kind = "location" =>
            /\ location' = [location EXCEPT ![site] = Filled(row, r)]
            /\ late' = (late \/ r.at < location[site].at)
            /\ stale' = (stale \/ row # location[site])
      /\ r.kind # "location" => UNCHANGED <<location, late, stale>>
      /\ comment' = IF r.kind = "note" THEN [comment EXCEPT ![r] = "shown"] ELSE comment
  BY <1>2 DEF Effect
<1>8. RowTypes'
  <2>1. location' \in [Sites -> LocationRow]
    BY <1>1, <1>6, <1>7 DEF RowTypes
  <2>2. comment' \in [Reports -> {"none", "shown", "deleted"}]
    BY <1>1, <1>7 DEF RowTypes
  <2>3. late' \in BOOLEAN /\ stale' \in BOOLEAN
    BY <1>1, <1>7 DEF RowTypes
  <2> QED
    BY <1>1, <1>4, <2>1, <2>2, <2>3 DEF RowTypes
<1>9. stale => stale'
  BY <1>7
<1>10. RowsAreLatest' /\ LocationsShowTheLatest'
  <2>1. CASE r.kind = "location"
    <3> SUFFICES ASSUME ~late', ~stale' PROVE RowsAreLatest' /\ LocationsShowTheLatest'
      BY DEF RowsAreLatest, LocationsShowTheLatest
    <3>1. ~late /\ ~stale /\ row = location[site] /\ location[site].at <= r.at
      <4>1. late \in BOOLEAN /\ stale \in BOOLEAN
        BY <1>1 DEF RowTypes
      <4>2. ~late /\ ~stale /\ row = location[site] /\ ~(r.at < location[site].at)
        BY <1>7, <2>1, <4>1
      <4> QED
        BY <1>3, <4>2
    <3>2. /\ location'[site] = Filled(row, r)
          /\ \A s \in Sites : s # site => location'[s] = location[s]
      BY <1>1, <1>7, <2>1 DEF RowTypes
    <3>3. ASSUME NEW r2 \in Reports, r2.kind = "location", applied'[r2] > 0
          PROVE  r2.at <= location'[r2.site].at
      <4>0. r2.at \in Nat /\ r2.site \in Sites
        BY SitesOfReports
      <4>1. CASE r2.site # site
        <5>1. r2 # r
          BY <1>2, <4>1
        <5>2. r2.at <= location[r2.site].at
          BY <1>1, <1>5, <3>1, <3>3, <5>1 DEF RowsAreLatest
        <5> QED
          BY <3>2, <4>0, <4>1, <5>2
      <4>2. CASE r2.site = site /\ r2 # r
        <5>1. r2.at <= location[site].at
          BY <1>1, <1>5, <3>1, <3>3, <4>2 DEF RowsAreLatest
        <5>2. r2.at <= r.at
          BY <1>3, <3>1, <4>0, <5>1
        <5> QED
          BY <1>6, <3>2, <4>2, <5>2
      <4>3. CASE r2 = r
        BY <1>2, <1>3, <1>6, <3>2, <4>3
      <4> QED
        BY <4>1, <4>2, <4>3
    <3>4. RowsAreLatest'
      BY <3>3 DEF RowsAreLatest
    <3>5. ASSUME NEW s \in Sites, NEW f \in Fields
          PROVE  LET made == {r2 \in Reports : /\ r2.kind = "location" /\ r2.site = s
                                              /\ f \in r2.sets /\ applied'[r2] > 0}
                     shown == location'[s].by[f]
                 IN  IF made = {} THEN shown = NoReport
                     ELSE shown \in made /\ \A r2 \in made : r2.at <= shown.at
      <4> DEFINE made == {r2 \in Reports : /\ r2.kind = "location" /\ r2.site = s
                                           /\ f \in r2.sets /\ applied'[r2] > 0}
                 before == {r2 \in Reports : /\ r2.kind = "location" /\ r2.site = s
                                             /\ f \in r2.sets /\ applied[r2] > 0}
      <4>1. IF before = {} THEN location[s].by[f] = NoReport
            ELSE location[s].by[f] \in before
                 /\ \A r2 \in before : r2.at <= location[s].by[f].at
        BY <1>1, <3>1 DEF LocationsShowTheLatest
      <4>2. CASE s = site /\ f \in r.sets
        <5>1. location'[s].by[f] = r
          BY <1>6, <3>2, <4>2
        <5>2. r \in made
          BY <1>2, <1>5, <2>1, <4>2
        <5>3. \A r2 \in made : r2.at <= r.at
          BY <1>6, <3>2, <3>3, <4>2
        <5> QED
          BY <5>1, <5>2, <5>3
      <4>3. CASE ~(s = site /\ f \in r.sets)
        <5>1. made = before
          BY <1>2, <1>5, <4>3
        <5>2. location'[s].by[f] = location[s].by[f]
          BY <1>6, <3>1, <3>2, <4>3
        <5> QED
          BY <4>1, <5>1, <5>2
      <4> QED
        BY <4>2, <4>3
    <3>6. LocationsShowTheLatest'
      BY <3>5 DEF LocationsShowTheLatest
    <3> QED
      BY <3>4, <3>6
  <2>2. CASE r.kind # "location"
    <3>1. UNCHANGED <<location, late, stale>>
      BY <1>7, <2>2
    <3>2. RowsAreLatest'
      BY <1>1, <1>5, <2>2, <3>1 DEF RowsAreLatest
    <3>3. ASSUME NEW s \in Sites, NEW f \in Fields
          PROVE  {r2 \in Reports : /\ r2.kind = "location" /\ r2.site = s
                                   /\ f \in r2.sets /\ applied'[r2] > 0}
                 = {r2 \in Reports : /\ r2.kind = "location" /\ r2.site = s
                                     /\ f \in r2.sets /\ applied[r2] > 0}
      BY <1>5, <2>2
    <3>4. LocationsShowTheLatest'
      BY <1>1, <3>1, <3>3 DEF LocationsShowTheLatest
    <3> QED
      BY <3>2, <3>4
  <2> QED
    BY <2>1, <2>2
<1>11. CommentsWereNotes'
  BY <1>1, <1>5, <1>7, <1>9 DEF RowTypes, CommentsWereNotes
<1>12. RemovedNotesStay'
  <2> SUFFICES ASSUME ~stale', NEW e \in removed PROVE comment'[e] = "deleted"
    BY DEF RemovedNotesStay
  <2>1. e \in Reports /\ comment[e] = "deleted"
    BY <1>1, <1>9 DEF RowTypes, RemovedNotesStay
  <2>2. applied[e] > 0
    BY <1>1, <1>9, <2>1 DEF CommentsWereNotes
  <2>3. e # r \/ r.kind # "note"
    BY <2>2
  <2> QED
    BY <1>1, <1>7, <2>1, <2>3 DEF RowTypes
<1> QED
  BY <1>4, <1>8, <1>10, <1>11, <1>12 DEF RowsInv

(***************************************************************************)
(* The steps of a device's request.                                        *)
(***************************************************************************)
\* What does not touch rows or receipts.
LEMMA OnlyTheRequest ==
    ASSUME ReportsInv, UNCHANGED <<rowVars, form>>, Requested', Told'
    PROVE  ReportsInv'
  BY RowsUnchanged, ReceiptsUnchanged DEF rowVars, ReportsInv

LEMMA BatchesAreOfTheDevice ==
    ASSUME NEW d \in Devices, NEW b \in Batches(d)
    PROVE  b \in Seq(EventsOf[d]) /\ b \in Seq(Events) /\ b # <<>>
<1>1. PICK m \in 0 .. 2 : b \in [1 .. m -> EventsOf[d]]
  BY DEF Batches, SeqOf
<1>2. b \in [1 .. m -> Events]
  BY <1>1, ReportsAssumption
<1> QED
  BY <1>1, <1>2, SeqDef DEF Batches

LEMMA BatchIsSent ==
    ASSUME ReportsInv, NEW d \in Devices, NEW b \in Batches(d), Send(d, b)
    PROVE  ReportsInv'
<1> DEFINE q == [NoBatch EXCEPT !.phase = "next", !.batch = b]
<1>1. /\ sending' = [sending EXCEPT ![d] = q] /\ UNCHANGED <<rowVars, form, told>>
  BY DEF Send
<1>2. q \in Sent /\ q.batch = b /\ q.phase = "next" /\ DOMAIN q.answers = {}
  BY NoBatchIsSent, BatchesAreOfTheDevice DEF Sent, NoBatch
<1> HIDE DEF q
<1>3. UNCHANGED receipt
  BY <1>1 DEF rowVars
<1>4. Requested'
  BY <1>1, <1>2, <1>3, RequestChanges, BatchesAreOfTheDevice
<1>5. Told'
  BY <1>1, <1>3, ToldUnchanged
<1> QED
  BY <1>1, <1>4, <1>5, OnlyTheRequest

LEMMA RequestIsAnswered ==
    ASSUME ReportsInv, NEW d \in Devices, Answer(d)
    PROVE  ReportsInv'
<1>1. /\ sending' = [sending EXCEPT ![d] = NoBatch] /\ UNCHANGED <<rowVars, form, receipt>>
      /\ Tells(d, sending[d].answers)
  BY DEF Answer, rowVars
<1>2. Requested'
  BY <1>1, RequestIsOver
<1>3. PICK answers : answers = sending[d].answers
  OBVIOUS
<1>4. ASSUME NEW e \in DOMAIN answers
      PROVE  /\ e.key \in DOMAIN receipt /\ Alike(receipt[e.key].event, e)
             /\ receipt[e.key].status = answers[e] /\ answers[e] # "reused"
  <2>1. /\ e.key \in DOMAIN receipt /\ Alike(receipt[e.key].event, e)
        /\ receipt[e.key].status = answers[e]
    BY <1>3 DEF ReportsInv, Requested, RequestOf
  <2>2. receipt[e.key].status \in Outcomes
    BY <2>1 DEF ReportsInv, ReceiptTypes
  <2> QED
    BY <2>1, <2>2 DEF Outcomes
<1>5. Told'
  BY <1>1, <1>3, <1>4, DeviceIsTold
<1> QED
  BY <1>1, <1>2, <1>5, OnlyTheRequest

LEMMA RequestBreaks ==
    ASSUME ReportsInv, NEW d \in Devices, Breaks(d)
    PROVE  ReportsInv'
<1>1. /\ sending' = [sending EXCEPT ![d] = NoBatch] /\ UNCHANGED <<rowVars, form, receipt, told>>
  BY DEF Breaks, rowVars
<1> QED
  BY <1>1, RequestIsOver, ToldUnchanged, OnlyTheRequest

\* A key is called reused if its receipt is of another event, another user or no task.
LEMMA RequestAborts ==
    ASSUME ReportsInv, NEW d \in Devices,
           NotAMember(d) \/ KeyReused(d) \/ ReplayForbidden(d)
    PROVE  ReportsInv'
<1>1. PICK c \in Events : c = Current(d) /\ sending[d].batch # <<>> /\ c.site # NoSite
  BY CurrentIsCollected DEF NotAMember, KeyReused, ReplayForbidden, Known, Takes
<1>2. PICK answer \in {"forbidden", "reused"} :
         /\ Aborts(d, answer)
         /\ answer = "reused" => c.key \in DOMAIN receipt /\ ~SameEvent(d, c)
  BY <1>1 DEF NotAMember, KeyReused, ReplayForbidden, Known
<1>3. /\ sending' = [sending EXCEPT ![d] = NoBatch] /\ UNCHANGED <<rowVars, form, receipt>>
      /\ Tells(d, [e \in {c} |-> answer])
  BY <1>1, <1>2 DEF Aborts, rowVars
<1>4. Requested'
  BY <1>3, RequestIsOver
<1>5. answer = "reused" =>
         /\ c.key \in DOMAIN receipt
         /\ \/ ~(Alike(receipt[c.key].event, c) /\ receipt[c.key].actor = ActorOf[d])
            \/ receipt[c.key].site = NoSite
  BY <1>2 DEF SameEvent, Alike, ReportsInv, ReceiptTypes
<1>6. answer \notin Outcomes
  BY DEF Outcomes
<1>7. Told'
  <2> DEFINE answers == [e \in {c} |-> answer]
  <2>1. \A e \in DOMAIN answers : e = c /\ answers[e] = answer
    OBVIOUS
  <2>2. Tells(d, answers)
    BY <1>3
  <2> HIDE DEF answers
  <2> QED
    BY <1>3, <1>5, <1>6, <2>1, <2>2, DeviceIsTold
<1> QED
  BY <1>3, <1>4, <1>7, OnlyTheRequest

LEMMA EventIsReplayed ==
    ASSUME ReportsInv, NEW d \in Devices, Replay(d)
    PROVE  ReportsInv'
<1>1. /\ sending[d].batch # <<>> /\ LockIsFree
      /\ Current(d).key \in DOMAIN receipt /\ Alike(receipt[Current(d).key].event, Current(d))
      /\ Goes(d, receipt[Current(d).key].status)
      /\ UNCHANGED <<rowVars, form, receipt, told>>
  BY DEF Replay, Known, Takes, SameEvent, rowVars
<1>2. PICK answer \in Outcomes : answer = receipt[Current(d).key].status
  BY <1>1 DEF ReportsInv, ReceiptTypes
<1>3. Requested'
  BY <1>1, <1>2, RequestGoesOn DEF LockIsFree
<1> QED
  BY <1>1, <1>3, ToldUnchanged, OnlyTheRequest

LEMMA EventLocks ==
    ASSUME ReportsInv, NEW d \in Devices, Locks(d)
    PROVE  ReportsInv'
<1>1. /\ sending[d].batch # <<>> /\ LockIsFree /\ Current(d).key \notin DOMAIN receipt
      /\ sending' = [sending EXCEPT ![d].phase = "locked",
                                    ![d].seen = location[Current(d).site]]
      /\ UNCHANGED <<rowVars, form, receipt, told>>
  BY DEF Locks, Unknown, Takes, rowVars
<1>2. PICK seen \in LocationRow : seen = location[Current(d).site]
  BY <1>1, CurrentIsCollected DEF ReportsInv, RowsInv, RowTypes
<1>3. sending \in [Devices -> Sent] /\ RequestOf(d)
  BY DEF ReportsInv, Requested
<1> DEFINE q == [sending[d] EXCEPT !.phase = "locked", !.seen = seen]
<1>4. sending' = [sending EXCEPT ![d] = q]
  BY <1>1, <1>2, <1>3
<1>5. /\ q \in Sent /\ q.phase = "locked" /\ q.seen = seen
      /\ q.batch = sending[d].batch /\ q.answers = sending[d].answers
  <2>1. PICK p \in Sent : p = sending[d]
    BY <1>3
  <2>2. [p EXCEPT !.phase = "locked", !.seen = seen] \in Sent
    BY DEF Sent
  <2> QED
    BY <2>1, <2>2 DEF Sent
<1> HIDE DEF q
<1>6. /\ q.batch \in Seq(EventsOf[d]) /\ q.batch # <<>>
      /\ Head(q.batch).key \notin DOMAIN receipt
      /\ \A e \in DOMAIN q.answers :
            /\ e \in EventsOf[d] /\ e.key \in DOMAIN receipt
            /\ Alike(receipt[e.key].event, e) /\ receipt[e.key].status = q.answers[e]
  BY <1>1, <1>3, <1>5 DEF RequestOf, Current
<1>7. Requested'
  BY <1>1, <1>4, <1>5, <1>6, RequestChanges
<1> QED
  BY <1>1, <1>7, ToldUnchanged, OnlyTheRequest

\* An event is refused before its task is found, or after its effect was rolled back.
LEMMA EventFails ==
    ASSUME ReportsInv, NEW d \in Devices, NotTheirs(d) \/ Fail(d)
    PROVE  ReportsInv'
<1>1. sending[d].batch # <<>> /\ Current(d).key \notin DOMAIN receipt
  BY DEF NotTheirs, Unknown, Takes, Fail, ReportsInv, Requested, RequestOf, Current
<1>2. \A d2 \in Devices : d2 # d => sending[d2].phase # "locked"
  BY DEF NotTheirs, Unknown, Takes, LockIsFree, Fail, ReportsInv, Requested
<1>3. PICK site \in {NoSite, Current(d).site} : Receives(d, site, "failed")
  BY DEF NotTheirs, Fail
<1>4. /\ Goes(d, "failed")
      /\ UNCHANGED <<applied, location, comment, form, removed, late, stale, told>>
  BY DEF NotTheirs, Fail, FailedEffect, NoEffect
<1>5. "failed" \in Outcomes
  BY DEF Outcomes
<1>6. /\ ReceiptTypes' /\ Told'
      /\ \A k \in DOMAIN receipt : k \in DOMAIN receipt' /\ receipt'[k] = receipt[k]
      /\ Current(d).key \in DOMAIN receipt' /\ Alike(receipt'[Current(d).key].event, Current(d))
      /\ receipt'[Current(d).key].status = "failed"
      /\ \A e \in Events : Counted(e)' <=> Counted(e)
  BY <1>1, <1>3, <1>4, <1>5, EventIsReceived
<1>7. Requested'
  BY <1>1, <1>2, <1>4, <1>5, <1>6, RequestGoesOn
<1>8. EffectsAreCounted'
  BY <1>4, <1>6 DEF ReportsInv, EffectsAreCounted
<1>9. RowsInv'
  BY <1>4, RowsUnchanged
<1> QED
  BY <1>6, <1>7, <1>8, <1>9 DEF ReportsInv

\* An event is applied: for the first time, as there was no receipt of it.
LEMMA EventIsApplied ==
    ASSUME ReportsInv, NEW d \in Devices, Apply(d)
    PROVE  ReportsInv'
<1>1. /\ sending[d].batch # <<>> /\ Current(d).key \notin DOMAIN receipt
      /\ sending[d].seen \in LocationRow
  BY DEF Apply, ReportsInv, Requested, RequestOf, Current
<1>2. \A d2 \in Devices : d2 # d => sending[d2].phase # "locked"
  BY DEF Apply, ReportsInv, Requested
<1>3. /\ Receives(d, Current(d).site, "applied") /\ Goes(d, "applied")
      /\ Effect(Current(d), sending[d].seen) /\ UNCHANGED <<form, removed, told>>
  BY DEF Apply
<1>4. "applied" \in Outcomes
  BY DEF Outcomes
<1>5. PICK c \in Events : c = Current(d) /\ c \in Reports
  BY <1>1, CurrentIsCollected
<1>6. /\ ReceiptTypes' /\ Told'
      /\ \A k \in DOMAIN receipt : k \in DOMAIN receipt' /\ receipt'[k] = receipt[k]
      /\ Current(d).key \in DOMAIN receipt' /\ Alike(receipt'[Current(d).key].event, Current(d))
      /\ receipt'[Current(d).key].status = "applied"
      /\ \A e \in Events : Counted(e)' <=> Counted(e) \/ e = c
  BY <1>1, <1>3, <1>4, <1>5, EventIsReceived
<1>7. Requested'
  BY <1>1, <1>2, <1>3, <1>4, <1>6, RequestGoesOn
<1>8. applied[c] = 0
  BY <1>1, <1>5 DEF ReportsInv, EffectsAreCounted, Counted
<1>9. PICK row \in LocationRow : row = sending[d].seen
  BY <1>1
<1>10. /\ RowsInv' /\ applied'[c] = applied[c] + 1
       /\ \A r \in Reports : r # c => applied'[r] = applied[r]
  <2>1. form \in [Reports -> LocationRow \cup {<<>>}] /\ form' = form
    BY <1>3 DEF ReportsInv, RowsInv, RowTypes
  <2> QED
    BY <1>3, <1>5, <1>8, <1>9, <2>1, ReportHasEffect
<1>11. EffectsAreCounted'
  <2> SUFFICES ASSUME NEW e \in Events
               PROVE  applied'[e] = IF Counted(e)' THEN 1 ELSE 0
    BY DEF EffectsAreCounted
  <2>1. CASE e = c
    BY <1>6, <1>8, <1>10, <2>1
  <2>2. CASE e # c
    BY <1>6, <1>10, <2>2, ReportsAssumption DEF ReportsInv, EffectsAreCounted
  <2> QED
    BY <2>1, <2>2
<1> QED
  BY <1>6, <1>7, <1>10, <1>11 DEF ReportsInv

(***************************************************************************)
(* Forms.                                                                  *)
(***************************************************************************)
LEMMA FormOpensOrCloses ==
    ASSUME ReportsInv, NEW r \in Reports, LoadForm(r) \/ DropForm(r) \/ LoadComment(r)
    PROVE  ReportsInv'
<1>1. /\ RowTypes /\ RowsInv
  BY DEF ReportsInv, RowsInv
<1>2. EmptyRow \in LocationRow /\ location[r.site] \in LocationRow
  BY <1>1, SitesOfReports DEF EmptyRow, LocationRow, RowTypes
<1>3. /\ form' \in [Reports -> LocationRow \cup {<<>>}]
      /\ UNCHANGED <<rowVars, sending, told>>
  BY <1>1, <1>2 DEF LoadForm, DropForm, LoadComment, RowTypes
<1>4. RowsInv'
  BY <1>1, <1>3 DEF rowVars, RowsInv, RowTypes, RowsAreLatest, LocationsShowTheLatest,
                    CommentsWereNotes, RemovedNotesStay
<1>5. Requested' /\ Told' /\ ReceiptTypes' /\ EffectsAreCounted'
  BY <1>3, RequestsUnchanged, ToldUnchanged, ReceiptsUnchanged DEF rowVars
<1> QED
  BY <1>4, <1>5 DEF ReportsInv

LEMMA FormIsSaved ==
    ASSUME ReportsInv, NEW r \in Reports, SaveForm(r)
    PROVE  ReportsInv'
<1>1. /\ r \in Forms /\ form[r] # <<>> /\ r.kind = "location" /\ Effect(r, form[r])
      /\ form' = [form EXCEPT ![r] = <<>>] /\ UNCHANGED <<receipt, removed, sending, told>>
  BY DEF SaveForm
<1>2. form \in [Reports -> LocationRow \cup {<<>>}]
  BY DEF ReportsInv, RowsInv, RowTypes
<1>3. PICK row \in LocationRow : row = form[r]
  BY <1>1, <1>2
<1>4. form' \in [Reports -> LocationRow \cup {<<>>}]
  BY <1>1, <1>2
<1>5. RowsInv' /\ \A r2 \in Reports : r2 # r => applied'[r2] = applied[r2]
  BY <1>1, <1>3, <1>4, ReportHasEffect
<1>6. EffectsAreCounted'
  BY <1>1, <1>5, ReportsAssumption DEF ReportsInv, EffectsAreCounted, Counted, Forms
<1>7. Requested' /\ Told' /\ ReceiptTypes'
  BY <1>1, RequestsUnchanged, ToldUnchanged DEF ReportsInv, ReceiptTypes
<1> QED
  BY <1>5, <1>6, <1>7 DEF ReportsInv

LEMMA CommentChanges ==
    ASSUME ReportsInv, NEW r \in Reports, UpdateComment(r) \/ DeleteComment(r)
    PROVE  ReportsInv'
<1>1. RowTypes /\ RowsAreLatest /\ LocationsShowTheLatest /\ CommentsWereNotes /\ RemovedNotesStay
  BY DEF ReportsInv, RowsInv
<1>2. UNCHANGED <<receipt, applied, location, late, sending, told>>
  BY DEF UpdateComment, DeleteComment
<1>3. Requested' /\ Told' /\ ReceiptTypes' /\ EffectsAreCounted'
  BY <1>2, RequestsUnchanged, ToldUnchanged, ReceiptsUnchanged
<1>4. CASE UpdateComment(r)
  <2>1. /\ form' = [form EXCEPT ![r] = <<>>] /\ comment' = [comment EXCEPT ![r] = "shown"]
        /\ stale' = (stale \/ comment[r] # "shown") /\ removed' = removed
    BY <1>4 DEF UpdateComment
  <2>2. RowTypes'
    BY <1>1, <1>2, <2>1 DEF RowTypes
  <2>3. ~stale' => ~stale /\ comment[r] = "shown" /\ comment' = comment
    BY <1>1, <2>1 DEF RowTypes
  <2>4. RowsAreLatest' /\ LocationsShowTheLatest'
    BY <1>1, <1>2, <2>3 DEF RowsAreLatest, LocationsShowTheLatest
  <2>5. CommentsWereNotes' /\ RemovedNotesStay'
    BY <1>1, <1>2, <2>1, <2>3 DEF CommentsWereNotes, RemovedNotesStay
  <2> QED
    BY <1>3, <2>2, <2>4, <2>5 DEF ReportsInv, RowsInv
<1>5. CASE DeleteComment(r)
  <2>1. /\ comment[r] = "shown" /\ comment' = [comment EXCEPT ![r] = "deleted"]
        /\ removed' = removed \cup {r} /\ form' = form /\ stale' = stale
    BY <1>5 DEF DeleteComment
  <2>2. RowTypes'
    BY <1>1, <1>2, <2>1 DEF RowTypes
  <2>3. RowsAreLatest' /\ LocationsShowTheLatest'
    BY <1>1, <1>2, <2>1 DEF RowsAreLatest, LocationsShowTheLatest
  <2>4. CommentsWereNotes' /\ RemovedNotesStay'
    BY <1>1, <1>2, <2>1 DEF RowTypes, CommentsWereNotes, RemovedNotesStay
  <2> QED
    BY <1>3, <2>2, <2>3, <2>4 DEF ReportsInv, RowsInv
<1> QED
  BY <1>4, <1>5

LEMMA ReportsInvariance == ReportsSpec => []ReportsInv
<1>1. ReportsInv /\ [ReportsNext]_reportVars => ReportsInv'
  <2> SUFFICES ASSUME ReportsInv, [ReportsNext]_reportVars PROVE ReportsInv'
    OBVIOUS
  <2>1. ASSUME UNCHANGED <<rowVars, form, sending, told>> PROVE ReportsInv'
    BY <2>1, RequestsUnchanged, ToldUnchanged, OnlyTheRequest DEF rowVars
  <2>2. CASE UNCHANGED reportVars
    BY <2>1, <2>2 DEF reportVars, rowVars
  <2>3. CASE Shift
    BY <2>1, <2>3 DEF Shift
  <2>4. ASSUME NEW d \in Devices, DeviceNext(d) PROVE ReportsInv'
    <3>1. CASE \E b \in Batches(d) : Send(d, b)
      BY <3>1, BatchIsSent
    <3>2. CASE Answer(d) \/ Breaks(d)
      BY <3>2, RequestIsAnswered, RequestBreaks
    <3>3. CASE NotAMember(d) \/ KeyReused(d) \/ ReplayForbidden(d)
      BY <3>3, RequestAborts
    <3>4. CASE Replay(d) \/ Locks(d)
      BY <3>4, EventIsReplayed, EventLocks
    <3>5. CASE NotTheirs(d) \/ Fail(d) \/ Apply(d)
      BY <3>5, EventFails, EventIsApplied
    <3> QED
      BY <2>4, <3>1, <3>2, <3>3, <3>4, <3>5 DEF DeviceNext
  <2>5. ASSUME NEW r \in Reports, FormNext(r) PROVE ReportsInv'
    BY <2>5, FormOpensOrCloses, FormIsSaved, CommentChanges DEF FormNext
  <2> QED
    BY <2>2, <2>3, <2>4, <2>5 DEF ReportsNext
<1> QED
  BY <1>1, ReportsStart, PTL DEF ReportsSpec

\* Reports from the field have their effect once, exactly if their receipts say so; devices
\* are told what the receipts say; and, if none was late or overtaken, locations show the
\* latest report and deleted comments stay deleted.
THEOREM SyncIsAlwaysFaithful == ReportsSpec => []SyncIsFaithful
<1>1. ReportsInv => SyncIsFaithful
  <2> SUFFICES ASSUME ReportsInv PROVE SyncIsFaithful
    OBVIOUS
  <2>1. EffectsMatchReceipts
    <3> SUFFICES ASSUME NEW e \in Events
                 PROVE  applied[e] = IF \E k \in DOMAIN receipt : /\ receipt[k].event = e
                                                                  /\ receipt[k].status = "applied"
                                     THEN 1 ELSE 0
      BY DEF EffectsMatchReceipts
    <3>1. Counted(e) <=> \E k \in DOMAIN receipt :
                            receipt[k].event = e /\ receipt[k].status = "applied"
      BY DEF Counted, ReportsInv, ReceiptTypes
    <3> QED
      BY <3>1 DEF ReportsInv, EffectsAreCounted
  <2>2. AnswersMatchReceipts
    BY DEF ReportsInv, Told, ToldOf, AnswersMatchReceipts, Outcomes
  <2> QED
    BY <2>1, <2>2 DEF ReportsInv, RowsInv, SyncIsFaithful
<1> QED
  BY <1>1, ReportsInvariance, PTL
-----------------------------------------------------------------------------
(***************************************************************************)
(* Documents.                                                              *)
(*                                                                         *)
(* Rows are added and marked, but never taken away and never of another    *)
(* document or object; a document has one active file.                     *)
(***************************************************************************)
Document == [type : Types, owner : Owners, deleted : BOOLEAN, revisions : Nat]

Attachment == [of : Nat, object : Nat, source : Nat, active : BOOLEAN, deleted : BOOLEAN]

FilesInOrder(d) ==
    /\ \A a, b \in ActiveOf(d) : a = b
    /\ Cardinality(AttachmentsOf(d)) <= 1 + document[d].revisions
    /\ \A a \in ActiveOf(d) : ~attachment[a].deleted /\ ~document[d].deleted

Rows ==
    /\ document \in Seq(Document) /\ attachment \in Seq(Attachment)
    /\ \A a \in DOMAIN attachment : attachment[a].of \in DOMAIN document /\ attachment[a].object # 0
    /\ ScopesAreValid
    /\ \A d \in DOMAIN document : FilesInOrder(d)

Objects == {attachment[a].object : a \in DOMAIN attachment}

(***************************************************************************)
(* A request owns the object it has uploaded: it is stored, and neither    *)
(* another request nor a row has it.                                       *)
(***************************************************************************)
Save == [phase : {"idle", "create", "update", "starter"}, type : Types, owner : Owners,
         at : Nat, file : Nat, source : Nat]

Owned(c) ==
    saving[c].file # 0 =>
        /\ saving[c].file \in stored \ Objects
        /\ \A d \in Savers : saving[d].file = saving[c].file => d = c

InProgress(c) ==
    /\ saving[c].phase = "update" => saving[c].at \in DOMAIN document
    /\ saving[c].phase = "starter" => saving[c].source \in DOMAIN attachment /\ saving[c].file = 0
    /\ saving[c].phase = "idle" => saving[c].file = 0

Held ==
    /\ uploads \in Nat /\ stored \subseteq 1 .. uploads
    /\ saving \in [Savers -> Save]
    /\ Objects \subseteq 1 .. uploads
    /\ FilesAreStored /\ NothingIsLeft
    /\ \A c \in Savers : Owned(c) /\ InProgress(c)
    /\ \A e \in evidence : e.file \in DOMAIN attachment

DocumentsInv == Rows /\ Held

LEMMA DocumentsStart == DocumentsInit => DocumentsInv
<1> SUFFICES ASSUME DocumentsInit PROVE DocumentsInv
  OBVIOUS
<1>1. Rows
  BY DEF DocumentsInit, Rows, ScopesAreValid
<1>2. NoSave \in Save
  BY DEF NoSave, Save, Types, Owners
<1>3. Held
  BY <1>2
     DEF DocumentsInit, Held, Objects, FilesAreStored, NothingIsLeft, Owned, InProgress, NoSave
<1> QED
  BY <1>1, <1>3 DEF DocumentsInv

LEMMA FilesFinite ==
    ASSUME Rows, NEW d
    PROVE  IsFiniteSet(AttachmentsOf(d)) /\ Cardinality(AttachmentsOf(d)) \in Nat
<1>1. DOMAIN attachment = 1 .. Len(attachment) /\ Len(attachment) \in Nat
  BY DEF Rows
<1>2. IsFiniteSet(1 .. Len(attachment))
  BY <1>1, FS_Interval
<1>3. AttachmentsOf(d) \subseteq 1 .. Len(attachment)
  BY <1>1 DEF AttachmentsOf
<1> QED
  BY <1>2, <1>3, FS_Subset, FS_CardinalityType

LEMMA FilesTyped ==
    ASSUME Rows
    PROVE  /\ DOMAIN document = 1 .. Len(document) /\ Len(document) \in Nat
           /\ DOMAIN attachment = 1 .. Len(attachment) /\ Len(attachment) \in Nat
           /\ \A d \in DOMAIN document :
                 /\ document[d] \in Document /\ document[d].type \in Types
                 /\ document[d].owner \in Owners /\ document[d].revisions \in Nat
                 /\ document[d].deleted \in BOOLEAN
           /\ \A a \in DOMAIN attachment :
                 /\ attachment[a] \in Attachment
                 /\ attachment[a].of \in DOMAIN document /\ attachment[a].of \in Nat
                 /\ attachment[a].object \in Nat /\ attachment[a].object # 0
                 /\ attachment[a].source \in Nat
                 /\ attachment[a].active \in BOOLEAN /\ attachment[a].deleted \in BOOLEAN
<1>1. \A d \in DOMAIN document : document[d] \in Document
  BY DEF Rows
<1>2. \A a \in DOMAIN attachment : attachment[a] \in Attachment
  BY DEF Rows
<1> QED
  BY <1>1, <1>2 DEF Rows, Document, Attachment

(***************************************************************************)
(* Documents are not taken away, files stay where they are, and whatever   *)
(* objects there are more are these.                                       *)
(***************************************************************************)
Grows(more) ==
    /\ DOMAIN document \subseteq DOMAIN document'
    /\ \A a \in DOMAIN attachment :
          /\ a \in DOMAIN attachment'
          /\ attachment'[a].of = attachment[a].of /\ attachment'[a].object = attachment[a].object
    /\ {attachment'[a].object : a \in DOMAIN attachment'} = Objects \cup more

\* The object of a request without file is 0.
FilesAmong(object) == {object} \ {0}

LEMMA NewFile ==
    ASSUME NEW d \in Nat, NEW object \in Nat, NEW source \in Nat
    PROVE  /\ File(d, object, source) \in Attachment
           /\ File(d, object, source).of = d /\ File(d, object, source).object = object
           /\ File(d, object, source).active /\ ~File(d, object, source).deleted
  BY DEF File, Attachment

\* A new document has the file it comes with, if any.
LEMMA RowsAdded ==
    ASSUME Rows, NEW type \in Types, NEW owner \in Owners, NEW object \in Nat, NEW source \in Nat,
           ValidScope(type, owner), Added(type, owner, object, source)
    PROVE  Rows' /\ Grows(FilesAmong(object))
<1>1. /\ DOMAIN document = 1 .. Len(document) /\ Len(document) \in Nat
      /\ DOMAIN attachment = 1 .. Len(attachment) /\ Len(attachment) \in Nat
      /\ \A a \in DOMAIN attachment : attachment[a].of \in DOMAIN document
  BY FilesTyped
<1>0. PICK n \in Nat, m \in Nat : n = Len(document) + 1 /\ m = Len(attachment) + 1
  BY <1>1
<1> DEFINE f == File(n, object, source)
<1>2. document \in Seq(Document) /\ attachment \in Seq(Attachment)
  BY DEF Rows
<1>3. /\ NewDocument(type, owner) \in Document
      /\ NewDocument(type, owner).type = type /\ NewDocument(type, owner).owner = owner
      /\ NewDocument(type, owner).revisions = 0 /\ ~NewDocument(type, owner).deleted
  BY DEF NewDocument, Document
<1>4. document' = Append(document, NewDocument(type, owner))
  BY DEF Added
<1>5. /\ document' \in Seq(Document) /\ DOMAIN document' = DOMAIN document \cup {n}
      /\ n \notin DOMAIN document /\ document'[n] = NewDocument(type, owner)
      /\ \A d \in DOMAIN document : document'[d] = document[d]
  BY <1>0, <1>1, <1>2, <1>3, <1>4
<1>6. /\ f \in Attachment /\ f.of = n /\ f.object = object /\ f.active /\ ~f.deleted
  BY <1>0, NewFile
<1>7. attachment' = IF object = 0 THEN attachment ELSE Append(attachment, f)
  BY <1>0 DEF Added
<1> HIDE DEF f
<1>8. /\ attachment' \in Seq(Attachment)
      /\ \A a \in DOMAIN attachment : a \in DOMAIN attachment' /\ attachment'[a] = attachment[a]
      /\ m \notin DOMAIN attachment
      /\ DOMAIN attachment' = IF object = 0 THEN DOMAIN attachment ELSE DOMAIN attachment \cup {m}
      /\ object # 0 => attachment'[m] = f
  <2>1. CASE object = 0
    BY <1>0, <1>1, <1>2, <1>7, <2>1
  <2>2. CASE object # 0
    BY <1>0, <1>1, <1>2, <1>6, <1>7, <2>2
  <2> QED
    BY <2>1, <2>2
<1>9. \A d \in DOMAIN document : AttachmentsOf(d)' = AttachmentsOf(d) /\ ActiveOf(d)' = ActiveOf(d)
  BY <1>5, <1>6, <1>8 DEF AttachmentsOf, ActiveOf
<1>10. AttachmentsOf(n)' = IF object = 0 THEN {} ELSE {m}
  BY <1>1, <1>5, <1>6, <1>8 DEF AttachmentsOf
<1>11. Cardinality({}) = 0 /\ Cardinality({m}) = 1
  BY FS_EmptySet, FS_Singleton
<1>12. \A d \in DOMAIN document' : FilesInOrder(d)'
  <2>1. ASSUME NEW d \in DOMAIN document
        PROVE  FilesInOrder(d)'
    <3>1. \A a \in ActiveOf(d) : a \in DOMAIN attachment
      BY DEF ActiveOf, AttachmentsOf
    <3> QED
      BY <1>5, <1>8, <1>9, <3>1 DEF Rows, FilesInOrder
  <2>2. FilesInOrder(n)'
    <3>1. \A a \in ActiveOf(n)' : object # 0 /\ a = m
      BY <1>10 DEF ActiveOf
    <3>2. Cardinality(AttachmentsOf(n)') <= 1
      BY <1>10, <1>11
    <3> QED
      BY <1>3, <1>5, <1>6, <1>8, <3>1, <3>2 DEF FilesInOrder
  <2> QED
    BY <1>5, <2>1, <2>2
<1>13. ScopesAreValid'
  BY <1>3, <1>5 DEF Rows, ScopesAreValid
<1>14. \A a \in DOMAIN attachment' : attachment'[a].of \in DOMAIN document' /\ attachment'[a].object # 0
  BY <1>5, <1>6, <1>8 DEF Rows
<1>15. Rows'
  BY <1>5, <1>8, <1>12, <1>13, <1>14 DEF Rows
<1>16. Grows(FilesAmong(object))
  BY <1>5, <1>6, <1>8 DEF Grows, FilesAmong, Objects
<1> QED
  BY <1>15, <1>16

\* Deleted files are not active.
LEMMA RowsDeleted ==
    ASSUME Rows, NEW as, Tombstones(as),
           \/ UNCHANGED document
           \/ \E d \in DOMAIN document :
                 document' = [document EXCEPT ![d].deleted = TRUE] /\ as = AttachmentsOf(d)
    PROVE  Rows' /\ Grows({})
<1> DEFINE Gone(a) == [attachment[a] EXCEPT !.deleted = TRUE, !.active = FALSE]
<1>1. /\ DOMAIN document = 1 .. Len(document) /\ Len(document) \in Nat
      /\ DOMAIN attachment = 1 .. Len(attachment) /\ Len(attachment) \in Nat
      /\ \A d \in DOMAIN document : document[d] \in Document
      /\ \A a \in DOMAIN attachment : attachment[a] \in Attachment
      /\ \A a \in DOMAIN attachment : attachment[a].of \in DOMAIN document
  BY FilesTyped
<1>2. \A a \in DOMAIN attachment :
          /\ Gone(a) \in Attachment /\ Gone(a).of = attachment[a].of /\ ~Gone(a).active
          /\ Gone(a).object = attachment[a].object
  BY <1>1 DEF Attachment
<1>3. attachment' = [a \in DOMAIN attachment |-> IF a \in as THEN Gone(a) ELSE attachment[a]]
  BY DEF Tombstones
<1> HIDE DEF Gone
<1>4. DOMAIN attachment' = DOMAIN attachment /\ attachment' \in Seq(Attachment)
  <2>1. attachment' \in [1 .. Len(attachment) -> Attachment]
    BY <1>1, <1>2, <1>3
  <2>2. attachment' \in Seq(Attachment)
    BY <1>1, <2>1, SeqDef
  <2> QED
    BY <1>3, <2>2
<1>5. \A a \in DOMAIN attachment :
          /\ attachment'[a].of = attachment[a].of /\ attachment'[a].object = attachment[a].object
          /\ attachment'[a].active => a \notin as /\ attachment'[a] = attachment[a]
  BY <1>2, <1>3
<1>6. /\ document' \in Seq(Document) /\ DOMAIN document' = DOMAIN document
      /\ \A d \in DOMAIN document :
            /\ document'[d].type = document[d].type /\ document'[d].owner = document[d].owner
            /\ document'[d].revisions = document[d].revisions
            /\ document'[d].deleted = document[d].deleted \/ as = AttachmentsOf(d)
  <2>1. CASE UNCHANGED document
    BY <2>1 DEF Rows
  <2>2. ASSUME NEW e \in DOMAIN document,
               document' = [document EXCEPT ![e].deleted = TRUE], as = AttachmentsOf(e)
        PROVE  /\ document' \in Seq(Document) /\ DOMAIN document' = DOMAIN document
               /\ \A d \in DOMAIN document :
                     /\ document'[d].type = document[d].type
                     /\ document'[d].owner = document[d].owner
                     /\ document'[d].revisions = document[d].revisions
                     /\ document'[d].deleted = document[d].deleted \/ as = AttachmentsOf(d)
    <3>1. [document[e] EXCEPT !.deleted = TRUE] \in Document
      BY <1>1 DEF Document
    <3>2. document' \in Seq(Document) /\ DOMAIN document' = DOMAIN document
      BY <1>1, <2>2, <3>1 DEF Rows
    <3>3. \A d \in DOMAIN document :
              document'[d] = IF d = e THEN [document[e] EXCEPT !.deleted = TRUE] ELSE document[d]
      BY <1>1, <2>2
    <3> QED
      BY <1>1, <2>2, <3>2, <3>3 DEF Document
  <2> QED
    BY <2>1, <2>2
<1>7. \A d : AttachmentsOf(d)' = AttachmentsOf(d)
  BY <1>4, <1>5 DEF AttachmentsOf
<1>8. \A d : \A a \in ActiveOf(d)' : a \in ActiveOf(d) /\ a \notin as /\ attachment'[a] = attachment[a]
  BY <1>4, <1>5 DEF ActiveOf, AttachmentsOf
<1>9. \A d \in DOMAIN document' : FilesInOrder(d)'
  <2> SUFFICES ASSUME NEW d \in DOMAIN document'
               PROVE  FilesInOrder(d)'
    OBVIOUS
  <2>1. d \in DOMAIN document /\ FilesInOrder(d)
    BY <1>6 DEF Rows
  <2>2. \A a, b \in ActiveOf(d)' : a = b
    BY <1>8, <2>1 DEF FilesInOrder
  <2>3. Cardinality(AttachmentsOf(d)') <= 1 + document'[d].revisions
    BY <1>6, <1>7, <2>1 DEF FilesInOrder
  <2>4. ASSUME NEW a \in ActiveOf(d)'
        PROVE  ~attachment'[a].deleted /\ ~document'[d].deleted
    <3>1. a \in ActiveOf(d) /\ a \notin as /\ attachment'[a] = attachment[a]
      BY <1>8
    <3>2. a \in AttachmentsOf(d)
      BY <3>1 DEF ActiveOf
    <3> QED
      BY <1>6, <2>1, <3>1, <3>2 DEF FilesInOrder
  <2> QED
    BY <2>2, <2>3, <2>4 DEF FilesInOrder
<1>10. ScopesAreValid'
  BY <1>6 DEF Rows, ScopesAreValid
<1>11. \A a \in DOMAIN attachment' : attachment'[a].of \in DOMAIN document' /\ attachment'[a].object # 0
  BY <1>4, <1>5, <1>6 DEF Rows
<1>12. Rows'
  BY <1>4, <1>6, <1>9, <1>10, <1>11 DEF Rows
<1>13. {attachment'[a].object : a \in DOMAIN attachment'} = Objects
  BY <1>4, <1>5 DEF Objects
<1>14. Grows({})
  BY <1>4, <1>5, <1>6, <1>13 DEF Grows
<1> QED
  BY <1>12, <1>14

\* The new file replaces the active one, and the document has a revision more.
LEMMA RowsUpdated ==
    ASSUME Rows, NEW r \in Save, r.at \in DOMAIN document, SaveUpdate(r)
    PROVE  Rows' /\ Grows(FilesAmong(r.file))
<1> DEFINE new == [document[r.at] EXCEPT !.type = r.type, !.revisions = @ + 1]
           f == File(r.at, r.file, 0)
           Kept(a) == IF attachment[a].of = r.at THEN [attachment[a] EXCEPT !.active = FALSE]
                      ELSE attachment[a]
<1>1. /\ DOMAIN document = 1 .. Len(document) /\ Len(document) \in Nat
      /\ DOMAIN attachment = 1 .. Len(attachment) /\ Len(attachment) \in Nat
      /\ \A d \in DOMAIN document : document[d] \in Document
      /\ \A a \in DOMAIN attachment :
            attachment[a] \in Attachment /\ attachment[a].of \in DOMAIN document
  BY FilesTyped
<1>2. PICK m \in Nat : m = Len(attachment) + 1
  BY <1>1
<1>3. r.at \in Nat /\ r.file \in Nat /\ r.type \in Types
  BY DEF Save
<1>4. /\ new \in Document /\ new.type = r.type /\ new.owner = document[r.at].owner
      /\ new.deleted = document[r.at].deleted /\ new.revisions = document[r.at].revisions + 1
  <2>1. document[r.at] \in Document /\ document[r.at].revisions \in Nat
    BY FilesTyped
  <2> DEFINE old == document[r.at]
  <2> HIDE DEF old
  <2>2. old \in Document /\ old.revisions \in Nat
    BY <2>1 DEF old
  <2>3. [old EXCEPT !.type = r.type, !.revisions = old.revisions + 1] \in Document
    <3>1. PICK n \in Nat : n = old.revisions + 1
      BY <2>2
    <3>2. [old EXCEPT !.type = r.type, !.revisions = n] \in Document
      BY <1>3, <2>2 DEF Document
    <3> QED
      BY <3>1, <3>2
  <2>4. /\ new = [old EXCEPT !.type = r.type, !.revisions = old.revisions + 1]
        /\ DOMAIN old = {"type", "owner", "deleted", "revisions"}
    BY <2>2 DEF old, Document
  <2> HIDE DEF new
  <2>5. /\ new.type = r.type /\ new.owner = old.owner /\ new.deleted = old.deleted
        /\ new.revisions = old.revisions + 1
    BY <2>4
  <2> QED
    BY <2>3, <2>4, <2>5 DEF old
<1>5. /\ ~document[r.at].deleted /\ ValidScope(r.type, document[r.at].owner)
      /\ document' = [document EXCEPT ![r.at] = new]
      /\ attachment' = IF r.file = 0 THEN attachment ELSE Append(Retired(r.at), f)
  BY DEF SaveUpdate
<1>6. f \in Attachment /\ f.of = r.at /\ f.object = r.file /\ f.active /\ ~f.deleted
  BY <1>3, NewFile
<1>7. /\ Retired(r.at) \in Seq(Attachment) /\ Len(Retired(r.at)) = Len(attachment)
      /\ DOMAIN Retired(r.at) = DOMAIN attachment
      /\ \A a \in DOMAIN attachment : Retired(r.at)[a] = Kept(a)
  <2>1. \A a \in DOMAIN attachment : Kept(a) \in Attachment
    BY <1>1 DEF Attachment
  <2>2. \A a \in DOMAIN attachment : Retired(r.at)[a] = Kept(a)
    BY DEF Retired, AttachmentsOf
  <2>3. DOMAIN Retired(r.at) = 1 .. Len(attachment)
    BY <1>1 DEF Retired
  <2>4. Retired(r.at) \in [1 .. Len(attachment) -> Attachment]
    BY <1>1, <2>1, <2>2, <2>3 DEF Retired
  <2>5. Retired(r.at) \in Seq(Attachment)
    BY <1>1, <2>4, SeqDef
  <2> QED
    BY <1>1, <2>2, <2>3, <2>5
<1>8. \A a \in DOMAIN attachment :
          /\ Kept(a).of = attachment[a].of /\ Kept(a).object = attachment[a].object
          /\ Kept(a).deleted = attachment[a].deleted
          /\ Kept(a).active <=> attachment[a].active /\ attachment[a].of # r.at
  <2> SUFFICES ASSUME NEW a \in DOMAIN attachment
               PROVE  /\ Kept(a).of = attachment[a].of /\ Kept(a).object = attachment[a].object
                      /\ Kept(a).deleted = attachment[a].deleted
                      /\ Kept(a).active <=> attachment[a].active /\ attachment[a].of # r.at
    OBVIOUS
  <2>1. attachment[a] \in Attachment
    BY <1>1
  <2>2. CASE attachment[a].of = r.at
    BY <2>1, <2>2 DEF Attachment
  <2>3. CASE attachment[a].of # r.at
    BY <2>3
  <2> QED
    BY <2>2, <2>3
<1> HIDE DEF new, f, Kept
<1>9. /\ document' \in Seq(Document) /\ DOMAIN document' = DOMAIN document
      /\ \A d \in DOMAIN document : document'[d] = IF d = r.at THEN new ELSE document[d]
  BY <1>1, <1>4, <1>5 DEF Rows
<1>10. ScopesAreValid'
  BY <1>4, <1>5, <1>9 DEF Rows, ScopesAreValid
<1>11. CASE r.file = 0
  <2>1. attachment' = attachment
    BY <1>5, <1>11
  <2>2. \A d \in DOMAIN document' : FilesInOrder(d)'
    <3> SUFFICES ASSUME NEW d \in DOMAIN document' PROVE FilesInOrder(d)'
      OBVIOUS
    <3>1. FilesInOrder(d) /\ AttachmentsOf(d)' = AttachmentsOf(d) /\ ActiveOf(d)' = ActiveOf(d)
      BY <1>9, <2>1 DEF Rows, AttachmentsOf, ActiveOf
    <3>2. /\ document'[d].deleted = document[d].deleted
          /\ document[d].revisions \in Nat
          /\ document'[d].revisions \in {document[d].revisions, document[d].revisions + 1}
      BY <1>4, <1>9, FilesTyped
    <3>3. Cardinality(AttachmentsOf(d)) \in Nat
      BY FilesFinite
    <3> QED
      BY <2>1, <3>1, <3>2, <3>3 DEF FilesInOrder
  <2>3. Rows'
    BY <1>9, <1>10, <2>1, <2>2 DEF Rows
  <2> QED
    BY <1>9, <1>11, <2>1, <2>3 DEF Grows, FilesAmong, Objects
<1>12. CASE r.file # 0
  <2>1. /\ attachment' \in Seq(Attachment) /\ DOMAIN attachment' = DOMAIN attachment \cup {m}
        /\ m \notin DOMAIN attachment /\ attachment'[m] = f
        /\ \A a \in DOMAIN attachment : attachment'[a] = Kept(a)
    BY <1>1, <1>2, <1>5, <1>6, <1>7, <1>12
  <2>0. \A a \in DOMAIN attachment' :
            \/ /\ a \in DOMAIN attachment /\ attachment'[a].of = attachment[a].of
               /\ attachment'[a].active <=> attachment[a].active /\ attachment[a].of # r.at
            \/ a = m /\ attachment'[a].of = r.at /\ attachment'[a].active
    BY <1>6, <1>8, <2>1
  <2>2. ASSUME NEW d \in DOMAIN document, d # r.at
        PROVE  AttachmentsOf(d)' = AttachmentsOf(d) /\ ActiveOf(d)' = ActiveOf(d)
    <3>1. AttachmentsOf(d)' = AttachmentsOf(d)
      BY <1>8, <2>0, <2>1, <2>2 DEF AttachmentsOf
    <3>2. \A a \in AttachmentsOf(d) : attachment'[a].active <=> attachment[a].active
      BY <2>0, <2>1, <2>2 DEF AttachmentsOf
    <3> QED
      BY <3>1, <3>2 DEF ActiveOf
  <2>3. AttachmentsOf(r.at)' = AttachmentsOf(r.at) \cup {m} /\ m \notin AttachmentsOf(r.at)
    BY <1>6, <1>8, <2>1 DEF AttachmentsOf
  <2>4. ActiveOf(r.at)' = {m}
    BY <2>0, <2>1 DEF AttachmentsOf, ActiveOf
  <2>5. Cardinality(AttachmentsOf(r.at)') = Cardinality(AttachmentsOf(r.at)) + 1
    BY <2>3, FilesFinite, FS_AddElement
  <2>6. FilesInOrder(r.at)'
    <3>1. Cardinality(AttachmentsOf(r.at)) <= 1 + document[r.at].revisions
      BY DEF Rows, FilesInOrder
    <3>2. document'[r.at].revisions = document[r.at].revisions + 1 /\ ~document'[r.at].deleted
      BY <1>4, <1>5, <1>9
    <3>3. Cardinality(AttachmentsOf(r.at)') <= 1 + document'[r.at].revisions
      BY <2>5, <3>1, <3>2, FilesFinite, FilesTyped
    <3> QED
      BY <1>6, <2>1, <2>4, <3>2, <3>3 DEF FilesInOrder
  <2>7. ASSUME NEW d \in DOMAIN document, d # r.at
        PROVE  FilesInOrder(d)'
    <3>1. FilesInOrder(d) /\ document'[d] = document[d]
      BY <1>9, <2>7 DEF Rows
    <3>2. \A a \in ActiveOf(d) : a \in DOMAIN attachment /\ attachment'[a].deleted = attachment[a].deleted
      BY <1>8, <2>1 DEF ActiveOf, AttachmentsOf
    <3> QED
      BY <2>2, <2>7, <3>1, <3>2 DEF FilesInOrder
  <2>8. \A a \in DOMAIN attachment' : attachment'[a].of \in DOMAIN document' /\ attachment'[a].object # 0
    <3> SUFFICES ASSUME NEW a \in DOMAIN attachment'
                 PROVE  attachment'[a].of \in DOMAIN document' /\ attachment'[a].object # 0
      OBVIOUS
    <3>1. CASE a = m
      BY <1>6, <1>9, <1>12, <2>1, <3>1
    <3>2. CASE a # m
      <4>1. /\ a \in DOMAIN attachment /\ attachment'[a].of = attachment[a].of
            /\ attachment'[a].object = attachment[a].object
        BY <1>8, <2>1, <3>2
      <4> QED
        BY <1>9, <4>1 DEF Rows
    <3> QED
      BY <3>1, <3>2
  <2>9. Rows'
    BY <1>9, <1>10, <2>1, <2>6, <2>7, <2>8 DEF Rows
  <2>10. Grows(FilesAmong(r.file))
    BY <1>6, <1>8, <1>9, <1>12, <2>1 DEF Grows, FilesAmong, Objects
  <2> QED
    BY <2>9, <2>10
<1> QED
  BY <1>11, <1>12

LEMMA IndexIsNat == \A n \in Nat : \A x \in 1 .. n : x \in Nat
  OBVIOUS

\* A starter file names an object that is a file's already.
LEMMA StarterAdded ==
    ASSUME Rows, NEW a \in DOMAIN attachment,
           Added("starter", "other task", attachment[a].object, a)
    PROVE  Rows' /\ Grows({})
<1>1. ValidScope("starter", "other task") /\ "starter" \in Types /\ "other task" \in Owners
  BY DEF ValidScope, Types, Owners
<1>2. attachment[a].object \in Nat /\ a \in Nat
  <2>1. attachment[a].object \in Nat
    BY FilesTyped
  <2>2. a \in 1 .. Len(attachment) /\ Len(attachment) \in Nat
    BY FilesTyped
  <2>4. a \in Nat
    BY <2>2, IndexIsNat
  <2> QED
    BY <2>1, <2>4
<1>3. Rows' /\ Grows(FilesAmong(attachment[a].object))
  BY <1>1, <1>2, RowsAdded
<1>4. Objects \cup FilesAmong(attachment[a].object) = Objects \cup {}
  BY DEF Objects, FilesAmong
<1> QED
  BY <1>3, <1>4 DEF Grows

LEMMA RowsSame ==
    ASSUME Rows, UNCHANGED <<document, attachment>>
    PROVE  Rows' /\ Grows({})
<1>1. \A d : AttachmentsOf(d)' = AttachmentsOf(d) /\ ActiveOf(d)' = ActiveOf(d)
  BY DEF AttachmentsOf, ActiveOf
<1>2. \A d \in DOMAIN document : FilesInOrder(d)'
  BY <1>1 DEF Rows, FilesInOrder
<1>3. Rows'
  BY <1>2 DEF Rows, ScopesAreValid
<1> QED
  BY <1>3 DEF Grows, Objects

LEMMA RowsSaved ==
    ASSUME DocumentsInv, NEW c \in Savers, Saves(c)
    PROVE  Rows' /\ Grows(FilesAmong(saving[c].file))
<1>1. saving[c] \in Save /\ InProgress(c) /\ Rows
  BY DEF DocumentsInv, Held
<1>2. CASE SaveCreate(saving[c])
  <2>1. /\ ValidScope(saving[c].type, saving[c].owner) /\ 0 \in Nat
        /\ Added(saving[c].type, saving[c].owner, saving[c].file, 0)
    BY <1>2 DEF SaveCreate
  <2>2. saving[c].type \in Types /\ saving[c].owner \in Owners /\ saving[c].file \in Nat
    BY <1>1 DEF Save
  <2> QED
    BY <1>1, <2>1, <2>2, RowsAdded
<1>3. CASE SaveUpdate(saving[c])
  <2>1. saving[c].at \in DOMAIN document
    BY <1>1, <1>3 DEF SaveUpdate, InProgress
  <2> QED
    BY <1>1, <1>3, <2>1, RowsUpdated
<1>4. CASE SaveStarter(saving[c])
  <2>1. /\ saving[c].source \in DOMAIN attachment /\ saving[c].file = 0
        /\ Added("starter", "other task", attachment[saving[c].source].object, saving[c].source)
    BY <1>1, <1>4 DEF SaveStarter, InProgress
  <2>2. FilesAmong(0) = {}
    BY DEF FilesAmong
  <2> QED
    BY <1>1, <2>1, <2>2, StarterAdded
<1> QED
  BY <1>2, <1>3, <1>4 DEF Saves

(***************************************************************************)
(* The end of a request: its file is now some row's, or deleted, or left   *)
(* over; the files of other requests are not touched.                      *)
(***************************************************************************)
LEMMA RequestEnds ==
    ASSUME DocumentsInv, NEW c \in Savers, NEW more,
           Grows(more), more \subseteq FilesAmong(saving[c].file),
           saving' = [saving EXCEPT ![c] = NoSave], uploads' = uploads, evidence' = evidence,
           stored' \subseteq stored, stored \subseteq stored' \cup FilesAmong(saving[c].file),
           more \subseteq stored' \cup unsure', unsure \subseteq unsure', leftover \subseteq leftover',
           FilesAmong(saving[c].file) \cap stored' \subseteq more \cup leftover'
    PROVE  Held'
<1> DEFINE F == FilesAmong(saving[c].file)
<1>1. /\ uploads \in Nat /\ stored \subseteq 1 .. uploads /\ saving \in [Savers -> Save]
      /\ Objects \subseteq 1 .. uploads /\ FilesAreStored /\ NothingIsLeft
      /\ \A d \in Savers : Owned(d) /\ InProgress(d)
      /\ \A e \in evidence : e.file \in DOMAIN attachment
  BY DEF DocumentsInv, Held
<1>2. NoSave \in Save /\ NoSave.file = 0 /\ NoSave.phase = "idle"
  BY DEF NoSave, Save, Types, Owners
<1>3. /\ saving' \in [Savers -> Save] /\ saving'[c] = NoSave
      /\ \A d \in Savers : d # c => saving'[d] = saving[d]
  BY <1>1, <1>2
<1>4. F \subseteq stored \ Objects
  BY <1>1 DEF Owned, FilesAmong
<1>5. Objects' = Objects \cup more
  BY DEF Grows, Objects
<1>6. \A x \in stored : x # 0
  BY <1>1
<1>7. Objects' \subseteq 1 .. uploads
  BY <1>1, <1>4, <1>5
<1>8. FilesAreStored'
  <2>1. \A a \in DOMAIN attachment' : attachment'[a].object \in stored' \cup unsure'
    <3> SUFFICES ASSUME NEW a \in DOMAIN attachment'
                 PROVE  attachment'[a].object \in stored' \cup unsure'
      OBVIOUS
    <3>1. attachment'[a].object \in Objects'
      BY DEF Objects
    <3>2. Objects \subseteq stored \cup unsure
      BY <1>1 DEF FilesAreStored, Objects
    <3> QED
      BY <1>4, <1>5, <3>1, <3>2
  <2>2. \A e \in evidence' : attachment'[e.file].of = e.of /\ attachment'[e.file].object = e.object
    BY <1>1 DEF FilesAreStored, Grows
  <2> QED
    BY <2>1, <2>2 DEF FilesAreStored
<1>9. NothingIsLeft'
  <2> SUFFICES ASSUME NEW x \in stored'
               PROVE  x \in Objects' \cup {saving'[d].file : d \in Savers} \cup leftover'
    BY DEF NothingIsLeft, Objects
  <2>1. x \in Objects \cup {saving[d].file : d \in Savers} \cup leftover
    BY <1>1 DEF NothingIsLeft, Objects
  <2>2. CASE x \in Objects \cup leftover
    BY <1>5, <2>2
  <2>3. ASSUME NEW d \in Savers, x = saving[d].file
        PROVE  x \in Objects' \cup {saving'[q].file : q \in Savers} \cup leftover'
    <3>1. CASE d = c
      BY <1>5, <1>6, <2>3, <3>1 DEF FilesAmong
    <3>2. CASE d # c
      BY <1>3, <2>3, <3>2
    <3> QED
      BY <3>1, <3>2
  <2> QED
    BY <2>1, <2>2, <2>3
<1>10. ASSUME NEW d \in Savers
       PROVE  Owned(d)' /\ InProgress(d)'
  <2>1. CASE d = c
    BY <1>2, <1>3, <2>1 DEF Owned, InProgress
  <2>2. CASE d # c
    <3>1. saving'[d] = saving[d] /\ Owned(d) /\ InProgress(d)
      BY <1>1, <1>3, <2>2
    <3>2. InProgress(d)'
      BY <3>1 DEF InProgress, Grows
    <3>3. ASSUME saving[d].file # 0
          PROVE  saving[d].file \in stored' \ Objects'
      <4>1. saving[d].file \in stored \ Objects /\ saving[d].file \notin F
        BY <2>2, <3>1, <3>3 DEF Owned, FilesAmong
      <4> QED
        BY <1>5, <4>1
    <3>4. ASSUME saving[d].file # 0, NEW q \in Savers, saving'[q].file = saving[d].file
          PROVE  q = d
      <4>1. q # c
        BY <1>2, <1>3, <3>4
      <4> QED
        BY <1>3, <3>1, <3>4, <4>1 DEF Owned
    <3> QED
      BY <3>1, <3>2, <3>3, <3>4 DEF Owned
  <2> QED
    BY <2>1, <2>2
<1>11. \A e \in evidence' : e.file \in DOMAIN attachment'
  BY <1>1 DEF Grows
<1>12. stored' \subseteq 1 .. uploads'
  BY <1>1
<1> QED
  BY <1>1, <1>3, <1>7, <1>8, <1>9, <1>10, <1>11, <1>12 DEF Held

LEMMA DocumentsEnd ==
    ASSUME DocumentsInv, NEW c \in Savers,
           Commit(c) \/ CommitUnanswered(c) \/ Undone(c) \/ NotUndone(c)
    PROVE  DocumentsInv'
<1> DEFINE F == FilesAmong(saving[c].file)
<1>1. /\ stored \subseteq 1 .. uploads /\ uploads \in Nat /\ Owned(c)
  BY DEF DocumentsInv, Held
<1>2. 0 \notin stored /\ F \subseteq stored
  BY <1>1 DEF Owned, FilesAmong
<1>3. CASE Commit(c)
  <2>1. /\ Saves(c) /\ saving' = [saving EXCEPT ![c] = NoSave]
        /\ UNCHANGED <<stored, uploads, evidence, unsure, leftover>>
    BY <1>3 DEF Commit
  <2>2. Rows' /\ Grows(F)
    BY <2>1, RowsSaved
  <2> HIDE DEF F
  <2>3. Held'
    BY <1>2, <2>1, <2>2, RequestEnds DEF F
  <2> QED
    BY <2>2, <2>3 DEF DocumentsInv
<1>4. CASE CommitUnanswered(c)
  <2>1. /\ Saves(c) /\ saving' = [saving EXCEPT ![c] = NoSave] /\ saving[c].file # 0
        /\ stored' = stored \ {saving[c].file} /\ unsure' = unsure \cup {saving[c].file}
        /\ UNCHANGED <<uploads, evidence, leftover>>
    BY <1>4 DEF CommitUnanswered
  <2>2. Rows' /\ Grows(F) /\ F = {saving[c].file}
    BY <2>1, RowsSaved DEF FilesAmong
  <2> HIDE DEF F
  <2>3. Held'
    BY <1>2, <2>1, <2>2, RequestEnds DEF F
  <2> QED
    BY <2>2, <2>3 DEF DocumentsInv
<1>5. CASE Undone(c) \/ NotUndone(c)
  <2>1. /\ saving' = [saving EXCEPT ![c] = NoSave]
        /\ UNCHANGED <<document, attachment, uploads, evidence, unsure>>
    BY <1>5 DEF Undone, NotUndone
  <2>2. \/ stored' = stored \ {saving[c].file} /\ UNCHANGED leftover
        \/ stored' = stored /\ leftover' = leftover \cup {saving[c].file}
    BY <1>5 DEF Undone, NotUndone
  <2>3. Rows' /\ Grows({})
    BY <2>1, RowsSame DEF DocumentsInv
  <2>4. /\ stored' \subseteq stored /\ stored \subseteq stored' \cup F
        /\ leftover \subseteq leftover' /\ F \cap stored' \subseteq leftover'
    BY <1>2, <2>2 DEF FilesAmong
  <2> HIDE DEF F
  <2>5. Held'
    BY <2>1, <2>3, <2>4, RequestEnds DEF F
  <2> QED
    BY <2>3, <2>5 DEF DocumentsInv
<1> QED
  BY <1>3, <1>4, <1>5

\* A request begins, with the next object or without.
LEMMA DocumentsBegin ==
    ASSUME DocumentsInv, NEW c \in Savers, NEW save \in Save, NEW withFile \in BOOLEAN,
           Begins(c, save, withFile), save.file = 0, save.phase # "idle",
           save.phase = "update" => save.at \in DOMAIN document,
           save.phase = "starter" => save.source \in DOMAIN attachment /\ ~withFile
    PROVE  DocumentsInv'
<1> DEFINE n == uploads + 1
           s == IF withFile THEN [save EXCEPT !.file = n] ELSE save
<1>1. /\ uploads \in Nat /\ stored \subseteq 1 .. uploads /\ saving \in [Savers -> Save]
      /\ Objects \subseteq 1 .. uploads /\ FilesAreStored /\ NothingIsLeft
      /\ \A d \in Savers : Owned(d) /\ InProgress(d)
      /\ \A e \in evidence : e.file \in DOMAIN attachment
      /\ Rows
  BY DEF DocumentsInv, Held
<1>2. n \in Nat /\ n # 0 /\ n \notin stored /\ n \notin Objects /\ 1 .. uploads \subseteq 1 .. n
  BY <1>1
<1>3. /\ saving[c] = NoSave /\ saving' = [saving EXCEPT ![c] = s]
      /\ stored' = IF withFile THEN stored \cup {n} ELSE stored
      /\ uploads' = IF withFile THEN n ELSE uploads
      /\ UNCHANGED <<document, attachment, evidence, workplace, unsure, leftover>>
  BY DEF Begins
<1> HIDE DEF n
<1>4. /\ s \in Save /\ s.file = (IF withFile THEN n ELSE 0)
      /\ s.phase = save.phase /\ s.at = save.at /\ s.source = save.source
  BY <1>2 DEF Save
<1> HIDE DEF s
<1>5. Rows' /\ Objects' = Objects
  BY <1>1, <1>3, RowsSame DEF Objects
<1>6. saving'[c] = s /\ \A d \in Savers : d # c => saving'[d] = saving[d]
  BY <1>1, <1>3
<1>7. \A d \in Savers : saving[d].file # 0 => saving[d].file \in stored \ Objects
  BY <1>1 DEF Owned
<1>8. \A d \in Savers : Owned(d)'
  <2> SUFFICES ASSUME NEW d \in Savers, saving'[d].file # 0
               PROVE  /\ saving'[d].file \in stored' \ Objects
                      /\ \A q \in Savers : saving'[q].file = saving'[d].file => q = d
    BY <1>5 DEF Owned
  <2>1. CASE d = c
    BY <1>2, <1>3, <1>4, <1>6, <1>7, <2>1
  <2>2. CASE d # c
    <3>1. saving'[d] = saving[d] /\ saving[d].file \in stored \ Objects
      BY <1>6, <1>7, <2>2
    <3>2. \A q \in Savers : saving[q].file = saving[d].file => q = d
      BY <1>1, <3>1 DEF Owned
    <3>3. saving'[c].file # saving[d].file
      BY <1>2, <1>4, <1>6, <3>1
    <3> QED
      BY <1>3, <1>6, <3>1, <3>2, <3>3
  <2> QED
    BY <2>1, <2>2
<1>9. \A d \in Savers : InProgress(d)'
  BY <1>1, <1>3, <1>4, <1>6 DEF InProgress
<1>10. NothingIsLeft'
  <2> SUFFICES ASSUME NEW x \in stored'
               PROVE  x \in Objects \cup {saving'[d].file : d \in Savers} \cup leftover
    BY <1>3 DEF NothingIsLeft, Objects
  <2>1. CASE x \notin stored
    BY <1>3, <1>4, <1>6, <2>1
  <2>2. CASE x \in stored
    <3>1. x \in Objects \cup {saving[d].file : d \in Savers} \cup leftover
      BY <1>1, <2>2 DEF NothingIsLeft, Objects
    <3>2. x # saving[c].file
      BY <1>1, <1>3, <2>2 DEF NoSave
    <3> QED
      BY <1>6, <3>1, <3>2
  <2> QED
    BY <2>1, <2>2
<1>11. FilesAreStored'
  BY <1>1, <1>3 DEF FilesAreStored
<1>12. /\ uploads' \in Nat /\ stored' \subseteq 1 .. uploads' /\ Objects' \subseteq 1 .. uploads'
  <2>1. n \in 1 .. n
    BY <1>2
  <2> QED
    BY <1>1, <1>2, <1>3, <1>5, <2>1
<1>13. saving' \in [Savers -> Save]
  BY <1>1, <1>3, <1>4
<1>14. \A e \in evidence' : e.file \in DOMAIN attachment'
  BY <1>1, <1>3
<1>15. Held'
  BY <1>8, <1>9, <1>10, <1>11, <1>12, <1>13, <1>14 DEF Held
<1> QED
  BY <1>5, <1>15 DEF DocumentsInv

\* What neither uploads nor deletes an object nor ends a request.
LEMMA HeldKept ==
    ASSUME Rows, Held, Grows({}), UNCHANGED <<stored, uploads, saving, unsure, leftover>>,
           \A e \in evidence' : /\ e.file \in DOMAIN attachment
                                /\ attachment[e.file].of = e.of /\ attachment[e.file].object = e.object
    PROVE  Held'
<1>1. Objects' = Objects
  BY DEF Grows, Objects
<1>2. FilesAreStored'
  <2>1. \A a \in DOMAIN attachment' : attachment'[a].object \in stored' \cup unsure'
    <3> SUFFICES ASSUME NEW a \in DOMAIN attachment'
                 PROVE  attachment'[a].object \in stored \cup unsure
      OBVIOUS
    <3>1. attachment'[a].object \in Objects
      BY <1>1 DEF Objects
    <3> QED
      BY <3>1 DEF Held, FilesAreStored, Objects
  <2> QED
    BY <2>1 DEF FilesAreStored, Grows
<1>3. NothingIsLeft'
  BY <1>1 DEF Held, NothingIsLeft, Objects
<1>4. \A c \in Savers : Owned(c)' /\ InProgress(c)'
  BY <1>1 DEF Held, Owned, InProgress, Grows
<1>5. \A e \in evidence' : e.file \in DOMAIN attachment'
  BY DEF Grows
<1> QED
  BY <1>1, <1>2, <1>3, <1>4, <1>5 DEF Held

LEMMA DocumentsWrite ==
    ASSUME DocumentsInv,
           \/ \E d \in DOMAIN document : DeleteDocument(d)
           \/ \E a \in DOMAIN attachment : DeleteAttachment(a) \/ PackageStarter(a)
           \/ SubmitEvidence
           \/ \E to \in Closings : CloseWork(to)
    PROVE  DocumentsInv'
<1>1. Rows /\ Held
  BY DEF DocumentsInv
<1>2. \A e \in evidence : /\ e.file \in DOMAIN attachment
                          /\ attachment[e.file].of = e.of /\ attachment[e.file].object = e.object
  BY <1>1 DEF Held, FilesAreStored
<1>3. ASSUME NEW d \in DOMAIN document, DeleteDocument(d) PROVE DocumentsInv'
  <2>1. Rows' /\ Grows({})
    BY <1>1, <1>3, RowsDeleted DEF DeleteDocument
  <2>2. UNCHANGED <<stored, uploads, saving, evidence, unsure, leftover>>
    BY <1>3 DEF DeleteDocument, Tombstones, StoredWithout
  <2> QED
    BY <1>1, <1>2, <2>1, <2>2, HeldKept DEF DocumentsInv
<1>4. ASSUME NEW a \in DOMAIN attachment, DeleteAttachment(a) PROVE DocumentsInv'
  <2>1. Rows' /\ Grows({})
    BY <1>1, <1>4, RowsDeleted DEF DeleteAttachment
  <2>2. UNCHANGED <<stored, uploads, saving, evidence, unsure, leftover>>
    BY <1>4 DEF DeleteAttachment, Tombstones, StoredWithout
  <2> QED
    BY <1>1, <1>2, <2>1, <2>2, HeldKept DEF DocumentsInv
<1>5. ASSUME NEW a \in DOMAIN attachment, PackageStarter(a) PROVE DocumentsInv'
  <2>1. Rows' /\ Grows({})
    BY <1>1, <1>5, StarterAdded DEF PackageStarter
  <2>2. UNCHANGED <<stored, uploads, saving, evidence, unsure, leftover>>
    BY <1>5 DEF PackageStarter
  <2> QED
    BY <1>1, <1>2, <2>1, <2>2, HeldKept DEF DocumentsInv
<1>6. ASSUME SubmitEvidence PROVE DocumentsInv'
  <2>1. UNCHANGED <<document, attachment, stored, uploads, saving, unsure, leftover>>
    BY <1>6 DEF SubmitEvidence
  <2>2. \A e \in evidence' : /\ e.file \in DOMAIN attachment
                             /\ attachment[e.file].of = e.of
                             /\ attachment[e.file].object = e.object
    BY <1>6 DEF SubmitEvidence
  <2> QED
    BY <1>1, <2>1, <2>2, RowsSame, HeldKept DEF DocumentsInv
<1>7. ASSUME NEW to \in Closings, CloseWork(to) PROVE DocumentsInv'
  BY <1>1, <1>2, <1>7, RowsSame, HeldKept DEF DocumentsInv, CloseWork
<1> QED
  BY <1>3, <1>4, <1>5, <1>6, <1>7

LEMMA DocumentsInvariance == DocumentsInv /\ [DocumentsNext]_documentVars => DocumentsInv'
<1> SUFFICES ASSUME DocumentsInv, [DocumentsNext]_documentVars PROVE DocumentsInv'
  OBVIOUS
<1>1. ASSUME NEW c \in Savers, NEW type \in Types, NEW owner \in {"task", "item"},
             NEW withFile \in BOOLEAN, BeginCreate(c, type, owner, withFile)
      PROVE  DocumentsInv'
  <2> DEFINE save == [NoSave EXCEPT !.phase = "create", !.type = type, !.owner = owner]
  <2>1. save \in Save /\ save.file = 0 /\ save.phase = "create"
    BY DEF NoSave, Save, Types, Owners
  <2>2. Begins(c, save, withFile)
    BY <1>1 DEF BeginCreate
  <2> HIDE DEF save
  <2> QED
    BY <2>1, <2>2, DocumentsBegin
<1>2. ASSUME NEW c \in Savers, NEW d \in DOMAIN document, NEW type \in Types,
             NEW withFile \in BOOLEAN, BeginUpdate(c, d, type, withFile)
      PROVE  DocumentsInv'
  <2> DEFINE save == [NoSave EXCEPT !.phase = "update", !.at = d, !.type = type]
  <2>1. d \in Nat
    BY FilesTyped, IndexIsNat DEF DocumentsInv
  <2>2. save \in Save /\ save.file = 0 /\ save.phase = "update" /\ save.at = d
    BY <2>1 DEF NoSave, Save, Types, Owners
  <2>3. Begins(c, save, withFile)
    BY <1>2 DEF BeginUpdate
  <2> HIDE DEF save
  <2> QED
    BY <2>2, <2>3, DocumentsBegin
<1>3. ASSUME NEW c \in Savers, NEW d \in DOMAIN document, BeginStarter(c, d)
      PROVE  DocumentsInv'
  <2>1. PICK a \in ActiveOf(d) :
            Begins(c, [NoSave EXCEPT !.phase = "starter", !.at = d, !.source = a], FALSE)
    BY <1>3 DEF BeginStarter
  <2> DEFINE save == [NoSave EXCEPT !.phase = "starter", !.at = d, !.source = a]
  <2>2. a \in DOMAIN attachment
    BY DEF ActiveOf, AttachmentsOf
  <2>3. d \in Nat /\ a \in Nat
    BY <2>2, FilesTyped, IndexIsNat DEF DocumentsInv
  <2>4. save \in Save /\ save.file = 0 /\ save.phase = "starter" /\ save.source = a
    BY <2>3 DEF NoSave, Save, Types, Owners
  <2>5. Begins(c, save, FALSE)
    BY <2>1
  <2> HIDE DEF save
  <2> QED
    BY <2>2, <2>4, <2>5, DocumentsBegin
<1>4. CASE UNCHANGED documentVars
  <2>1. UNCHANGED <<document, attachment, stored, uploads, saving, evidence, unsure, leftover>>
    BY <1>4 DEF documentVars
  <2> QED
    BY <2>1, RowsSame, HeldKept DEF DocumentsInv, Held, FilesAreStored
<1> QED
  BY <1>1, <1>2, <1>3, <1>4, DocumentsEnd, DocumentsWrite DEF DocumentsNext, SaverNext

\* One active file at most is Cardinality <= 1.
LEMMA AtMostOne ==
    ASSUME NEW S, \A a, b \in S : a = b
    PROVE  Cardinality(S) <= 1
<1>1. CASE S = {}
  BY <1>1, FS_EmptySet
<1>2. CASE S # {}
  <2>1. PICK a \in S : TRUE
    BY <1>2
  <2>2. S = {a}
    BY <2>1
  <2> QED
    BY <2>2, FS_Singleton
<1> QED
  BY <1>1, <1>2

\* A document has one current file at most, and every replaced one a revision;
\* the objects of files and evidence are stored, and no others for nothing;
\* and what a document is for fits what it belongs to.
THEOREM DocumentsAreAlwaysKept == DocumentsSpec => []DocumentsAreKept
<1>1. DocumentsSpec => []DocumentsInv
  BY DocumentsStart, DocumentsInvariance, PTL DEF DocumentsSpec
<1>2. DocumentsInv => DocumentsAreKept
  <2> SUFFICES ASSUME DocumentsInv PROVE OneCurrentFile
    BY DEF DocumentsInv, Rows, Held, DocumentsAreKept
  <2> QED
    BY AtMostOne DEF DocumentsInv, Rows, FilesInOrder, OneCurrentFile
<1> QED
  BY <1>1, <1>2, PTL
=============================================================================
