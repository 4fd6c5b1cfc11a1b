------------------------------ MODULE MCAccess ------------------------------
(***************************************************************************)
(* Small instances of five components that share no state: the             *)
(* invitations, the configuration of a project, the sessions of a user,    *)
(* the reports from the field and the documents of a task.                 *)
(* Each behaviour is of one of them, chosen at the start, while the others *)
(* stay as they are; a step of one can neither enable nor disturb a step   *)
(* of another, so no interleaving of them is missed.                       *)
(***************************************************************************)
EXTENDS Invitations, ProjectConfig, Sessions, FieldReports, Documents, TLC

CONSTANT Components     \* of the run

VARIABLE component

-----------------------------------------------------------------------------
\* Everyone starts as a stranger, or was removed from workspace and projects.
MCMemberships ==
    {[s \in Scopes |-> [u \in Users |-> m]] : m \in {NoMember, [NoMember EXCEPT !.status = "REMOVED"]}}

\* All roles are the projects', and one is the workspace's too.
MCRolesOf == [s \in Scopes |-> IF s = Workspace THEN {CHOOSE r \in Roles : TRUE} ELSE Roles]

\* <<>> changes no column: its save may still bring back what it loaded.
MCStatusChanges ==
    {<<>>, [category |-> "done"], [isDefault |-> TRUE], [policy |-> "some"]}

MCOptionChanges == {<<>>, [isDefault |-> TRUE]}

\* Two events for a location and a note, one of them with the key of another
\* device's, and a form.
Report(key, kind, sets, at) == [key |-> key, site |-> "site", kind |-> kind, sets |-> sets, at |-> at]

MCProgressEvent == Report("k1", "location", {"progress"}, 1)
MCNoteEvent == Report("k2", "note", {}, 1)
MCOtherEvent == Report("k2", "location", {"progress", "note"}, 2)

MCEvents == {MCProgressEvent, MCNoteEvent, MCOtherEvent}

MCReports == MCEvents \cup {Report("form", "location", {"note"}, 3)}

MCActorOf == "phone" :> "ann" @@ "tablet" :> "bob"

MCEventsOf == "phone" :> {MCProgressEvent, MCNoteEvent} @@ "tablet" :> {MCOtherEvent}

MCSymmetry == Permutations(Clients)

-----------------------------------------------------------------------------
\* A component that is not the one chosen has one initial state.
AccessInit ==
    /\ component \in Components
    /\ Init /\ ConfigInit /\ SessionsInit /\ ReportsInit /\ DocumentsInit
    /\ component # "invitations" => \A u \in Users : member[Workspace][u] = NoMember
    /\ component # "sessions" => ~user.twoFactor

InvitationsStep ==
    /\ component = "invitations" /\ Next
    /\ UNCHANGED <<component, configVars, sessionVars, reportVars, documentVars>>

ConfigStep ==
    /\ component = "config" /\ ConfigNext
    /\ UNCHANGED <<component, vars, sessionVars, reportVars, documentVars>>

SessionsStep ==
    /\ component = "sessions" /\ SessionsNext
    /\ UNCHANGED <<component, vars, configVars, reportVars, documentVars>>

ReportsStep ==
    /\ component = "reports" /\ ReportsNext
    /\ UNCHANGED <<component, vars, configVars, sessionVars, documentVars>>

DocumentsStep ==
    /\ component = "documents" /\ DocumentsNext
    /\ UNCHANGED <<component, vars, configVars, sessionVars, reportVars>>

AccessNext == InvitationsStep \/ ConfigStep \/ SessionsStep \/ ReportsStep \/ DocumentsStep

AccessSpec ==
    AccessInit /\ [][AccessNext]_<<component, vars, configVars, sessionVars, reportVars, documentVars>>

-----------------------------------------------------------------------------
\* Every variable of the five has its type.
AccessTypeOK ==
    TypeOK /\ ConfigTypeOK /\ SessionsTypeOK /\ ReportsTypeOK /\ DocumentsTypeOK
=============================================================================
