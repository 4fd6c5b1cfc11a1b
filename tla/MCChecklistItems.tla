-------------------------- MODULE MCChecklistItems --------------------------
(***************************************************************************)
(* A checklist seen from two sides, one in each behaviour: the work on two *)
(* items while the people of the task stay, and one item while all that    *)
(* may change does, the intents of the drags too.                          *)
(***************************************************************************)
EXTENDS MCChecklistWorkflow

VARIABLE side

sideVars == <<vars, side>>

SideInit ==
    /\ Init
    /\ side \in {"items", "people"}
    /\ side = "items" => assignees \in MCOneTeam

\* The commands of Next, of which drags leave their intent to the server.
PlainCommands ==
    \E i \in present, u \in members, k \in Keys, expected \in 1 .. MaxRevision :
        /\ Fresh(i, u, k) /\ AtRevision(i, expected)
        /\ \/ \E target \in Statuses, reviewNote \in BOOLEAN :
                Execute(i, u, k, target, NoIntent, expected, NoAttempt, reviewNote)
           \/ Submit(i, u, k, expected)
           \/ Decide(i, u, k, expected)
           \/ Annotate(i, u, k, expected)

SideNext ==
    /\ \/ side = "items" /\ (PlainCommands \/ Definitions \/ Reassign(assignees))
       \/ side = "people" /\ Next /\ Cardinality(present') <= 1
    /\ UNCHANGED side

SideSpec == SideInit /\ [][SideNext]_sideVars
=============================================================================
