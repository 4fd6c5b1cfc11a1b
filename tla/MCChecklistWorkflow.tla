------------------------ MODULE MCChecklistWorkflow ------------------------
(***************************************************************************)
(* Small instances of ChecklistWorkflow: one status per canonical stage    *)
(* and one custom status (canonicalStage null).                            *)
(***************************************************************************)
EXTENDS ChecklistWorkflow, TLC

CONSTANTS todo, progress, review, done, custom, ann, bob, cas

MCStatuses == {todo, progress, review, done, custom}

MCstageOf ==
    (todo :> TODO) @@ (progress :> IN_PROGRESS) @@ (review :> IN_REVIEW)
        @@ (done :> DONE) @@ (custom :> NoStage)

\* ann executes, bob reviews, cas reviews the parent task.
MCUsers == {ann, bob, cas}

\* One assignee, reviewer and assignee at once, or nobody.
MCTeams == {{ann}, {ann, bob}, {}}

\* bob, the reviewer, is one of the assignees too.
MCOneTeam == {{ann, bob}}

\* Drags that leave the intent to the server, and drags of every intent.
MCPlainDrags == {NoIntent}
MCAllDrags == Intents \cup {NoIntent}

MCAncestors == {cas}

\* The smallest cast: ann executes, bob reviews this task and its parent.
MCPair == {ann, bob}
MCSolo == {{ann}}
MCPairAncestors == {bob}

MCSymmetry == Permutations(Keys) \cup Permutations(Items)
=============================================================================
