-------------------------- MODULE MCTaskHierarchy --------------------------
(***************************************************************************)
(* Small instances of TaskHierarchy and of Progress.  Each behaviour is of *)
(* one mode, chosen at the start: the tree with the work in it, the people *)
(* with the requests that overtake each other, or the progress.            *)
(***************************************************************************)
EXTENDS TaskHierarchy, Progress, TLC

CONSTANT Modes      \* of the run

VARIABLE mode

-----------------------------------------------------------------------------
MCWorkStages == {TODO, IN_REVIEW, DONE}

\* The tree and its work, while one user owns all tasks.
WorkStep ==
    /\ mode = "work"
    /\ Structure \/ OwnWork
    /\ Cardinality({reportee'[t] : t \in Tasks} \ {NoUser}) <= 1

\* The tree and its people, while the only work is below tasks, one request at a
\* time is between its reads and the lock, and one task is deleted.  Nothing is said
\* of what follows once a request overwrote a row.
PeopleStep ==
    /\ mode = "people" /\ ~overwritten
    /\ own' = own
    /\ Structure \/ Ownership
    /\ Cardinality(admitted') + Cardinality(loaded') <= 1
    /\ Cardinality(deleted') <= 1

HierarchyStep ==
    /\ WorkStep \/ PeopleStep
    /\ UNCHANGED <<mode, progressVars>>

ProgressStep == mode = "progress" /\ ProgressNext /\ UNCHANGED <<mode, vars>>

MCInit == mode \in Modes /\ Init /\ ProgressInit

MCNext == HierarchyStep \/ ProgressStep

MCSpec == MCInit /\ [][MCNext]_<<mode, vars, progressVars>>

\* All that TaskHierarchy has, together.
MCAllSpec == MCInit /\ [][Next /\ UNCHANGED <<mode, progressVars>>]_<<mode, vars, progressVars>>

-----------------------------------------------------------------------------
\* The tasks of both modules are the same.
MCSymmetry == Permutations(Tasks) \cup Permutations(Users)
=============================================================================
