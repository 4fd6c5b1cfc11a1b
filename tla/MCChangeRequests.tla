-------------------------- MODULE MCChangeRequests --------------------------
(***************************************************************************)
(* Small instances of ChangeRequests.                                      *)
(***************************************************************************)
EXTENDS ChangeRequests, TLC

\* One is the reportee of the task, the other is assigned to it and the
\* reportee of the parent task; they may change places.
MCOrganisations ==
    {[reportee |-> u, assignees |-> Users \ {u}, parentReportee |-> CHOOSE v \in Users : v # u] :
        u \in Users}

MCResolutions == {"APPROVED", "RETURNED_FOR_REVISION"}

MCReviewDecisions == {"APPROVED", "REJECTED"}

MCSymmetry == Permutations(Users) \cup Permutations(Clients)
=============================================================================
