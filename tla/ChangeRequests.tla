--------------------------- MODULE ChangeRequests ---------------------------
(***************************************************************************)
(* One change request of a task: its reviews, its audit trail, and the     *)
(* requests of several users about it.                                     *)
(*   src/src/tasks/services/task-change-requests.service.ts                *)
(* Every handler loads the change request, with its reviews and its audit  *)
(* entries, checks it, and then saves it in a transaction that takes no    *)
(* lock.  The save (TypeORM's) reads the row again, and writes the columns *)
(* whose loaded and assigned value differs from that second reading.       *)
(* Messages, attachments and activities are written with the same          *)
(* transactions and left out.                                              *)
(***************************************************************************)
EXTENDS Naturals, Sequences, FiniteSets

CONSTANTS
    Users, NoUser,
    Clients,            \* requests to the server at one time
    Organisations,      \* who may be the people of the task: see TaskPeople
    Resolutions,        \* the decisions tried, of Decisions
    ReviewDecisions,    \* the decisions of a review; none has any further effect
    MaxAudit,           \* bound: audit entries
    MaxReorganised      \* bound: changes of the task's people

ASSUME ChangeRequestAssumption ==
    /\ NoUser \notin Users
    /\ ReviewDecisions # {} /\ "PENDING" \notin ReviewDecisions
    /\ MaxAudit \in Nat /\ MaxReorganised \in Nat

VARIABLES
    request,            \* the change request's row
    reviews, audit,     \* its reviews and audit entries, oldest first
    task,               \* the people of its task, and of the parent task
    reorganised,
    call                \* what each client's handler has loaded and will save

rows == <<request, reviews, audit>>
people == <<task, reorganised>>
vars == <<rows, people, call>>

-----------------------------------------------------------------------------
Final == {"APPROVED", "REJECTED", "CANCELLED"}

Decisions == Final \cup {"RETURNED_FOR_REVISION"}

Statuses == Decisions \cup {"NEW", "UNDER_REVIEW", "ESCALATED"}

\* CHANGE_REQUEST_STATUS_TRANSITIONS
Transitions(from) ==
    CASE from = "NEW" -> Decisions \cup {"UNDER_REVIEW", "ESCALATED"}
      [] from \in {"UNDER_REVIEW", "ESCALATED"} -> Decisions \cup {"ESCALATED"}
      [] from = "RETURNED_FOR_REVISION" -> {"UNDER_REVIEW", "CANCELLED"}
      [] OTHER -> {"UNDER_REVIEW"}

SomeUser == Users \cup {NoUser}

\* resolvedAt: whether there is a date.
Row == [status : Statuses \cup {"none"}, createdBy : SomeUser, escalatedTo : SomeUser,
        resolvedBy : SomeUser, resolvedAt : BOOLEAN]

NoRow == [status |-> "none", createdBy |-> NoUser, escalatedTo |-> NoUser,
          resolvedBy |-> NoUser, resolvedAt |-> FALSE]

Review == [reviewer : Users, status : ReviewDecisions \cup {"PENDING"}]

Operations == {"create", "assign", "decide", "revise", "reopen", "escalate", "resolve"}

AuditEntry == [action : Operations, from : Statuses \cup {"none"}, to : Statuses]

TaskPeople == [reportee : SomeUser, assignees : SUBSET Users, parentReportee : SomeUser]

ASSUME OrganisationAssumption ==
    Organisations \subseteq TaskPeople /\ Resolutions \subseteq Decisions

(***************************************************************************)
(* A handler at work: the row it loaded, how many reviews and audit        *)
(* entries it loaded with it, the status, user, review and review decision *)
(* it works with, and the row the save read again.                         *)
(***************************************************************************)
Phases == {"idle", "loaded", "saving"}

Call == [phase : Phases, op : Operations, to : Statuses, user : SomeUser,
         review : Nat, decision : ReviewDecisions \cup {"PENDING"},
         loaded : Row, reviews : Nat, audits : Nat, seen : Row]

Idle == [phase |-> "idle", op |-> "create", to |-> "NEW", user |-> NoUser,
         review |-> 0, decision |-> "PENDING",
         loaded |-> NoRow, reviews |-> 0, audits |-> 0, seen |-> NoRow]

-----------------------------------------------------------------------------
(***************************************************************************)
(* Who may do what: task-auth.service.ts and the service's own checks.     *)
(***************************************************************************)
Participant(u) == u \in task.assignees \/ u = task.reportee

Access(u) ==
    \/ \E i \in 1 .. Len(reviews) : reviews[i].reviewer = u
    \/ u \in {request.createdBy, request.escalatedTo}
    \/ Participant(u)

Open == request.status \notin Final \cup {"none"}

CanMove(to) == request.status # "none" /\ to \in Transitions(request.status)

-----------------------------------------------------------------------------
(***************************************************************************)
(* The handlers, up to their transaction.                                  *)
(***************************************************************************)
Load(c, op, to, u, i, decision) ==
    /\ call[c].phase = "idle"
    /\ call' = [call EXCEPT ![c] =
                 [phase |-> "loaded", op |-> op, to |-> to, user |-> u,
                  review |-> i, decision |-> decision, loaded |-> request,
                  reviews |-> Len(reviews), audits |-> Len(audit), seen |-> NoRow]]
    /\ UNCHANGED <<rows, people>>

Create(u) ==
    /\ request.status = "none"
    /\ Participant(u)
    /\ request' = [NoRow EXCEPT !.status = "NEW", !.createdBy = u]
    /\ audit' = Append(audit, [action |-> "create", from |-> "none", to |-> "NEW"])
    /\ UNCHANGED <<reviews, people, call>>

AssignReview(c, u, reviewer) ==
    /\ Access(u) /\ Open
    /\ Load(c, "assign", IF request.status = "NEW" THEN "UNDER_REVIEW" ELSE request.status,
            reviewer, 0, "PENDING")

DecideReview(c, u, i, decision) ==
    /\ Access(u) /\ Open
    /\ reviews[i] = [reviewer |-> u, status |-> "PENDING"]
    /\ Load(c, "decide", request.status, u, i, decision)

SubmitRevision(c, u) ==
    /\ Access(u)
    /\ u = request.createdBy \/ Participant(u)
    /\ request.status = "RETURNED_FOR_REVISION"
    /\ CanMove("UNDER_REVIEW")
    /\ Load(c, "revise", "UNDER_REVIEW", NoUser, 0, "PENDING")

Reopen(c, u) ==
    /\ u = task.reportee
    /\ CanMove("UNDER_REVIEW")
    /\ Load(c, "reopen", "UNDER_REVIEW", NoUser, 0, "PENDING")

Escalate(c, u) ==
    /\ Participant(u)
    /\ Open /\ CanMove("ESCALATED")
    /\ task.parentReportee # NoUser
    /\ Load(c, "escalate", "ESCALATED", task.parentReportee, 0, "PENDING")

Resolve(c, u, decision) ==
    /\ u = task.reportee
    /\ Open /\ CanMove(decision)
    /\ Load(c, "resolve", decision, u, 0, "PENDING")

-----------------------------------------------------------------------------
(***************************************************************************)
(* The transaction.  A review is decided, and one more assigned, without   *)
(* saving the change request.                                              *)
(***************************************************************************)
Saves(k) ==
    \/ k.op \in {"revise", "reopen", "escalate", "resolve"}
    \/ k.op = "assign" /\ k.loaded.status = "NEW"

\* Mutant of the next: the audit entries are not loaded with the request.
Grown_Reviews(k) == Len(reviews) > k.reviews

\* Saving a row with fewer reviews or audit entries than it has would detach
\* the others from it, which their columns do not allow: the save fails.
Grown(k) == Len(reviews) > k.reviews \/ Len(audit) > k.audits

\* A user loaded with the row wins over the id assigned beside it.
Linked(loaded, id) == IF loaded # NoUser THEN loaded ELSE id

\* The loaded row with the handler's assignments, as it is saved.
Entity(k) ==
    CASE k.op = "escalate" ->
           [k.loaded EXCEPT !.status = k.to, !.escalatedTo = Linked(@, k.user)]
      [] k.op = "resolve" ->
           [k.loaded EXCEPT !.status = k.to, !.resolvedBy = Linked(@, k.user), !.resolvedAt = TRUE]
      [] k.op \in {"revise", "reopen"} ->
           [k.loaded EXCEPT !.status = k.to, !.resolvedBy = Linked(@, NoUser), !.resolvedAt = FALSE]
      [] OTHER -> [k.loaded EXCEPT !.status = k.to]

\* The columns an UPDATE writes: those that differ, a new date, and, as
\* TypeORM may take an absent user for a change, any absent user.
Written(k) ==
    {col \in DOMAIN NoRow : Entity(k)[col] # k.seen[col]}
        \cup (IF k.op = "resolve" THEN {"resolvedAt"} ELSE {})

Absent(k) == {col \in {"escalatedTo", "resolvedBy"} : Entity(k)[col] = NoUser}

\* The save reads the row again, and fails or goes on to write it.
Reload(c) ==
    /\ call[c].phase = "loaded"
    /\ Saves(call[c])
    /\ call' = [call EXCEPT ![c] =
                 IF Grown(call[c]) THEN Idle ELSE [@ EXCEPT !.phase = "saving", !.seen = request]]
    /\ UNCHANGED <<rows, people>>

UpdateRow(k) ==
    \E absent \in SUBSET Absent(k) :
        LET col(f) == IF f \in Written(k) \cup absent THEN Entity(k)[f] ELSE request[f]
        IN  request' = [status |-> col("status"), createdBy |-> col("createdBy"),
                        escalatedTo |-> col("escalatedTo"), resolvedBy |-> col("resolvedBy"),
                        resolvedAt |-> col("resolvedAt")]

UpdateReviews(k) ==
    reviews' =
        CASE k.op = "assign" -> Append(reviews, [reviewer |-> k.user, status |-> "PENDING"])
          [] k.op = "decide" -> [reviews EXCEPT ![k.review].status = k.decision]
          [] OTHER -> reviews

\* Mutant of the next: the entry is written with the status before.
Logged_From(k) == Append(audit, [action |-> k.op, from |-> k.loaded.status, to |-> k.loaded.status])

Logged(k) == Append(audit, [action |-> k.op, from |-> k.loaded.status, to |-> k.to])

Commit(c) ==
    /\ call[c].phase = IF Saves(call[c]) THEN "saving" ELSE "loaded"
    /\ Len(audit) < MaxAudit
    /\ IF Saves(call[c]) THEN UpdateRow(call[c]) ELSE UNCHANGED request
    /\ UpdateReviews(call[c])
    /\ audit' = Logged(call[c])
    /\ call' = [call EXCEPT ![c] = Idle]
    /\ UNCHANGED people

-----------------------------------------------------------------------------
\* The people of the task change: other services.
Reorganise ==
    /\ reorganised < MaxReorganised
    /\ reorganised' = reorganised + 1
    /\ task' \in Organisations
    /\ UNCHANGED <<rows, call>>

Init ==
    /\ request = NoRow
    /\ reviews = <<>> /\ audit = <<>>
    /\ task \in Organisations
    /\ reorganised = 0
    /\ call = [c \in Clients |-> Idle]

Handle(c, u) ==
    \/ \E reviewer \in Users : AssignReview(c, u, reviewer)
    \/ \E i \in 1 .. Len(reviews), decision \in ReviewDecisions : DecideReview(c, u, i, decision)
    \/ SubmitRevision(c, u)
    \/ Reopen(c, u)
    \/ Escalate(c, u)
    \/ \E decision \in Resolutions : Resolve(c, u, decision)

Next ==
    \/ \E u \in Users : Create(u)
    \/ \E c \in Clients, u \in Users : Handle(c, u)
    \/ \E c \in Clients : Reload(c) \/ Commit(c)
    \/ Reorganise

Spec == Init /\ [][Next]_vars

-----------------------------------------------------------------------------
(***************************************************************************)
(* Every variable holds a value of its kind.                               *)
(***************************************************************************)
TypeOK ==
    /\ request \in Row
    /\ reviews \in Seq(Review)
    /\ audit \in Seq(AuditEntry)
    /\ task \in TaskPeople
    /\ reorganised \in Nat
    /\ call \in [Clients -> Call]

(***************************************************************************)
(* No save is based on a row that had changed when the save read it again: *)
(* every operation that changes the row also adds an audit entry, and a    *)
(* save with fewer entries than there are fails.                           *)
(***************************************************************************)
SavesAreFresh == \A c \in Clients : call[c].phase = "saving" => call[c].seen = call[c].loaded

(***************************************************************************)
(* "a formal audit entry is recorded": a decided request has the decision  *)
(* it shows on record, as the last one, whatever saves have overlapped.    *)
(***************************************************************************)
DecisionEntries == {i \in 1 .. Len(audit) : audit[i].action = "resolve"}

DecisionIsOnRecord ==
    request.status \in Decisions =>
        \E i \in DecisionEntries :
            /\ \A j \in DecisionEntries : j <= i
            /\ audit[i].to = request.status

(***************************************************************************)
(* The first review takes a request out of NEW, and it never gets back:    *)
(* whatever saves overlap, a new request has no review.                    *)
(***************************************************************************)
NewIsUnreviewed == request.status = "NEW" => reviews = <<>>

(***************************************************************************)
(* "Final decisions must be reopened by the task reportee before any new   *)
(* review pass continues": nothing else takes a request out of a final     *)
(* decision, but a save that another overtook after it read the row again. *)
(***************************************************************************)
LeavesFinal == request.status \in Final /\ request'.status # request.status

Ends(c) == call[c].phase # "idle" /\ call'[c].phase = "idle"

FinalIsLeftByReopenIfFresh ==
    [][LeavesFinal => \E c \in Clients : Ends(c) /\ (call[c].op = "reopen" \/ call[c].seen # request)]_vars

=============================================================================
