------------------------ MODULE ChangeRequestProofs ------------------------
(***************************************************************************)
(* What holds of a change request however many clients handle it at once.  *)
(***************************************************************************)
EXTENDS ChangeRequests, SequenceTheorems, TLAPS

(***************************************************************************)
(* What a handler means to do, from what it loaded.                        *)
(***************************************************************************)
Meant(k) ==
    /\ k.op # "create"
    /\ k.op \in {"assign", "decide", "escalate", "resolve"} => k.loaded.status \notin Final
    /\ k.op = "assign" =>
         /\ k.user \in Users
         /\ k.to = IF k.loaded.status = "NEW" THEN "UNDER_REVIEW" ELSE k.loaded.status
    /\ k.op = "decide" => k.to = k.loaded.status /\ k.decision \in ReviewDecisions
    /\ k.op = "revise" => k.loaded.status = "RETURNED_FOR_REVISION"
    /\ k.op \in {"revise", "reopen"} => k.to = "UNDER_REVIEW"
    /\ k.op = "escalate" => k.to = "ESCALATED"
    /\ k.op = "resolve" => k.to \in Decisions /\ k.to # k.loaded.status

(***************************************************************************)
(* As long as no audit entry was added the loaded row is the current one.  *)
(***************************************************************************)
Current(k) ==
    /\ k.audits <= Len(audit)
    /\ k.audits = Len(audit) => k.loaded = request

CallInv(k) ==
    k.phase # "idle" =>
        /\ Meant(k)
        /\ k.loaded.status # "none" /\ request.status # "none"
        /\ k.loaded.status # "NEW" => request.status # "NEW"
        /\ k.phase = "loaded" => Current(k)
        /\ k.phase = "saving" => Saves(k) /\ k.seen = k.loaded

Unreviewed == request.status \in {"none", "NEW"} => reviews = <<>>

IInv ==
    /\ TypeOK
    /\ DecisionIsOnRecord
    /\ Unreviewed
    /\ \A c \in Clients : CallInv(call[c])

-----------------------------------------------------------------------------
LEMMA NoRowIsRow == NoRow \in Row /\ Idle \in Call
  BY DEF NoRow, Idle, Row, Call, SomeUser, Phases, Operations, Statuses, Decisions, Final

(***************************************************************************)
(* A handler that has passed its checks means what its operation says.     *)
(***************************************************************************)
LEMMA LoadPreserves ==
  ASSUME IInv, NEW c \in Clients, NEW op \in Operations, NEW to \in Statuses,
         NEW u \in SomeUser, NEW i \in Nat, NEW decision \in ReviewDecisions \cup {"PENDING"},
         Load(c, op, to, u, i, decision),
         request.status # "none",
         Meant([phase |-> "loaded", op |-> op, to |-> to, user |-> u,
                review |-> i, decision |-> decision, loaded |-> request,
                reviews |-> Len(reviews), audits |-> Len(audit), seen |-> NoRow])
  PROVE  IInv'
<1> DEFINE k == [phase |-> "loaded", op |-> op, to |-> to, user |-> u,
                 review |-> i, decision |-> decision, loaded |-> request,
                 reviews |-> Len(reviews), audits |-> Len(audit), seen |-> NoRow]
<1>1. /\ call' = [call EXCEPT ![c] = k]
      /\ UNCHANGED <<request, reviews, audit, task, reorganised>>
  BY DEF Load, rows, people
<1>2. Len(reviews) \in Nat /\ Len(audit) \in Nat
  BY DEF IInv, TypeOK
<1>3. k \in Call
  BY <1>2, NoRowIsRow DEF Call, Phases, IInv, TypeOK
<1>4. CallInv(k)
  BY <1>2 DEF CallInv, Current
<1> HIDE DEF k
<1>5. TypeOK'
  BY <1>1, <1>3 DEF IInv, TypeOK
<1>6. ASSUME NEW d \in Clients PROVE CallInv(call[d])'
  <2>1. call'[d] = IF d = c THEN k ELSE call[d]
    BY <1>1 DEF IInv, TypeOK
  <2> QED BY <1>1, <1>4, <2>1 DEF IInv, CallInv, Current
<1> QED BY <1>1, <1>5, <1>6 DEF IInv, DecisionIsOnRecord, DecisionEntries, Unreviewed

LEMMA TransitionsTo ==
  ASSUME NEW from, NEW to, to \in Transitions(from)
  PROVE  /\ from \in Final => to = "UNDER_REVIEW"
         /\ to \in Decisions => to # from
         /\ to \in Statuses
  BY DEF Transitions, Final, Decisions, Statuses

LEMMA HandlePreserves ==
  ASSUME IInv, NEW c \in Clients, NEW u \in Users, Handle(c, u)
  PROVE  IInv'
<1> USE DEF Operations, Statuses, Decisions, Final
<1>1. ASSUME NEW reviewer \in Users, AssignReview(c, u, reviewer) PROVE IInv'
  <2> DEFINE to == IF request.status = "NEW" THEN "UNDER_REVIEW" ELSE request.status
  <2>1. request.status \notin Final \cup {"none"} /\ Load(c, "assign", to, reviewer, 0, "PENDING")
    BY <1>1 DEF AssignReview, Open
  <2>2. to \in Statuses /\ reviewer \in SomeUser
    BY <2>1 DEF IInv, TypeOK, Row, SomeUser
  <2> QED BY <2>1, <2>2, LoadPreserves DEF Meant
<1>2. ASSUME NEW i \in 1 .. Len(reviews), NEW decision \in ReviewDecisions,
             DecideReview(c, u, i, decision)
      PROVE  IInv'
  <2>1. request.status \notin Final \cup {"none"} /\ Load(c, "decide", request.status, u, i, decision)
    BY <1>2 DEF DecideReview, Open
  <2>2. request.status \in Statuses /\ u \in SomeUser /\ i \in Nat
    BY <2>1 DEF IInv, TypeOK, Row, SomeUser
  <2> QED BY <2>1, <2>2, LoadPreserves DEF Meant
<1>3. CASE SubmitRevision(c, u)
  BY <1>3, LoadPreserves DEF SubmitRevision, Meant, SomeUser
<1>4. CASE Reopen(c, u)
  BY <1>4, LoadPreserves DEF Reopen, CanMove, Meant, SomeUser
<1>5. CASE Escalate(c, u)
  <2>1. task.parentReportee \in SomeUser
    BY DEF IInv, TypeOK, TaskPeople
  <2> QED BY <1>5, <2>1, LoadPreserves DEF Escalate, Open, Meant
<1>6. ASSUME NEW decision \in Resolutions, Resolve(c, u, decision) PROVE IInv'
  <2>1. decision \in Decisions /\ decision # request.status
    BY <1>6, OrganisationAssumption, TransitionsTo DEF Resolve, CanMove
  <2> QED BY <1>6, <2>1, LoadPreserves DEF Resolve, Open, Meant, SomeUser
<1> QED BY <1>1, <1>2, <1>3, <1>4, <1>5, <1>6 DEF Handle

-----------------------------------------------------------------------------
LEMMA CreatePreserves ==
  ASSUME IInv, NEW u \in Users, Create(u) PROVE IInv'
<1> DEFINE entry == [action |-> "create", from |-> "none", to |-> "NEW"]
<1>1. /\ request.status = "none"
      /\ request' = [NoRow EXCEPT !.status = "NEW", !.createdBy = u]
      /\ audit' = Append(audit, entry)
      /\ UNCHANGED <<reviews, task, reorganised, call>>
  BY DEF Create, people
<1>2. request' \in Row /\ request'.status = "NEW"
  BY <1>1 DEF NoRow, Row, Statuses, SomeUser
<1>3. entry \in AuditEntry
  BY DEF AuditEntry, Operations, Statuses
<1>4. TypeOK'
  BY <1>1, <1>2, <1>3, AppendProperties DEF IInv, TypeOK
<1>5. \A c \in Clients : call[c].phase = "idle"
  BY <1>1 DEF IInv, CallInv
<1> QED
  BY <1>1, <1>2, <1>4, <1>5 DEF IInv, CallInv, DecisionIsOnRecord, Unreviewed, Decisions, Final

LEMMA ReloadPreserves ==
  ASSUME IInv, NEW c \in Clients, Reload(c) PROVE IInv'
<1> DEFINE k == call[c]
           new == IF Grown(k) THEN Idle ELSE [k EXCEPT !.phase = "saving", !.seen = request]
<1>1. /\ k.phase = "loaded" /\ Saves(k)
      /\ call' = [call EXCEPT ![c] = new]
      /\ UNCHANGED <<request, reviews, audit, task, reorganised>>
  BY DEF Reload, rows, people
<1>2. k \in Call /\ request \in Row /\ Len(audit) \in Nat
  BY DEF IInv, TypeOK
<1>3. new \in Call
  BY <1>2, NoRowIsRow DEF Call, Phases
<1>4. CallInv(new)
  <2>1. CASE Grown(k)
    BY <2>1 DEF CallInv, Idle
  <2>2. CASE ~Grown(k)
    <3>1. k.audits \in Nat
      BY <1>2 DEF Call
    <3>2. k.loaded = request
      BY <1>1, <1>2, <2>2, <3>1 DEF IInv, CallInv, Current, Grown
    <3>3. new = [k EXCEPT !.phase = "saving", !.seen = request]
      BY <2>2
    <3>4. /\ new.phase = "saving" /\ new.seen = request
          /\ new.op = k.op /\ new.to = k.to /\ new.user = k.user
          /\ new.decision = k.decision /\ new.loaded = k.loaded
      BY <1>2, <3>3 DEF Call
    <3> HIDE DEF new
    <3> QED BY <1>1, <3>2, <3>4 DEF IInv, CallInv, Meant, Saves
  <2> QED BY <2>1, <2>2
<1> HIDE DEF new
<1>5. TypeOK'
  BY <1>1, <1>3 DEF IInv, TypeOK
<1>6. ASSUME NEW d \in Clients PROVE CallInv(call[d])'
  <2>1. call'[d] = IF d = c THEN new ELSE call[d]
    BY <1>1 DEF IInv, TypeOK
  <2> QED BY <1>1, <1>4, <2>1 DEF IInv, CallInv, Current
<1> QED BY <1>1, <1>5, <1>6 DEF IInv, DecisionIsOnRecord, DecisionEntries, Unreviewed

-----------------------------------------------------------------------------
(***************************************************************************)
(* The row a handler saves, and what saving it does to the status.         *)
(***************************************************************************)
LEMMA EntityIsRow ==
  ASSUME NEW k \in Call
  PROVE  Entity(k) \in Row /\ Entity(k).status = k.to
<1>1. k.loaded \in Row /\ k.to \in Statuses /\ k.user \in SomeUser
  BY DEF Call
<1>2. Linked(k.loaded.escalatedTo, k.user) \in SomeUser
  BY <1>1 DEF Linked, Row
<1>3. \A u \in SomeUser : Linked(k.loaded.resolvedBy, u) \in SomeUser
  BY <1>1 DEF Linked, Row
<1>4. NoUser \in SomeUser
  BY DEF SomeUser
<1> QED BY <1>1, <1>2, <1>3, <1>4 DEF Entity, Row

LEMMA UpdatedStatus ==
  ASSUME NEW k \in Call, request \in Row, UpdateRow(k)
  PROVE  /\ request' \in Row
         /\ request'.status = IF k.to # k.seen.status THEN k.to ELSE request.status
<1> DEFINE row(absent) == LET col(f) == IF f \in Written(k) \cup absent THEN Entity(k)[f] ELSE request[f]
                          IN  [status |-> col("status"), createdBy |-> col("createdBy"),
                               escalatedTo |-> col("escalatedTo"), resolvedBy |-> col("resolvedBy"),
                               resolvedAt |-> col("resolvedAt")]
<1>1. PICK absent \in SUBSET Absent(k) : request' = row(absent)
  BY DEF UpdateRow
<1>2. Entity(k) \in Row /\ Entity(k).status = k.to
  BY EntityIsRow
<1>3. row(absent) \in Row
  BY <1>2 DEF Row
<1>4. "status" \in Written(k) <=> k.to # k.seen.status
  BY <1>2 DEF Written, NoRow
<1>5. "status" \notin absent
  BY DEF Absent
<1>6. row(absent).status = IF "status" \in Written(k) THEN Entity(k).status ELSE request.status
  BY <1>5
<1> QED BY <1>1, <1>2, <1>3, <1>4, <1>6

LEMMA UpdatedReviews ==
  ASSUME NEW k \in Call, Meant(k), reviews \in Seq(Review), UpdateReviews(k)
  PROVE  /\ reviews' \in Seq(Review)
         /\ k.op # "assign" /\ reviews = <<>> => reviews' = <<>>
<1>1. CASE k.op = "assign"
  <2>1. [reviewer |-> k.user, status |-> "PENDING"] \in Review
    BY <1>1 DEF Meant, Review
  <2> QED BY <1>1, <2>1, AppendProperties DEF UpdateReviews
<1>2. CASE k.op = "decide"
  <2> DEFINE i == k.review
  <2>1. reviews' = [reviews EXCEPT ![i].status = k.decision]
    BY <1>2 DEF UpdateReviews
  <2>2. CASE i \in 1 .. Len(reviews)
    <3>1. reviews[i] \in Review
      BY <2>2, ElementOfSeq
    <3>2. [reviews[i] EXCEPT !.status = k.decision] \in Review
      BY <1>2, <3>1 DEF Meant, Review
    <3> QED BY <1>2, <2>1, <2>2, <3>2, ExceptSeq
  <2>3. CASE i \notin 1 .. Len(reviews)
    <3>1. DOMAIN reviews = 1 .. Len(reviews)
      BY LenProperties
    <3>2. reviews' = reviews
      BY <2>1, <2>3, <3>1
    <3> QED BY <1>2, <3>2
  <2>4. reviews = <<>> => Len(reviews) = 0
    OBVIOUS
  <2> QED BY <1>2, <2>2, <2>3, <2>4
<1>3. CASE k.op \notin {"assign", "decide"}
  BY <1>3 DEF UpdateReviews
<1> QED BY <1>1, <1>2, <1>3

-----------------------------------------------------------------------------
(***************************************************************************)
(* What committing a handler's transaction does to the status: the save,   *)
(* if there is one, was based on the row as it was when loaded.            *)
(***************************************************************************)
LEMMA CommittedStatus ==
  ASSUME IInv, NEW c \in Clients, Commit(c)
  PROVE  /\ request' \in Row
         /\ call[c].phase # "idle"
         /\ Saves(call[c]) => call[c].seen = call[c].loaded
         /\ request'.status = IF Saves(call[c]) /\ call[c].to # call[c].loaded.status
                              THEN call[c].to ELSE request.status
<1> DEFINE k == call[c]
<1>1. k \in Call /\ request \in Row /\ k.phase = IF Saves(k) THEN "saving" ELSE "loaded"
  BY DEF IInv, TypeOK, Commit
<1>2. CallInv(k) /\ k.phase # "idle"
  BY <1>1 DEF IInv
<1>3. CASE Saves(k)
  <2>1. UpdateRow(k) /\ k.seen = k.loaded
    BY <1>1, <1>2, <1>3 DEF Commit, CallInv
  <2> QED BY <1>1, <1>3, <2>1, UpdatedStatus
<1>4. CASE ~Saves(k)
  BY <1>1, <1>4 DEF Commit
<1> QED BY <1>1, <1>3, <1>4

LEMMA CommitPreserves ==
  ASSUME IInv, NEW c \in Clients, Commit(c) PROVE IInv'
<1> DEFINE k == call[c]
           entry == [action |-> k.op, from |-> k.loaded.status, to |-> k.to]
<1>1. k \in Call /\ k.phase # "idle" /\ CallInv(k) /\ Meant(k)
  BY CommittedStatus DEF IInv, TypeOK, CallInv
<1>2. /\ audit' = Append(audit, entry) /\ audit \in Seq(AuditEntry)
      /\ call' = [call EXCEPT ![c] = Idle]
      /\ UNCHANGED <<task, reorganised>>
      /\ UpdateReviews(k)
  BY DEF Commit, Logged, people, IInv, TypeOK
<1>3. entry \in AuditEntry /\ k.to \in Statuses /\ k.loaded \in Row
  BY <1>1 DEF AuditEntry, Call, Row
<1>4. /\ audit' \in Seq(AuditEntry)
      /\ Len(audit') = Len(audit) + 1 /\ Len(audit) \in Nat
      /\ audit'[Len(audit) + 1] = entry
      /\ \A i \in 1 .. Len(audit) : audit'[i] = audit[i]
  BY <1>2, <1>3, AppendProperties
<1>5. /\ reviews' \in Seq(Review)
      /\ k.op # "assign" /\ reviews = <<>> => reviews' = <<>>
  BY <1>1, <1>2, UpdatedReviews DEF IInv, TypeOK
<1>6. /\ request' \in Row
      /\ request'.status = IF Saves(k) /\ k.to # k.loaded.status THEN k.to ELSE request.status
  BY CommittedStatus
<1> HIDE DEF k, entry
<1>7. TypeOK'
  BY <1>2, <1>4, <1>5, <1>6, NoRowIsRow DEF IInv, TypeOK
<1>8. Saves(k) => k.to # "NEW"
  BY <1>1 DEF Saves, Meant, Decisions, Final
<1>9. request.status # "none" /\ (k.loaded.status # "NEW" => request.status # "NEW")
  BY <1>1 DEF CallInv
<1>10. request'.status # "none" /\ (request.status # "NEW" => request'.status # "NEW")
  BY <1>3, <1>6, <1>8, <1>9 DEF Statuses, Decisions, Final
<1>11. ASSUME NEW d \in Clients PROVE CallInv(call[d])'
  <2>1. CASE d = c
    <3>1. call'[d].phase = "idle"
      BY <1>2, <2>1 DEF IInv, TypeOK, Idle
    <3> QED BY <3>1 DEF CallInv
  <2>2. CASE d # c
    <3>1. call'[d] = call[d] /\ call[d] \in Call
      BY <1>2, <2>2 DEF IInv, TypeOK
    <3>2. call[d].audits \in Nat
      BY <3>1 DEF Call
    <3>3. call[d].phase = "loaded" /\ Current(call[d]) => Current(call[d])'
      BY <1>4, <3>1, <3>2 DEF Current
    <3> QED BY <1>10, <3>1, <3>3 DEF IInv, CallInv
  <2> QED BY <2>1, <2>2
<1>12. Unreviewed'
  <2>1. SUFFICES ASSUME request'.status = "NEW" PROVE reviews' = <<>>
    BY <1>10 DEF Unreviewed
  <2>2. request.status = "NEW" /\ reviews = <<>>
    BY <1>10, <2>1 DEF IInv, Unreviewed
  <2>3. k.loaded.status = "NEW"
    BY <1>9, <2>2
  <2>4. k.op # "assign"
    BY <1>1, <1>6, <2>1, <2>3 DEF Saves, Meant
  <2> QED BY <1>5, <2>2, <2>4
<1>13. DecisionIsOnRecord'
  <2>1. SUFFICES ASSUME request'.status \in Decisions
                 PROVE  \E i \in DecisionEntries' :
                          /\ \A j \in DecisionEntries' : j <= i
                          /\ audit'[i].to = request'.status
    BY DEF DecisionIsOnRecord
  <2>2. CASE k.op = "resolve"
    <3>1. request'.status = k.to
      BY <1>1, <1>6, <2>2 DEF Saves, Meant
    <3>2. Len(audit) + 1 \in DecisionEntries' /\ \A j \in DecisionEntries' : j <= Len(audit) + 1
      BY <1>4, <2>2 DEF DecisionEntries, entry
    <3>3. audit'[Len(audit) + 1].to = k.to
      BY <1>4 DEF entry
    <3> QED BY <3>1, <3>2, <3>3
  <2>3. CASE k.op # "resolve"
    <3>1. request'.status = request.status
      BY <1>1, <1>6, <2>1, <2>3 DEF Saves, Meant, Decisions, Final
    <3>2. DecisionEntries' = DecisionEntries
      <4>1. audit'[Len(audit) + 1].action # "resolve"
        BY <1>4, <2>3 DEF entry
      <4> QED BY <1>4, <4>1 DEF DecisionEntries
    <3>3. PICK i \in DecisionEntries : /\ \A j \in DecisionEntries : j <= i
                                       /\ audit[i].to = request.status
      BY <2>1, <3>1 DEF IInv, DecisionIsOnRecord
    <3>4. audit'[i] = audit[i]
      BY <1>4 DEF DecisionEntries
    <3> QED BY <3>1, <3>2, <3>3, <3>4
  <2> QED BY <2>2, <2>3
<1> QED BY <1>7, <1>11, <1>12, <1>13 DEF IInv

-----------------------------------------------------------------------------
LEMMA InitIsInductive == Init => IInv
  BY NoRowIsRow, OrganisationAssumption
  DEF Init, IInv, TypeOK, DecisionIsOnRecord, Unreviewed, CallInv, NoRow, Idle, Decisions, Final

LEMMA StepIsInductive == IInv /\ [Next]_vars => IInv'
<1> SUFFICES ASSUME IInv, [Next]_vars PROVE IInv'
  OBVIOUS
<1>1. CASE \E u \in Users : Create(u)
  BY <1>1, CreatePreserves
<1>2. CASE \E c \in Clients, u \in Users : Handle(c, u)
  BY <1>2, HandlePreserves
<1>3. CASE \E c \in Clients : Reload(c) \/ Commit(c)
  BY <1>3, ReloadPreserves, CommitPreserves
<1>4. CASE Reorganise
  BY <1>4, OrganisationAssumption
  DEF Reorganise, rows, IInv, TypeOK, DecisionIsOnRecord, DecisionEntries, Unreviewed, CallInv, Current
<1>5. CASE UNCHANGED vars
  BY <1>5 DEF vars, rows, people, IInv, TypeOK, DecisionIsOnRecord, DecisionEntries, Unreviewed,
              CallInv, Current
<1> QED BY <1>1, <1>2, <1>3, <1>4, <1>5 DEF Next

LEMMA Inductive == Spec => []IInv
  BY InitIsInductive, StepIsInductive, PTL DEF Spec

(***************************************************************************)
(* Every variable of the change request holds a value of its kind.         *)
(***************************************************************************)
THEOREM TypeCorrect == Spec => []TypeOK
<1>1. IInv => TypeOK
  BY DEF IInv
<1> QED BY <1>1, Inductive, PTL

(***************************************************************************)
(* The audit trail guards every save of task-change-requests.service.ts    *)
(* against a row that changed before the save read it again.               *)
(***************************************************************************)
THEOREM SavesAreFreshAlways == Spec => []SavesAreFresh
<1>1. IInv => SavesAreFresh
  BY DEF IInv, CallInv, SavesAreFresh
<1> QED BY <1>1, Inductive, PTL

(***************************************************************************)
(* A decided change request shows the decision recorded last, however many *)
(* saves overlap.                                                          *)
(***************************************************************************)
THEOREM DecisionIsOnRecordAlways == Spec => []DecisionIsOnRecord
<1>1. IInv => DecisionIsOnRecord
  BY DEF IInv
<1> QED BY <1>1, Inductive, PTL

(***************************************************************************)
(* A new change request has no review.                                     *)
(***************************************************************************)
THEOREM NewIsUnreviewedAlways == Spec => []NewIsUnreviewed
<1>1. IInv => NewIsUnreviewed
  BY DEF IInv, Unreviewed, NewIsUnreviewed
<1> QED BY <1>1, Inductive, PTL

(***************************************************************************)
(* A final decision is left by a reopening, or by a save that another      *)
(* transaction overtook.                                                   *)
(***************************************************************************)
LEMMA FinalStep ==
  ASSUME IInv, [Next]_vars, LeavesFinal
  PROVE  \E c \in Clients : Ends(c) /\ (call[c].op = "reopen" \/ call[c].seen # request)
<1>1. request.status \in Final /\ request'.status # request.status
  BY DEF LeavesFinal
<1>2. ASSUME NEW u \in Users, Create(u) PROVE FALSE
  BY <1>1, <1>2 DEF Create, Final
<1>3. ASSUME NEW c \in Clients, NEW u \in Users, Handle(c, u) PROVE FALSE
  BY <1>1, <1>3 DEF Handle, AssignReview, DecideReview, SubmitRevision, Reopen, Escalate, Resolve,
                    Load, rows
<1>4. ASSUME NEW c \in Clients, Reload(c) PROVE FALSE
  BY <1>1, <1>4 DEF Reload, rows
<1>5. ASSUME NEW c \in Clients, Commit(c)
      PROVE  Ends(c) /\ (call[c].op = "reopen" \/ call[c].seen # request)
  <2>1. Saves(call[c]) /\ call[c].seen = call[c].loaded /\ call[c].phase # "idle"
    BY <1>1, <1>5, CommittedStatus
  <2>2. Meant(call[c])
    BY <2>1 DEF IInv, CallInv
  <2>3. call[c].seen = request => call[c].op = "reopen"
    BY <1>1, <2>1, <2>2 DEF Meant, Saves, Final
  <2>4. call'[c].phase = "idle"
    BY <1>5 DEF Commit, IInv, TypeOK, Idle
  <2> QED BY <2>1, <2>3, <2>4 DEF Ends
<1>6. ~Reorganise /\ ~(UNCHANGED vars)
  BY <1>1 DEF Reorganise, rows, vars
<1> QED BY <1>2, <1>3, <1>4, <1>5, <1>6 DEF Next

THEOREM FinalIsLeftByReopenAlways == Spec => FinalIsLeftByReopenIfFresh
<1>1. IInv /\ [Next]_vars =>
        [LeavesFinal =>
           \E c \in Clients : Ends(c) /\ (call[c].op = "reopen" \/ call[c].seen # request)]_vars
  BY FinalStep
<1> QED BY <1>1, Inductive, PTL DEF Spec, FinalIsLeftByReopenIfFresh

=============================================================================
