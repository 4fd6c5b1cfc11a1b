---------------------------- MODULE OutboxProofs ----------------------------
(***************************************************************************)
(* What the outbox guarantees for every number of events, flushes, batch   *)
(* sizes and retries.                                                      *)
(***************************************************************************)
EXTENDS Outbox, FiniteSetTheorems, TLAPS

(***************************************************************************)
(* Two flushes may save copies of the same rows over each other, so what   *)
(* holds of the rows has to hold of every copy in every flush.             *)
(***************************************************************************)
Counted(v) ==
    /\ v.status = "FAILED" => v.retryCount = OUTBOX_MAX_RETRIES
    /\ v.status = "PENDING" => v.retryCount < OUTBOX_MAX_RETRIES

Sent(v, e) == v.status = "PUBLISHED" => e \in Enqueued

Sound(v, e) == Counted(v) /\ Sent(v, e)

IInv ==
    /\ TypeOK
    /\ \A e \in Events : Sound(row[e], e)
    /\ \A f \in Flushers, e \in Events : Sound(copy[f][e], e)
    /\ \A f \in Flushers : \A e \in todo[f] : copy[f][e].status = "PENDING"

-----------------------------------------------------------------------------
(***************************************************************************)
(* A blank row says nothing.                                               *)
(***************************************************************************)
LEMMA BlankIsSound == Blank \in Row /\ \A e \in Events : Sound(Blank, e)
  BY OutboxAssumption DEF Blank, Row, Statuses, Sound, Counted, Sent

(***************************************************************************)
(* An attempt on a pending copy leaves a sound one, whether or not it      *)
(* succeeds, once a successful one has added the event.                    *)
(***************************************************************************)
LEMMA AttemptedIsSound ==
  ASSUME NEW v \in Row, v.status = "PENDING", v.retryCount < OUTBOX_MAX_RETRIES,
         NEW ok \in BOOLEAN
  PROVE  /\ Attempted(v, ok) \in Row
         /\ Counted(Attempted(v, ok))
         /\ ~ok => Attempted(v, ok).status # "PUBLISHED"
<1>1. CASE ok
  BY <1>1, OutboxAssumption DEF Attempted, Row, Statuses, Counted
<1>2. CASE ~ok
  <2> DEFINE n == v.retryCount + 1
  <2>1. v = [status |-> "PENDING", retryCount |-> v.retryCount] /\ n \in 1 .. OUTBOX_MAX_RETRIES
    BY OutboxAssumption DEF Row
  <2>2. CASE n >= OUTBOX_MAX_RETRIES
    <3>1. Attempted(v, ok) = [status |-> "FAILED", retryCount |-> n]
      BY <1>2, <2>1, <2>2 DEF Attempted
    <3> HIDE DEF n
    <3> QED BY <2>1, <2>2, <3>1, OutboxAssumption DEF Row, Statuses, Counted
  <2>3. CASE ~(n >= OUTBOX_MAX_RETRIES)
    <3>1. Attempted(v, ok) = [status |-> "PENDING", retryCount |-> n]
      BY <1>2, <2>1, <2>3 DEF Attempted
    <3> HIDE DEF n
    <3> QED BY <2>1, <2>3, <3>1, OutboxAssumption DEF Row, Statuses, Counted
  <2> QED BY <2>2, <2>3
<1> QED BY <1>1, <1>2

(***************************************************************************)
(* Rows may change as long as each new one is sound and nothing leaves the *)
(* queue unseen.                                                           *)
(***************************************************************************)
LEMMA RowsChange ==
  ASSUME IInv, UNCHANGED <<queue, flushes>>,
         created' \in [Events -> Nat], upsets' \in Nat,
         row' \in [Events -> Row],
         \A e \in Events : Sound(row'[e], e)
  PROVE  IInv'
  BY DEF IInv, TypeOK, Sound, Sent, Counted, Enqueued, queue, flushes

LEMMA SetRowIsSound ==
  ASSUME IInv, NEW e \in Events, NEW s \in {"open", "PENDING", "gone"}, SetRow(e, s, 0)
  PROVE  row' \in [Events -> Row] /\ \A d \in Events : Sound(row'[d], d)
<1>1. [status |-> s, retryCount |-> 0] \in Row
  BY OutboxAssumption DEF Row, Statuses
<1>2. row' \in [Events -> Row]
  BY <1>1 DEF IInv, TypeOK, SetRow
<1>3. ASSUME NEW d \in Events PROVE Sound(row'[d], d)
  <2>1. CASE d = e
    <3>1. row'[d] = [status |-> s, retryCount |-> 0]
      BY <2>1 DEF IInv, TypeOK, SetRow
    <3> QED BY <3>1, OutboxAssumption DEF Sound, Counted, Sent
  <2>2. CASE d # e
    BY <2>2 DEF IInv, TypeOK, SetRow
  <2> QED BY <2>1, <2>2
<1> QED BY <1>2, <1>3

LEMMA TransactionsPreserve ==
  ASSUME IInv, Transactions PROVE IInv'
<1> SUFFICES ASSUME NEW e \in Events, Begin(e) \/ Commit(e) \/ Rollback(e) PROVE IInv'
  BY DEF Transactions
<1>1. CASE Begin(e)
  <2>1. created' \in [Events -> Nat]
    <3>1. Cardinality({d \in Events : created[d] > 0}) + 1 \in Nat
      BY OutboxAssumption, FS_Subset, FS_CardinalityType
    <3> QED BY <1>1, <3>1 DEF Begin, IInv, TypeOK
  <2> QED BY <1>1, <2>1, RowsChange, SetRowIsSound DEF Begin, IInv, TypeOK
<1>2. CASE Commit(e)
  BY <1>2, RowsChange, SetRowIsSound DEF Commit, IInv, TypeOK
<1>3. CASE Rollback(e)
  BY <1>3, RowsChange, SetRowIsSound DEF Rollback, IInv, TypeOK
<1> QED BY <1>1, <1>2, <1>3

-----------------------------------------------------------------------------
(***************************************************************************)
(* A flush: its copies stay sound from the read to the save.               *)
(***************************************************************************)
LEMMA ReadPreserves ==
  ASSUME IInv, NEW f \in Flushers, Read(f) PROVE IInv'
<1> DEFINE new == [e \in Events |-> IF e \in Batch THEN row[e] ELSE Blank]
<1>1. new \in [Events -> Row] /\ Batch \subseteq Events
  BY BlankIsSound DEF IInv, TypeOK, Batch, Pending
<1>2. \A e \in Events : Sound(new[e], e)
  BY BlankIsSound DEF IInv
<1>3. \A e \in Batch : new[e].status = "PENDING"
  BY DEF Batch, Pending
<1>4. copy' = [copy EXCEPT ![f] = new] /\ todo' = [todo EXCEPT ![f] = Batch]
  BY DEF Read
<1>5. UNCHANGED <<created, row, jobs, dead, handled, upsets>>
  BY DEF Read, queue
<1> HIDE DEF new
<1>6. TypeOK'
  BY <1>1, <1>4, <1>5 DEF IInv, TypeOK
<1>7. \A e \in Events : Sound(row[e], e)'
  BY <1>5 DEF IInv, Sound, Counted, Sent, Enqueued
<1>8. ASSUME NEW g \in Flushers, NEW e \in Events PROVE Sound(copy[g][e], e)'
  <2>1. copy'[g] = IF g = f THEN new ELSE copy[g]
    BY <1>4 DEF IInv, TypeOK
  <2> QED BY <1>2, <1>5, <2>1 DEF IInv, Sound, Counted, Sent, Enqueued
<1>9. ASSUME NEW g \in Flushers, NEW e \in todo'[g] PROVE copy'[g][e].status = "PENDING"
  BY <1>3, <1>4, <1>9 DEF IInv, TypeOK
<1> QED BY <1>6, <1>7, <1>8, <1>9 DEF IInv

LEMMA EnqueuePreserves ==
  ASSUME IInv, NEW f \in Flushers, Enqueue(f) PROVE IInv'
<1>1. PICK e \in todo[f], ok \in BOOLEAN, added \in BOOLEAN :
        /\ ok => added
        /\ IF added THEN Add(e) ELSE UNCHANGED jobs
        /\ copy' = [copy EXCEPT ![f][e] = Attempted(copy[f][e], ok)]
        /\ todo' = [todo EXCEPT ![f] = @ \ {e}]
        /\ UNCHANGED <<created, row, dead, handled, upsets>>
  BY DEF Enqueue
<1> DEFINE v == Attempted(copy[f][e], ok)
<1>2. e \in Events /\ copy[f] \in [Events -> Row] /\ copy[f][e] \in Row
  BY DEF IInv, TypeOK
<1>3. copy[f][e].status = "PENDING" /\ copy[f][e].retryCount < OUTBOX_MAX_RETRIES
  BY <1>2 DEF IInv, Sound, Counted
<1>4. v \in Row /\ Counted(v) /\ (~ok => v.status # "PUBLISHED")
  BY <1>2, <1>3, AttemptedIsSound
<1>5. /\ jobs' \subseteq Events
      /\ Enqueued \subseteq Enqueued'
      /\ ok => e \in Enqueued'
  BY <1>1, <1>2 DEF IInv, TypeOK, Add, Enqueued
<1>6. copy' = [copy EXCEPT ![f] = [copy[f] EXCEPT ![e] = v]]
  BY <1>1
<1> HIDE DEF v
<1>7. TypeOK'
  <2>1. [copy[f] EXCEPT ![e] = v] \in [Events -> Row]
    BY <1>2, <1>4
  <2> QED BY <1>1, <1>5, <1>6, <2>1 DEF IInv, TypeOK
<1>8. \A d \in Events : Sound(row[d], d)'
  BY <1>1, <1>5 DEF IInv, Sound, Counted, Sent
<1>9. ASSUME NEW g \in Flushers, NEW d \in Events PROVE Sound(copy[g][d], d)'
  <2>1. CASE g = f /\ d = e
    <3>1. copy'[g][d] = v
      BY <1>2, <1>6, <2>1 DEF IInv, TypeOK
    <3> QED BY <1>4, <1>5, <2>1, <3>1 DEF Sound, Sent, Counted
  <2>2. CASE ~(g = f /\ d = e)
    <3>1. copy'[g][d] = copy[g][d]
      BY <1>2, <1>6, <2>2 DEF IInv, TypeOK
    <3> QED BY <1>5, <3>1 DEF IInv, Sound, Counted, Sent
  <2> QED BY <2>1, <2>2
<1>10. ASSUME NEW g \in Flushers, NEW d \in todo'[g] PROVE copy'[g][d].status = "PENDING"
  <2>1. d \in todo[g] /\ ~(g = f /\ d = e)
    BY <1>1, <1>10 DEF IInv, TypeOK
  <2>2. copy'[g][d] = copy[g][d]
    BY <1>2, <1>6, <2>1 DEF IInv, TypeOK
  <2> QED BY <2>1, <2>2 DEF IInv
<1> QED BY <1>7, <1>8, <1>9, <1>10 DEF IInv

(***************************************************************************)
(* A flush that ends keeps nothing, whatever it leaves in the rows.        *)
(***************************************************************************)
LEMMA DoneIsSound ==
  ASSUME IInv, NEW f \in Flushers, Done(f), UNCHANGED <<created, queue>>,
         row' \in [Events -> Row], \A e \in Events : Sound(row'[e], e),
         upsets' \in Nat
  PROVE  IInv'
<1> DEFINE new == [e \in Events |-> Blank]
<1>1. new \in [Events -> Row] /\ \A e \in Events : Sound(new[e], e)
  BY BlankIsSound
<1>2. copy' = [copy EXCEPT ![f] = new] /\ todo' = [todo EXCEPT ![f] = {}]
  BY DEF Done
<1> HIDE DEF new
<1>3. TypeOK'
  BY <1>1, <1>2 DEF IInv, TypeOK, queue
<1>4. \A e \in Events : Sound(row[e], e)'
  BY DEF Sound, Counted, Sent, Enqueued, queue
<1>5. ASSUME NEW g \in Flushers, NEW e \in Events PROVE Sound(copy[g][e], e)'
  <2>1. copy'[g] = IF g = f THEN new ELSE copy[g]
    BY <1>2 DEF IInv, TypeOK
  <2> QED BY <1>1, <2>1 DEF IInv, Sound, Counted, Sent, Enqueued, queue
<1>6. ASSUME NEW g \in Flushers, NEW e \in todo'[g] PROVE copy'[g][e].status = "PENDING"
  BY <1>2, <1>6 DEF IInv, TypeOK
<1> QED BY <1>3, <1>4, <1>5, <1>6 DEF IInv

LEMMA SavePreserves ==
  ASSUME IInv, NEW f \in Flushers, Save(f) PROVE IInv'
<1>1. row' \in [Events -> Row] /\ \A e \in Events : Sound(row'[e], e)
  BY DEF Save, IInv, TypeOK
<1> QED BY <1>1, DoneIsSound DEF Save, IInv, TypeOK

LEMMA CrashPreserves ==
  ASSUME IInv, NEW f \in Flushers, Crash(f) PROVE IInv'
<1>1. row' \in [Events -> Row] /\ \A e \in Events : Sound(row'[e], e)
  BY DEF Crash, IInv, TypeOK
<1> QED BY <1>1, DoneIsSound DEF Crash, IInv, TypeOK

-----------------------------------------------------------------------------
(***************************************************************************)
(* Maintenance changes rows only, and the consumer of the queue only moves *)
(* an event within what was ever enqueued.                                 *)
(***************************************************************************)
LEMMA MaintenancePreserves ==
  ASSUME IInv, Maintenance PROVE IInv'
<1>1. CASE \E e \in Events : Prune(e)
  BY <1>1, RowsChange, SetRowIsSound DEF Prune, IInv, TypeOK
<1>2. CASE \E ids \in SUBSET Events : RequeueFailed(ids)
  <2>1. PICK ids \in SUBSET Events : RequeueFailed(ids)
    BY <1>2
  <2> DEFINE again == [status |-> "PENDING", retryCount |-> 0]
  <2>2. again \in Row /\ \A e \in Events : Sound(again, e)
    BY OutboxAssumption DEF Row, Statuses, Sound, Counted, Sent
  <2>3. \A e \in Events : row'[e] = IF e \in ids /\ row[e].status = "FAILED" THEN again ELSE row[e]
    BY <2>1 DEF RequeueFailed
  <2>4. row' \in [Events -> Row]
    BY <2>1, <2>2 DEF RequeueFailed, IInv, TypeOK
  <2> HIDE DEF again
  <2>5. \A e \in Events : Sound(row'[e], e)
    BY <2>2, <2>3 DEF IInv
  <2> QED BY <2>1, <2>4, <2>5, RowsChange DEF RequeueFailed, IInv, TypeOK
<1> QED BY <1>1, <1>2 DEF Maintenance

LEMMA ConsumePreserves ==
  ASSUME IInv, NEW e \in Events, Consume(e) PROVE IInv'
<1>1. /\ UNCHANGED <<created, row, copy, todo, upsets>>
      /\ Enqueued' = Enqueued
      /\ jobs' \subseteq Events /\ dead' \subseteq Events
      /\ handled' \subseteq Events
  BY DEF Consume, Handle, GiveUp, flushes, IInv, TypeOK, Enqueued
<1>2. TypeOK'
  BY <1>1 DEF IInv, TypeOK
<1> QED BY <1>1, <1>2 DEF IInv, Sound, Counted, Sent

-----------------------------------------------------------------------------
LEMMA InitIsInductive == Init => IInv
<1> SUFFICES ASSUME Init PROVE IInv
  OBVIOUS
<1>1. TypeOK
  BY BlankIsSound DEF Init, TypeOK
<1> QED BY <1>1, BlankIsSound DEF Init, IInv

LEMMA StepIsInductive == IInv /\ [Next]_vars => IInv'
<1> SUFFICES ASSUME IInv, [Next]_vars PROVE IInv'
  OBVIOUS
<1>1. CASE Transactions
  BY <1>1, TransactionsPreserve
<1>2. CASE \E f \in Flushers : Flush(f) \/ Crash(f)
  BY <1>2, ReadPreserves, EnqueuePreserves, SavePreserves, CrashPreserves DEF Flush
<1>3. CASE \E e \in Events : Consume(e)
  BY <1>3, ConsumePreserves
<1>4. CASE Maintenance
  BY <1>4, MaintenancePreserves
<1>5. CASE UNCHANGED vars
  BY <1>5 DEF vars, queue, flushes, IInv, TypeOK, Sound, Counted, Sent, Enqueued
<1> QED BY <1>1, <1>2, <1>3, <1>4, <1>5 DEF Next

LEMMA Inductive == Spec => []IInv
  BY InitIsInductive, StepIsInductive, PTL DEF Spec

(***************************************************************************)
(* Every variable of the outbox holds a value of its kind.                 *)
(***************************************************************************)
THEOREM TypeCorrect == Spec => []TypeOK
<1>1. IInv => TypeOK
  BY DEF IInv
<1> QED BY <1>1, Inductive, PTL

(***************************************************************************)
(* However many flushes overlap, crash or miss the queue's answer, an      *)
(* event marked PUBLISHED by outbox.service.ts was added to the queue.     *)
(***************************************************************************)
THEOREM PublishedWasEnqueuedAlways == Spec => []PublishedWasEnqueued
<1>1. IInv => PublishedWasEnqueued
  BY DEF IInv, Sound, Sent, PublishedWasEnqueued
<1> QED BY <1>1, Inductive, PTL

(***************************************************************************)
(* The outbox gives an event up after exactly the number of failures       *)
(* OUTBOX_MAX_RETRIES allows, and never looks at it before that as failed. *)
(***************************************************************************)
THEOREM FailedAfterRetriesAlways == Spec => []FailedAfterRetries
<1>1. IInv => FailedAfterRetries
  BY DEF IInv, Sound, Counted, FailedAfterRetries
<1> QED BY <1>1, Inductive, PTL

=============================================================================
