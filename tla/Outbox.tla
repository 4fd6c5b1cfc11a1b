------------------------------- MODULE Outbox -------------------------------
(***************************************************************************)
(* The transactional outbox: events are written in the transaction of the  *)
(* change they tell of, and flush() forwards them to the queue of domain   *)
(* events.                                                                 *)
(*   src/src/outbox/outbox.service.ts                                      *)
(*   src/src/outbox/outbox-publisher.service.ts                            *)
(* Two flushes may overlap: a Bull queue with two named processors (flush  *)
(* and prune) runs two jobs at a time, and every process of the program    *)
(* has its own.  The queue itself is Redis, outside this program.          *)
(***************************************************************************)
EXTENDS Naturals, FiniteSets

CONSTANTS
    Events, Flushers,
    OUTBOX_BATCH_SIZE, OUTBOX_MAX_RETRIES,
    MaxUpsets           \* bound: flushes that end before they save, and calls of
                        \* requeueFailed(), counted together

ASSUME OutboxAssumption ==
    /\ IsFiniteSet(Events)
    /\ OUTBOX_BATCH_SIZE \in Nat \ {0} /\ OUTBOX_MAX_RETRIES \in Nat \ {0}
    /\ MaxUpsets \in Nat

VARIABLES
    created,            \* createdAt of the events, as their rank; 0 = none yet
    row,                \* their rows
    jobs, dead,         \* domain events queued, and given up by the queue
    handled,            \* domain events handled
    copy,               \* a flush's copies of the rows in its batch
    todo,               \* events of the batch not yet added to the queue
    upsets

queue == <<jobs, dead, handled>>
flushes == <<copy, todo>>
vars == <<created, row, queue, flushes, upsets>>

\* Besides OutboxEventStatus: no transaction yet, one still open, no row any more.
Statuses == {"none", "open", "PENDING", "PUBLISHED", "FAILED", "gone"}

Row == [status : Statuses, retryCount : 0 .. OUTBOX_MAX_RETRIES]

\* Everything ever added to the queue.
Enqueued == jobs \cup dead \cup handled

-----------------------------------------------------------------------------
(***************************************************************************)
(* record(): createdAt is the start of the transaction, the row is seen    *)
(* when the transaction commits.                                           *)
(***************************************************************************)
SetRow(e, status, retryCount) ==
    row' = [row EXCEPT ![e] = [status |-> status, retryCount |-> retryCount]]

Begin(e) ==
    /\ row[e].status = "none"
    /\ SetRow(e, "open", 0)
    /\ created' = [created EXCEPT ![e] = Cardinality({d \in Events : created[d] > 0}) + 1]
    /\ UNCHANGED <<queue, flushes, upsets>>

Commit(e) ==
    /\ row[e].status = "open"
    /\ SetRow(e, "PENDING", 0)
    /\ UNCHANGED <<created, queue, flushes, upsets>>

Rollback(e) ==
    /\ row[e].status = "open"
    /\ SetRow(e, "gone", 0)
    /\ UNCHANGED <<created, queue, flushes, upsets>>

-----------------------------------------------------------------------------
(***************************************************************************)
(* flush(): read a batch, add its events to the queue one by one, and save *)
(* all of them, each with the status and count of this flush.              *)
(***************************************************************************)
Blank == [status |-> "none", retryCount |-> 0]

Idle(f) == \A e \in Events : copy[f][e] = Blank

Pending == {e \in Events : row[e].status = "PENDING"}

Batch ==
    {e \in Pending : Cardinality({d \in Pending : created[d] < created[e]}) < OUTBOX_BATCH_SIZE}

Read(f) ==
    /\ Idle(f)
    /\ Batch # {}
    /\ copy' = [copy EXCEPT ![f] = [e \in Events |-> IF e \in Batch THEN row[e] ELSE Blank]]
    /\ todo' = [todo EXCEPT ![f] = Batch]
    /\ UNCHANGED <<created, row, queue, upsets>>

\* Mutants of the next: a failure is not counted, or only after one too many;
\* an event counts as published before the queue answers.
Attempted_NotCounted(v, ok) == IF ok THEN [v EXCEPT !.status = "PUBLISHED"] ELSE v

Attempted_OneMore(v, ok) ==
    IF ok THEN [v EXCEPT !.status = "PUBLISHED"]
    ELSE [v EXCEPT !.retryCount = @ + 1,
                   !.status = IF v.retryCount >= OUTBOX_MAX_RETRIES THEN "FAILED" ELSE @]

Attempted_First(v, ok) == [v EXCEPT !.status = "PUBLISHED"]

\* The copy v of an event after an attempt to enqueue it.
Attempted(v, ok) ==
    IF ok THEN [v EXCEPT !.status = "PUBLISHED"]
    ELSE [v EXCEPT !.retryCount = @ + 1,
                   !.status = IF v.retryCount + 1 >= OUTBOX_MAX_RETRIES THEN "FAILED" ELSE @]

\* Queue.add() with the event's id as the job's: nothing new while there is
\* such a job; completed jobs are removed, failed ones are kept.
Add(e) == jobs' = IF e \in dead THEN jobs ELSE jobs \cup {e}

\* The attempt succeeds, fails, or succeeds without the flush learning of it.
Enqueue(f) ==
    \E e \in todo[f], ok, added \in BOOLEAN :
        /\ \A d \in todo[f] : created[e] <= created[d]
        /\ ok => added
        /\ IF added THEN Add(e) ELSE UNCHANGED jobs
        /\ copy' = [copy EXCEPT ![f][e] = Attempted(copy[f][e], ok)]
        /\ todo' = [todo EXCEPT ![f] = @ \ {e}]
        /\ UNCHANGED <<created, row, dead, handled, upsets>>

Done(f) ==
    /\ copy' = [copy EXCEPT ![f] = [e \in Events |-> Blank]]
    /\ todo' = [todo EXCEPT ![f] = {}]

Save(f) ==
    /\ ~Idle(f)
    /\ todo[f] = {}
    /\ row' = [e \in Events |-> IF copy[f][e] = Blank THEN row[e] ELSE copy[f][e]]
    /\ Done(f)
    /\ UNCHANGED <<created, queue, upsets>>

\* The process ends, or the save fails: nothing of the batch is saved.
Crash(f) ==
    /\ ~Idle(f)
    /\ upsets < MaxUpsets
    /\ upsets' = upsets + 1
    /\ Done(f)
    /\ UNCHANGED <<created, row, queue>>

-----------------------------------------------------------------------------
(***************************************************************************)
(* prunePublished(): what was published 30 days ago; no flush lasts that   *)
(* long.  requeueFailed(): all of them, or some.                           *)
(***************************************************************************)
Prune(e) ==
    /\ row[e].status = "PUBLISHED"
    /\ \A f \in Flushers : copy[f][e] = Blank
    /\ SetRow(e, "gone", 0)
    /\ UNCHANGED <<created, queue, flushes, upsets>>

RequeueFailed(ids) ==
    /\ upsets < MaxUpsets
    /\ upsets' = upsets + 1
    /\ row' = [e \in Events |->
                 IF e \in ids /\ row[e].status = "FAILED"
                 THEN [status |-> "PENDING", retryCount |-> 0] ELSE row[e]]
    /\ UNCHANGED <<created, queue, flushes>>

(***************************************************************************)
(* DomainEventProcessor.handle(), or the queue giving up a job that ran    *)
(* out of attempts.                                                        *)
(***************************************************************************)
Handle(e) ==
    /\ e \in jobs
    /\ jobs' = jobs \ {e}
    /\ handled' = handled \cup {e}
    /\ UNCHANGED <<created, row, dead, flushes, upsets>>

GiveUp(e) ==
    /\ e \in jobs
    /\ jobs' = jobs \ {e}
    /\ dead' = dead \cup {e}
    /\ UNCHANGED <<created, row, handled, flushes, upsets>>

-----------------------------------------------------------------------------
Init ==
    /\ created = [e \in Events |-> 0]
    /\ row = [e \in Events |-> Blank]
    /\ jobs = {} /\ dead = {} /\ handled = {}
    /\ copy = [f \in Flushers |-> [e \in Events |-> Blank]]
    /\ todo = [f \in Flushers |-> {}]
    /\ upsets = 0

Transactions == \E e \in Events : Begin(e) \/ Commit(e) \/ Rollback(e)

Flush(f) == Read(f) \/ Enqueue(f) \/ Save(f)

Consume(e) == Handle(e) \/ GiveUp(e)

Maintenance == (\E e \in Events : Prune(e)) \/ (\E ids \in SUBSET Events : RequeueFailed(ids))

Next ==
    \/ Transactions
    \/ \E f \in Flushers : Flush(f) \/ Crash(f)
    \/ \E e \in Events : Consume(e)
    \/ Maintenance

Spec == Init /\ [][Next]_vars

(***************************************************************************)
(* The flush job repeats every five seconds and ends; the queue runs every *)
(* job.  Nothing is assumed of transactions, crashes and maintenance.      *)
(***************************************************************************)
Fairness ==
    /\ \A f \in Flushers : WF_vars(Flush(f))
    /\ \A e \in Events : WF_vars(Consume(e))

FairSpec == Spec /\ Fairness

-----------------------------------------------------------------------------
(***************************************************************************)
(* Every variable holds a value of its kind.                               *)
(***************************************************************************)
TypeOK ==
    /\ created \in [Events -> Nat]
    /\ row \in [Events -> Row]
    /\ jobs \subseteq Events /\ dead \subseteq Events
    /\ handled \subseteq Events
    /\ copy \in [Flushers -> [Events -> Row]]
    /\ todo \in [Flushers -> SUBSET Events]
    /\ upsets \in Nat

(***************************************************************************)
(* "never lost even if the process crashes": whatever two flushes and a    *)
(* crash do to each other's rows, an event marked PUBLISHED, and so never  *)
(* looked at again, has been added to the queue.                           *)
(***************************************************************************)
PublishedWasEnqueued == \A e \in Events : row[e].status = "PUBLISHED" => e \in Enqueued

(***************************************************************************)
(* An event is given up after exactly OUTBOX_MAX_RETRIES counted failures, *)
(* although two flushes may write each other's count back.                 *)
(***************************************************************************)
FailedAfterRetries ==
    \A e \in Events :
        /\ row[e].status = "FAILED" => row[e].retryCount = OUTBOX_MAX_RETRIES
        /\ row[e].status = "PENDING" => row[e].retryCount < OUTBOX_MAX_RETRIES

(***************************************************************************)
(* "marked FAILED so it doesn't block the queue": in the end no event is   *)
(* pending any more, however often the queue refuses some of them.         *)
(***************************************************************************)
EventuallyDrained == <>[](\A e \in Events : row[e].status # "PENDING")

(***************************************************************************)
(* A published event is handled, unless the queue itself gives it up.      *)
(***************************************************************************)
PublishedIsHandled ==
    \A e \in Events : row[e].status = "PUBLISHED" ~> e \in handled \cup dead
=============================================================================
