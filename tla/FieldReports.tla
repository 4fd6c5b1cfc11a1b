---------------------------- MODULE FieldReports ----------------------------
(***************************************************************************)
(* Reports from the field: the events that devices collect offline and     *)
(* send in batches, and the forms that save the same rows directly.        *)
(*   src/src/tasks/services/task-sync-events.service.ts                    *)
(*   src/src/tasks/services/task-locations.service.ts                      *)
(*   src/src/tasks/services/task-comments.service.ts                       *)
(* Each event has a transaction of its own under the project's lock; forms *)
(* do not take the lock, so what an event or a form reads of a row is one  *)
(* action and the save another.  An answer may be lost, and the server may *)
(* stop between two events: the device sends them again.                   *)
(* A value is named by the report that gave it.  Why an event is refused   *)
(* by the row it is for (not a leaf, no such location, not a number) is    *)
(* left out; Progress has what a percentage changes.                       *)
(***************************************************************************)
EXTENDS Integers, FiniteSets, Sequences, SequencesExt

CONSTANTS
    Reports,        \* [key, site, kind, sets, at] of each event and each form
    Events,         \* the reports that devices collect
    Devices,
    ActorOf,        \* the user of each device
    EventsOf,       \* the events each device has collected
    NoReport, NoSite,
    MaxSends,       \* bound: batches that are sent
    MaxShifts       \* bound: changes of who may report where

Reporters == {ActorOf[d] : d \in Devices}

Sites == {r.site : r \in Reports}

Forms == Reports \ Events

Fields == UNION {r.sets : r \in Reports}

Levels == {"none", "view", "report"}

ASSUME ReportsAssumption ==
    /\ Events \subseteq Reports /\ NoReport \notin Reports /\ NoSite \notin Sites
    /\ \A r \in Reports : r.kind \in {"location", "note", "progress"} /\ r.at \in Nat
    /\ \A d \in Devices : EventsOf[d] \subseteq Events

VARIABLES
    joined,     \* the users who are members of the project
    access,     \* what each may do with each task; "none" if it is deleted too
    shifts,     \* changes so far
    receipt,    \* task_sync_events, by clientEventId
    applied,    \* how often each report's effect is in the database
    location,   \* the progress of each task's location, by task
    comment,    \* the comments that notes became, by event
    form,       \* what each form has read, by form
    sending,    \* the request of each device
    told,       \* the last answer of each device, by event
    sends,      \* batches so far
    removed,    \* comments that were deleted
    late,       \* a report was saved over a later one
    stale   \* a row was saved over what others had saved since it was read

reportVars == <<joined, access, shifts, receipt, applied, location, comment, form, sending, told,
                sends, removed, late, stale>>

rowVars == <<receipt, applied, location, comment, removed, late, stale>>

NoBatch == [phase |-> "idle", batch |-> <<>>, seen |-> <<>>, answers |-> <<>>]

EmptyRow == [at |-> 0, by |-> [f \in Fields |-> NoReport]]

-----------------------------------------------------------------------------
(***************************************************************************)
(* A device sends what it has, in the order it wants, again and again.     *)
(***************************************************************************)
\* process() refuses a batch with two events of one key as a whole.
Batches(d) == {b \in SeqOf(EventsOf[d], 2) :
                 b # <<>> /\ \A i, j \in DOMAIN b : b[i].key = b[j].key => i = j}

Send(d, b) ==
    /\ sending[d].phase = "idle" /\ sends < MaxSends
    /\ sending' = [sending EXCEPT ![d] = [NoBatch EXCEPT !.phase = "next", !.batch = b]]
    /\ sends' = sends + 1
    /\ UNCHANGED <<joined, access, shifts, rowVars, form, told>>

\* The answer to a batch arrives, or is lost.
Tells(d, answers) ==
    told' = [told EXCEPT ![d] = [e \in EventsOf[d] |-> IF e \in DOMAIN answers THEN answers[e] ELSE @[e]]]

Answer(d) ==
    /\ sending[d].phase = "next" /\ sending[d].batch = <<>>
    /\ sending' = [sending EXCEPT ![d] = NoBatch]
    /\ Tells(d, sending[d].answers)
    /\ UNCHANGED <<joined, access, shifts, rowVars, form, sends>>

\* The connection or the server goes; what is not committed is rolled back.
Breaks(d) ==
    /\ sending[d].phase # "idle"
    /\ sending' = [sending EXCEPT ![d] = NoBatch]
    /\ UNCHANGED <<joined, access, shifts, rowVars, form, told, sends>>

-----------------------------------------------------------------------------
(***************************************************************************)
(* processOne(): the next event of a batch, in a transaction of its own.   *)
(***************************************************************************)
Current(d) == Head(sending[d].batch)

\* One transaction at a time holds the project's lock.
LockIsFree == \A d \in Devices : sending[d].phase # "locked"

Takes(d) == sending[d].phase = "next" /\ sending[d].batch # <<>> /\ LockIsFree

\* An exception outside the savepoint ends the batch: what follows in it is not
\* looked at, and nothing is said of what was done before.
Aborts(d, answer) ==
    /\ sending' = [sending EXCEPT ![d] = NoBatch]
    /\ Tells(d, [e \in {Current(d)} |-> answer])
    /\ UNCHANGED <<joined, access, shifts, rowVars, form, sends>>

NotAMember(d) == Takes(d) /\ ActorOf[d] \notin joined /\ Aborts(d, "forbidden")

Known(d) == Takes(d) /\ ActorOf[d] \in joined /\ Current(d).key \in DOMAIN receipt

\* Of one task, type and payload; when they were made is not compared.  (Events of one
\* key that set the same columns of a task are taken to set them to the same values.)
Alike(e, f) == e.site = f.site /\ e.kind = f.kind /\ e.sets = f.sets

SameEvent(d, e) ==
    LET r == receipt[e.key] IN r.actor = ActorOf[d] /\ r.site = e.site /\ Alike(r.event, e)

KeyReused(d) == Known(d) /\ ~SameEvent(d, Current(d)) /\ Aborts(d, "reused")

ReplayForbidden(d) ==
    LET e == Current(d) IN
    Known(d) /\ SameEvent(d, e) /\ access[ActorOf[d]][e.site] = "none" /\ Aborts(d, "forbidden")

\* The request goes on with its next event.
Goes(d, answer) ==
    sending' = [sending EXCEPT ![d].phase = "next", ![d].batch = Tail(@), ![d].seen = <<>>,
                               ![d].answers = [e \in DOMAIN @ \cup {Current(d)} |->
                                                  IF e = Current(d) THEN answer ELSE @[e]]]

Replay(d) ==
    LET e == Current(d) IN
    /\ Known(d) /\ SameEvent(d, e) /\ access[ActorOf[d]][e.site] # "none"
    /\ Goes(d, receipt[e.key].status)
    /\ UNCHANGED <<joined, access, shifts, rowVars, form, told, sends>>

Unknown(d) == Takes(d) /\ ActorOf[d] \in joined /\ Current(d).key \notin DOMAIN receipt

Receives(d, site, status) ==
    LET e == Current(d) IN
    receipt' = [k \in DOMAIN receipt \cup {e.key} |->
                   IF k = e.key THEN [actor |-> ActorOf[d], event |-> e, site |-> site, status |-> status]
                   ELSE receipt[k]]

\* The task is not there, not shown, or not the actor's to report on: the
\* receipt has no task.
NotTheirs(d) ==
    /\ Unknown(d) /\ access[ActorOf[d]][Current(d).site] # "report"
    /\ Receives(d, NoSite, "failed") /\ Goes(d, "failed")
    /\ UNCHANGED <<joined, access, shifts, applied, location, comment, removed, late, stale,
                   form, told, sends>>

\* The task is, and what the event is for is read.
Locks(d) ==
    /\ Unknown(d) /\ access[ActorOf[d]][Current(d).site] = "report"
    /\ sending' = [sending EXCEPT ![d].phase = "locked", ![d].seen = location[Current(d).site]]
    /\ UNCHANGED <<joined, access, shifts, rowVars, form, told, sends>>

(***************************************************************************)
(* The effect of a report: the columns it sets are set, the others are     *)
(* saved as they were read.  A first report inserts the row of a location; *)
(* a second insert is refused by its unique index.                         *)
(***************************************************************************)
Filled(row, r) == [at |-> r.at, by |-> [f \in Fields |-> IF f \in r.sets THEN r ELSE row.by[f]]]

Effect(r, row) ==
    /\ r.kind = "location" /\ row = EmptyRow => location[r.site] = EmptyRow
    /\ applied' = [applied EXCEPT ![r] = @ + 1]
    /\ IF r.kind = "location"
       THEN /\ location' = [location EXCEPT ![r.site] = Filled(row, r)]
            /\ late' = (late \/ r.at < location[r.site].at)
            /\ stale' = (stale \/ row # location[r.site])
       ELSE UNCHANGED <<location, late, stale>>
    /\ comment' = IF r.kind = "note" THEN [comment EXCEPT ![r] = "shown"] ELSE comment

Apply(d) ==
    LET e == Current(d) IN
    /\ sending[d].phase = "locked"
    /\ Effect(e, sending[d].seen)
    /\ Receives(d, e.site, "applied") /\ Goes(d, "applied")
    /\ UNCHANGED <<joined, access, shifts, form, told, sends, removed>>

NoEffect == UNCHANGED <<applied, location, comment, late, stale>>

\* Mutant of the next: what was written before the error stays.
FailedEffect_Stays(r, row) == Effect(r, row)

\* ROLLBACK TO SAVEPOINT.
FailedEffect(r, row) == NoEffect

\* applyEvent() throws, before or after it has written something.
Fail(d) ==
    LET e == Current(d) IN
    /\ sending[d].phase = "locked"
    /\ FailedEffect(e, sending[d].seen)
    /\ Receives(d, e.site, "failed") /\ Goes(d, "failed")
    /\ UNCHANGED <<joined, access, shifts, form, told, sends, removed>>

-----------------------------------------------------------------------------
(***************************************************************************)
(* Forms: a location's progress and the text and removal of a comment.     *)
(***************************************************************************)
LoadForm(r) ==
    /\ r \in Forms /\ form[r] = <<>> /\ applied[r] = 0
    /\ form' = [form EXCEPT ![r] = location[r.site]]
    /\ UNCHANGED <<joined, access, shifts, rowVars, sending, told, sends>>

SaveForm(r) ==
    /\ r \in Forms /\ form[r] # <<>> /\ r.kind = "location"
    /\ Effect(r, form[r])
    /\ form' = [form EXCEPT ![r] = <<>>]
    /\ UNCHANGED <<joined, access, shifts, receipt, removed, sending, told, sends>>

DropForm(r) ==
    /\ form[r] # <<>> /\ form' = [form EXCEPT ![r] = <<>>]
    /\ UNCHANGED <<joined, access, shifts, rowVars, sending, told, sends>>

LoadComment(e) ==
    /\ comment[e] = "shown" /\ form[e] = <<>>
    /\ form' = [form EXCEPT ![e] = EmptyRow]
    /\ UNCHANGED <<joined, access, shifts, rowVars, sending, told, sends>>

\* updateComment() saves deletedAt as it was read.
UpdateComment(e) ==
    /\ form[e] # <<>> /\ e.kind = "note"
    /\ form' = [form EXCEPT ![e] = <<>>]
    /\ comment' = [comment EXCEPT ![e] = "shown"]
    /\ stale' = (stale \/ comment[e] # "shown")
    /\ UNCHANGED <<joined, access, shifts, receipt, applied, location, removed, late, sending, told, sends>>

DeleteComment(e) ==
    /\ comment[e] = "shown"
    /\ comment' = [comment EXCEPT ![e] = "deleted"]
    /\ removed' = removed \cup {e}
    /\ UNCHANGED <<joined, access, shifts, receipt, applied, location, late, stale, form, sending,
                   told, sends>>

-----------------------------------------------------------------------------
\* People join and leave, tasks are assigned, hidden and deleted.
Shift ==
    /\ shifts < MaxShifts /\ shifts' = shifts + 1
    /\ \/ \E u \in Reporters :
             joined' = (joined \ {u}) \cup ({u} \ joined) /\ UNCHANGED access
       \/ \E u \in Reporters, s \in Sites, to \in Levels :
             /\ to # access[u][s]
             /\ access' = [access EXCEPT ![u][s] = to] /\ UNCHANGED joined
    /\ UNCHANGED <<rowVars, form, sending, told, sends>>

ReportsInit ==
    /\ joined = Reporters
    /\ access = [u \in Reporters |-> [s \in Sites |-> "report"]]
    /\ shifts = 0 /\ receipt = <<>>
    /\ applied = [r \in Reports |-> 0]
    /\ location = [s \in Sites |-> EmptyRow]
    /\ comment = [r \in Reports |-> "none"]
    /\ form = [r \in Reports |-> <<>>]
    /\ sending = [d \in Devices |-> NoBatch]
    /\ told = [d \in Devices |-> [e \in EventsOf[d] |-> "nothing"]]
    /\ sends = 0
    /\ removed = {} /\ late = FALSE /\ stale = FALSE

DeviceNext(d) ==
    \/ \E b \in Batches(d) : Send(d, b)
    \/ Answer(d) \/ Breaks(d)
    \/ NotAMember(d) \/ KeyReused(d) \/ ReplayForbidden(d) \/ Replay(d) \/ NotTheirs(d)
    \/ Locks(d) \/ Apply(d) \/ Fail(d)

FormNext(r) ==
    \/ LoadForm(r) \/ SaveForm(r) \/ DropForm(r)
    \/ LoadComment(r) \/ UpdateComment(r) \/ DeleteComment(r)

ReportsNext == (\E d \in Devices : DeviceNext(d)) \/ (\E r \in Reports : FormNext(r)) \/ Shift

ReportsSpec == ReportsInit /\ [][ReportsNext]_reportVars

-----------------------------------------------------------------------------
ReportsTypeOK ==
    /\ joined \subseteq Reporters /\ access \in [Reporters -> [Sites -> Levels]]
    /\ \A k \in DOMAIN receipt : receipt[k].event \in Events /\ receipt[k].site \in Sites \cup {NoSite}
    /\ applied \in [Reports -> Nat]
    /\ comment \in [Reports -> {"none", "shown", "deleted"}]

(***************************************************************************)
(* An event has its effect once, and exactly if its receipt says so,       *)
(* however often it was sent, refused or cut off.                          *)
(***************************************************************************)
EffectsMatchReceipts ==
    \A e \in Events : applied[e] = IF \E k \in DOMAIN receipt :
                                         receipt[k].event = e /\ receipt[k].status = "applied"
                                   THEN 1 ELSE 0

(***************************************************************************)
(* What a device is told of an event is what its receipt says, also when   *)
(* the event was applied by a request whose answer was lost; its key is    *)
(* called reused only if it is, or if the event was refused before its     *)
(* task was found.                                                         *)
(***************************************************************************)
AnswersMatchReceipts ==
    \A d \in Devices : \A e \in EventsOf[d] :
        /\ told[d][e] \in {"applied", "failed"} =>
              /\ e.key \in DOMAIN receipt /\ Alike(receipt[e.key].event, e)
              /\ receipt[e.key].status = told[d][e]
        /\ told[d][e] = "reused" =>
              ~(Alike(receipt[e.key].event, e) /\ receipt[e.key].actor = ActorOf[d]) \/ receipt[e.key].site = NoSite

(***************************************************************************)
(* Each column of a location shows the report that was the last to set it, *)
(* by the time it was made, if none arrived late or overtook another.      *)
(***************************************************************************)
LocationsShowTheLatest ==
    \A s \in Sites : \A f \in Fields :
        LET made == {r \in Reports : r.kind = "location" /\ r.site = s /\ f \in r.sets /\ applied[r] > 0}
            shown == location[s].by[f]
        IN  ~late /\ ~stale =>
                IF made = {} THEN shown = NoReport
                ELSE shown \in made /\ \A r \in made : r.at <= shown.at

\* A deleted comment stays deleted, unless an edit of it overtook the removal.
RemovedNotesStay == ~stale => \A e \in removed : comment[e] = "deleted"

\* All of these hold of what comes from the field.
SyncIsFaithful ==
    EffectsMatchReceipts /\ AnswersMatchReceipts /\ LocationsShowTheLatest /\ RemovedNotesStay

(***************************************************************************)
(* Events are "idempotent" (tasks.controller.ts:514): one that its device  *)
(* sends again is not taken for another event of the same key.             *)
(***************************************************************************)
SyncIsIdempotent ==
    \A d \in Devices : \A e \in EventsOf[d] :
        told[d][e] = "reused" => ~(Alike(receipt[e.key].event, e) /\ receipt[e.key].actor = ActorOf[d])
=============================================================================
