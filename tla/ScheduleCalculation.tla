------------------------ MODULE ScheduleCalculation ------------------------
(***************************************************************************)
(* The recalculation of a project's schedule by the critical-path method:  *)
(* early dates forwards along the dependencies, late dates backwards,      *)
(* floats, and summary tasks rolled up from their children.                *)
(*   src/src/tasks/services/schedule-calculation.service.ts                *)
(* One action is one turn of a loop.  A calculation holds the workflow     *)
(* lock and works in memory, so nothing of another request comes between;  *)
(* what does is the next calculation, on the rows this one saved.          *)
(* Every task here has a schedule row.  Offsets count units of a working   *)
(* day from the start of a project that has one: hundredths in the code,   *)
(* whose columns are numeric(10,2).  A date is a day, so what is saved as  *)
(* one loses its part of a day; whole days and dates map one to one while  *)
(* the calendar stays (workingDateToOffset()).  The order the queue gives  *)
(* tasks that are ready together is left open.  Projects with packaged     *)
(* checklists take another path, not here.                                 *)
(***************************************************************************)
EXTENDS Integers, FiniteSets

CONSTANTS
    Tasks,              \* tasks of the project
    NoTask, NoOffset,   \* null as a parent, and as a date
    Day,                \* units of one working day
    Projects,           \* what the database may hold before the first calculation
    MaxRuns             \* bound: calculations one after the other

DependencyTypes == {"FS", "SS", "FF", "SF"}

Offset == Int \cup {NoOffset}

\* A durationDays of null counts as 0 and is not told apart from it; plannedStart
\* and plannedEnd are the dates, or the offsets kept beside dates that were cleared.
Schedule == [durationDays : Int, isManuallyScheduled : BOOLEAN,
             plannedStart : Offset, plannedEnd : Offset, earliestStart : Offset]

Dependency == [predecessor : Tasks, successor : Tasks,
               type : DependencyTypes, lagDays : Int]

\* summaryTasks are the tasks with a scheduleType that rolls up: all but milestone.
Project == [schedules : [Tasks -> Schedule], dependencies : SUBSET Dependency,
            parentTaskId : [Tasks -> Tasks \cup {NoTask}], summaryTasks : SUBSET Tasks]

ASSUME ScheduleAssumption ==
    /\ IsFiniteSet(Tasks) /\ NoTask \notin Tasks /\ NoOffset \notin Int
    /\ Projects \subseteq Project
    /\ Day \in Nat \ {0}
    /\ MaxRuns \in Nat \ {0}

VARIABLES
    schedules, dependencies, parentTaskId, summaryTasks,    \* what the database holds
    phase, visited,                                         \* the loop, and its tasks so far
    duration, es, ef, ls, lf, totalFloat, freeFloat,        \* the nodes
    critical,                                               \* tasks with isCritical
    drivingPredecessorIds,
    projectDuration,
    runs, earlier,              \* calculations so far, and the dates of the one before
    cut                         \* the calculations that saved less than they had

project == <<dependencies, parentTaskId, summaryTasks>>
early == <<es, ef, drivingPredecessorIds>>
late == <<ls, lf>>
floats == <<totalFloat, freeFloat, critical>>
history == <<runs, earlier, cut>>
vars == <<schedules, project, phase, visited, duration, early, late, floats,
          projectDuration, history>>

Phases == {"forward", "backward", "floats", "rollup", "saved", "failed"}

Max0(n) == IF n > 0 THEN n ELSE 0

incoming(t) == {d \in dependencies : d.successor = t}
outgoing(t) == {d \in dependencies : d.predecessor = t}
children(t) == {c \in Tasks : parentTaskId[c] = t}

\* Rows that rollupSummaryRows() overwrites.
Summaries == {t \in summaryTasks : children(t) # {}}

-----------------------------------------------------------------------------
(***************************************************************************)
(* buildNodes(): a task scheduled by hand keeps the dates it was given,    *)
(* and its duration is their difference when it has both; any other starts *)
(* at the start of the project or at its own earliest start.               *)
(***************************************************************************)
PinnedBothEnds(s) ==
    s.isManuallyScheduled /\ s.plannedStart # NoOffset /\ s.plannedEnd # NoOffset

nodeDuration(s) ==
    IF PinnedBothEnds(s) THEN Max0(s.plannedEnd - s.plannedStart) ELSE Max0(s.durationDays)

pinnedStart(s) ==
    CASE s.isManuallyScheduled /\ s.plannedStart # NoOffset -> s.plannedStart
      [] s.isManuallyScheduled /\ s.plannedStart = NoOffset /\ s.plannedEnd # NoOffset ->
            s.plannedEnd - nodeDuration(s)
      [] ~s.isManuallyScheduled /\ s.earliestStart # NoOffset -> Max0(s.earliestStart)
      [] OTHER -> 0

Durations(rows) == [t \in Tasks |-> nodeDuration(rows[t])]
Starts(rows) == [t \in Tasks |-> pinnedStart(rows[t])]
Finishes(rows) == [t \in Tasks |-> pinnedStart(rows[t]) + nodeDuration(rows[t])]
Zero == [t \in Tasks |-> 0]
NoTasks == [t \in Tasks |-> {}]

Init ==
    /\ \E p \in Projects : /\ schedules = p.schedules /\ dependencies = p.dependencies
                           /\ parentTaskId = p.parentTaskId /\ summaryTasks = p.summaryTasks
    /\ phase = "forward" /\ visited = {}
    /\ duration = Durations(schedules)
    /\ es = Starts(schedules) /\ ef = Finishes(schedules)
    /\ drivingPredecessorIds = NoTasks
    /\ ls = Zero /\ lf = Zero
    /\ totalFloat = Zero /\ freeFloat = Zero /\ critical = {}
    /\ projectDuration = 0
    /\ runs = 0 /\ earlier = <<>> /\ cut = {}

-----------------------------------------------------------------------------
(***************************************************************************)
(* sortGraph() and forwardPass(): a task comes after its predecessors; if  *)
(* some never come, the dependencies have a cycle and nothing is saved.    *)
(***************************************************************************)
\* A mutant of the next: every dependency taken as one from start to start.
forwardCandidateEs_StartToStart(d) == es[d.predecessor] + d.lagDays

forwardCandidateEs(d) ==
    CASE d.type = "SS" -> es[d.predecessor] + d.lagDays
      [] d.type = "FF" -> ef[d.predecessor] + d.lagDays - duration[d.successor]
      [] d.type = "SF" -> es[d.predecessor] + d.lagDays - duration[d.successor]
      [] OTHER -> ef[d.predecessor] + d.lagDays

\* A mutant of the next: with predecessors, a task forgets its own start.
EarlyStarts_NotPinned(t) ==
    IF incoming(t) = {} THEN {es[t]} ELSE {forwardCandidateEs(d) : d \in incoming(t)}

EarlyStarts(t) == {es[t]} \cup {forwardCandidateEs(d) : d \in incoming(t)}

Ready(t) == \A d \in incoming(t) : d.predecessor \in visited

Forward(t) ==
    /\ phase = "forward" /\ t \notin visited
    /\ Ready(t)
    /\ \E best \in EarlyStarts(t) :
         /\ \A start \in EarlyStarts(t) : start <= best
         /\ es' = [es EXCEPT ![t] = best]
         /\ ef' = [ef EXCEPT ![t] = best + duration[t]]
         /\ drivingPredecessorIds' = [drivingPredecessorIds EXCEPT ![t] =
                {d.predecessor : d \in {x \in incoming(t) : forwardCandidateEs(x) = best}}]
    /\ visited' = visited \cup {t}
    /\ UNCHANGED <<schedules, project, phase, duration, late, floats, projectDuration, history>>

FailOnCycle ==
    /\ phase = "forward" /\ visited # Tasks
    /\ \A t \in Tasks \ visited : ~Ready(t)
    /\ phase' = "failed"
    /\ UNCHANGED <<schedules, project, visited, duration, early, late, floats,
                   projectDuration, history>>

-----------------------------------------------------------------------------
(***************************************************************************)
(* backwardPass(): every task may end with the project, unless a successor *)
(* needs it sooner -- or later, see README.                                *)
(***************************************************************************)
TurnBack ==
    /\ phase = "forward" /\ visited = Tasks
    /\ \E last \in Tasks :
         /\ \A t \in Tasks : ef[t] <= ef[last]
         /\ projectDuration' = ef[last]
         /\ lf' = [t \in Tasks |-> ef[last]]
         /\ ls' = [t \in Tasks |-> ef[last] - duration[t]]
    /\ phase' = "backward" /\ visited' = {}
    /\ UNCHANGED <<schedules, project, duration, early, floats, history>>

\* A mutant of the next: SS and SF give a late start, taken for the late finish.
backwardCandidateLf_StartForFinish(d) ==
    CASE d.type = "SS" -> ls[d.successor] - d.lagDays
      [] d.type = "FF" -> lf[d.successor] - d.lagDays
      [] d.type = "SF" -> lf[d.successor] - d.lagDays
      [] OTHER -> ls[d.successor] - d.lagDays

backwardCandidateLf(d) ==
    CASE d.type = "SS" -> ls[d.successor] - d.lagDays + duration[d.predecessor]
      [] d.type = "FF" -> lf[d.successor] - d.lagDays
      [] d.type = "SF" -> lf[d.successor] - d.lagDays + duration[d.predecessor]
      [] OTHER -> ls[d.successor] - d.lagDays

\* One more task of a pass over all of them; after the last, the next pass.
Visit(t, next) ==
    /\ t \notin visited
    /\ visited' = IF visited \cup {t} = Tasks THEN {} ELSE visited \cup {t}
    /\ phase' = IF visited \cup {t} = Tasks THEN next ELSE phase

Backward(t) ==
    /\ phase = "backward"
    /\ \A d \in outgoing(t) : d.successor \in visited
    /\ Visit(t, "floats")
    /\ \/ /\ outgoing(t) = {}
          /\ UNCHANGED late
       \/ \E best \in {backwardCandidateLf(d) : d \in outgoing(t)} :
            /\ \A d \in outgoing(t) : best <= backwardCandidateLf(d)
            /\ lf' = [lf EXCEPT ![t] = best]
            /\ ls' = [ls EXCEPT ![t] = best - duration[t]]
    /\ UNCHANGED <<schedules, project, duration, early, floats, projectDuration, history>>

(***************************************************************************)
(* computeFloats(): the total float of a task is how much later it may     *)
(* start, the free float how much later it may be without moving another.  *)
(***************************************************************************)
\* A mutant of the next: what a start-to-start dependency leaves, whatever the type.
freeFloat_StartToStart(d) == es[d.successor] - d.lagDays - es[d.predecessor]

freeFloatOf(d) ==
    CASE d.type = "SS" -> es[d.successor] - d.lagDays - es[d.predecessor]
      [] d.type = "FF" -> ef[d.successor] - d.lagDays - ef[d.predecessor]
      [] d.type = "SF" -> ef[d.successor] - d.lagDays - es[d.predecessor]
      [] OTHER -> es[d.successor] - d.lagDays - ef[d.predecessor]

ComputeFloats(t) ==
    /\ phase = "floats"
    /\ Visit(t, "rollup")
    /\ totalFloat' = [totalFloat EXCEPT ![t] = ls[t] - es[t]]
    /\ \/ /\ outgoing(t) = {}
          /\ freeFloat' = [freeFloat EXCEPT ![t] = ls[t] - es[t]]
       \/ \E least \in {freeFloatOf(d) : d \in outgoing(t)} :
            /\ \A d \in outgoing(t) : least <= freeFloatOf(d)
            /\ freeFloat' = [freeFloat EXCEPT ![t] = Max0(least)]
    /\ critical' = IF ls[t] = es[t] THEN critical \cup {t} ELSE critical
    /\ UNCHANGED <<schedules, project, duration, early, late, projectDuration, history>>

-----------------------------------------------------------------------------
(***************************************************************************)
(* rollupSummaryRows(): deepest first, so the children of a summary that   *)
(* are summaries themselves are done; siblings in any order.               *)
(***************************************************************************)
\* A mutant of the next: no order at all.
RollsUpNext_AnyOrder(t) == t \in Summaries \ visited

RollsUpNext(t) ==
    /\ t \in Summaries \ visited
    /\ children(t) \cap Summaries \subseteq visited

RollUp(t) ==
    /\ phase = "rollup"
    /\ RollsUpNext(t)
    /\ \E first, last, lateFirst, lateLast, tight \in children(t) :
         /\ \A c \in children(t) :
              /\ es[first] <= es[c] /\ ef[c] <= ef[last]
              /\ ls[lateFirst] <= ls[c] /\ lf[c] <= lf[lateLast]
              /\ freeFloat[tight] <= freeFloat[c]
         /\ es' = [es EXCEPT ![t] = es[first]]
         /\ ef' = [ef EXCEPT ![t] = ef[last]]
         /\ ls' = [ls EXCEPT ![t] = ls[lateFirst]]
         /\ lf' = [lf EXCEPT ![t] = lf[lateLast]]
         /\ duration' = [duration EXCEPT ![t] = lf[lateLast] - es[first]]
         /\ totalFloat' = [totalFloat EXCEPT ![t] = ls[lateFirst] - es[first]]
         /\ freeFloat' = [freeFloat EXCEPT ![t] = freeFloat[tight]]
    /\ critical' = IF children(t) \cap critical # {} THEN critical \cup {t} ELSE critical \ {t}
    /\ drivingPredecessorIds' = [drivingPredecessorIds EXCEPT ![t] =
           UNION {drivingPredecessorIds[c] : c \in children(t)}]
    /\ visited' = visited \cup {t}
    /\ UNCHANGED <<schedules, project, phase, projectDuration, history>>

(***************************************************************************)
(* The end of calculateAndPersist(): every row gets its duration and its   *)
(* planned dates, which for a task scheduled by hand stay the given ones.  *)
(***************************************************************************)
\* offsetToWorkingDate(), and back: as many whole days, either way from the start.
OnDate(offset) ==
    IF offset < 0 THEN -(Day * ((-offset) \div Day)) ELSE Day * (offset \div Day)

\* A mutant of the next: a start given by hand gives way to the calculated one.
PlannedStart_Early(t) == es[t]

PlannedStart(t) ==
    LET s == schedules[t]
    IN  CASE s.isManuallyScheduled /\ s.plannedStart # NoOffset -> s.plannedStart
          [] s.isManuallyScheduled /\ s.plannedStart = NoOffset /\ s.plannedEnd # NoOffset ->
                s.plannedEnd - duration[t]
          [] OTHER -> es[t]

PlannedEnd(t) ==
    LET s == schedules[t]
    IN  CASE s.isManuallyScheduled /\ s.plannedEnd # NoOffset -> s.plannedEnd
          [] s.isManuallyScheduled /\ s.plannedEnd = NoOffset /\ s.plannedStart # NoOffset ->
                s.plannedStart + duration[t]
          [] OTHER -> ef[t]

\* A date the next calculation reads has lost a part of a day.
CutsADate ==
    \E t \in Tasks :
       /\ schedules[t].isManuallyScheduled
       /\ OnDate(PlannedStart(t)) # PlannedStart(t) \/ OnDate(PlannedEnd(t)) # PlannedEnd(t)

Persist ==
    /\ phase = "rollup" /\ visited = Summaries
    /\ schedules' = [t \in Tasks |->
          [schedules[t] EXCEPT !.durationDays = duration[t],
                               !.plannedStart = OnDate(PlannedStart(t)),
                               !.plannedEnd = OnDate(PlannedEnd(t))]]
    /\ phase' = "saved" /\ visited' = {}
    /\ runs' = runs + 1
    /\ cut' = IF CutsADate THEN cut \cup {runs + 1} ELSE cut
    /\ UNCHANGED <<project, duration, early, late, floats, projectDuration, earlier>>

Dates == <<es, ef, ls, lf>>

\* The next calculation starts from the rows of the last, nothing else having changed.
Recalculate ==
    /\ phase = "saved" /\ runs < MaxRuns
    /\ phase' = "forward"
    /\ duration' = Durations(schedules)
    /\ es' = Starts(schedules) /\ ef' = Finishes(schedules)
    /\ drivingPredecessorIds' = NoTasks
    /\ ls' = Zero /\ lf' = Zero
    /\ totalFloat' = Zero /\ freeFloat' = Zero /\ critical' = {}
    /\ projectDuration' = 0
    /\ earlier' = Dates
    /\ UNCHANGED <<schedules, project, visited, runs, cut>>

Next ==
    \/ \E t \in Tasks :
         Forward(t) \/ Backward(t) \/ ComputeFloats(t) \/ RollUp(t)
    \/ FailOnCycle \/ TurnBack \/ Persist \/ Recalculate

Spec == Init /\ [][Next]_vars

-----------------------------------------------------------------------------
TypeOK ==
    /\ schedules \in [Tasks -> Schedule]
    /\ dependencies \subseteq Dependency
    /\ parentTaskId \in [Tasks -> Tasks \cup {NoTask}] /\ summaryTasks \subseteq Tasks
    /\ phase \in Phases /\ visited \subseteq Tasks
    /\ duration \in [Tasks -> Nat]
    /\ es \in [Tasks -> Int] /\ ef \in [Tasks -> Int]
    /\ ls \in [Tasks -> Int] /\ lf \in [Tasks -> Int]
    /\ totalFloat \in [Tasks -> Int] /\ freeFloat \in [Tasks -> Int]
    /\ critical \subseteq Tasks
    /\ drivingPredecessorIds \in [Tasks -> SUBSET Tasks]
    /\ projectDuration \in Int
    /\ runs \in 0 .. MaxRuns /\ cut \subseteq 1 .. runs

\* Tasks whose early dates are final, and not those of their children.
Placed == IF phase = "forward" THEN visited
          ELSE IF phase = "failed" THEN {}
          ELSE Tasks \ Summaries

\* What a dependency asks of the dates of its two tasks, the first delayed by some days.
Kept(d, delay) ==
    CASE d.type = "SS" -> es[d.successor] >= es[d.predecessor] + delay + d.lagDays
      [] d.type = "FF" -> ef[d.successor] >= ef[d.predecessor] + delay + d.lagDays
      [] d.type = "SF" -> ef[d.successor] >= es[d.predecessor] + delay + d.lagDays
      [] OTHER -> es[d.successor] >= ef[d.predecessor] + delay + d.lagDays

(***************************************************************************)
(* The early dates keep every dependency, also when a date given by hand   *)
(* is too early for it; those of summary tasks are only as good as their   *)
(* children's and may break one (see README).                              *)
(***************************************************************************)
DependenciesKept ==
    \A d \in dependencies : d.predecessor \in Placed /\ d.successor \in Placed => Kept(d, 0)

(***************************************************************************)
(* Floats are coherent: none is below 0, and no task may move further      *)
(* without moving another than it may move at all.  A task delayed by its  *)
(* free float still keeps its dependencies.                                *)
(***************************************************************************)
FloatsAreCoherent ==
    phase \in {"rollup", "saved"} =>
      /\ \A t \in Tasks : 0 <= freeFloat[t] /\ freeFloat[t] <= totalFloat[t]
      /\ \A d \in dependencies :
           d.predecessor \notin Summaries /\ d.successor \notin Summaries =>
             Kept(d, freeFloat[d.predecessor])

(***************************************************************************)
(* The critical path hangs together: a task that drives a critical task is *)
(* critical, so the path goes back to a task with a start of its own.      *)
(***************************************************************************)
CriticalIsDriven ==
    phase \in {"rollup", "saved"} =>
      \A t \in critical \ Summaries :
        drivingPredecessorIds[t] \ Summaries \subseteq critical

\* It is when no successor lets a task end later than the project: without
\* summaries, and with dependencies between finishes, or from finish to start, only.
CriticalPathOfFinishes ==
    /\ phase = "saved" /\ Summaries = {}
    /\ \A d \in dependencies : d.type \in {"FS", "FF"} /\ d.lagDays >= 0
    => critical # {}

\* What is critical makes a path: there is one, and it hangs together.
CriticalPathHolds == CriticalIsDriven /\ CriticalPathOfFinishes

(***************************************************************************)
(* A summary spans its children, those that are summaries included.        *)
(***************************************************************************)
SummarySpansChildren ==
    phase = "saved" =>
      \A t \in Summaries :
        /\ \A c \in children(t) : es[t] <= es[c] /\ ef[c] <= ef[t] /\ ls[t] <= ls[c] /\ lf[c] <= lf[t]
        /\ \E c \in children(t) : es[c] = es[t]
        /\ \E c \in children(t) : ef[c] = ef[t]
        /\ t \in critical <=> children(t) \cap critical # {}

(***************************************************************************)
(* "Calculation can be re-run safely" (docs/activity-schedule-automation-  *)
(* implementation-plan.md:601): with nothing changed in between, the next  *)
(* calculation finds the same dates.                                       *)
(***************************************************************************)
RerunIsSafe == phase = "saved" /\ runs > 1 => earlier = Dates

\* No dependency counts on a summary, whose duration becomes the span of its children.
SummariesStandAlone ==
    \A d \in dependencies : d.predecessor \notin Summaries /\ d.successor \notin Summaries

(***************************************************************************)
(* How far that goes: the first calculation alone may cut what was given   *)
(* by hand to whole days.  After one that cut nothing the early dates of   *)
(* all tasks are found again where summaries stand alone, and all dates    *)
(* where there are none.                                                   *)
(***************************************************************************)
RerunIsStable ==
    phase = "saved" =>
      /\ cut \subseteq {1}
      /\ runs > 1 /\ runs - 1 \notin cut =>
           /\ SummariesStandAlone => earlier[1] = es /\ earlier[2] = ef
           /\ Summaries = {} => earlier = Dates
=============================================================================
