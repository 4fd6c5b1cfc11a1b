----------------------- MODULE MCScheduleCalculation -----------------------
(***************************************************************************)
(* Small instances of ScheduleCalculation.                                 *)
(***************************************************************************)
EXTENDS ScheduleReference, TLC

\* Durations are in half days.  A task that starts with the project, and one that may
\* not start before the second day.
Plain(halves) ==
    [durationDays |-> halves, isManuallyScheduled |-> FALSE,
     plannedStart |-> NoOffset, plannedEnd |-> NoOffset, earliestStart |-> NoOffset]

Later(halves) == [Plain(halves) EXCEPT !.earliestStart = Day]

\* Scheduled by hand, half a day: a start or an end only, or two dates of which
\* one was changed past the other.
ByHand(start, end) ==
    [Plain(1) EXCEPT !.isManuallyScheduled = TRUE, !.plannedStart = start, !.plannedEnd = end]

Links(types, lags) ==
    {d \in [predecessor : Tasks, successor : Tasks, type : types, lagDays : lags] :
        d.predecessor # d.successor}

\* At most one dependency of a task on another.
Unique(networks) == {n \in networks : UniqueLinks(n)}

OneLink(lags) == {{}} \cup {{d} : d \in Links(DependencyTypes, lags)}

FinishToStart == {{d} : d \in Links({"FS"}, {0})}

TwoLinks == Unique({{d, e} : d, e \in Links(DependencyTypes, {-Day, Day})})

ThreeLinks == Unique({{d, e, f} : d, e, f \in Links({"FS"}, {0})})

Flat == [t \in Tasks |-> NoTask]

Forests ==
    {p \in [Tasks -> Tasks \cup {NoTask}] :
        \E depth \in [Tasks -> 0 .. 2] :
            \A t \in Tasks : p[t] # NoTask => depth[t] = depth[p[t]] + 1}

ProjectsOf(rows, networks, forests, summaries) ==
    {[schedules |-> s, dependencies |-> n, parentTaskId |-> p, summaryTasks |-> summaries] :
        s \in [Tasks -> rows], n \in networks, p \in forests}

\* Without summaries, any two dependencies or three from finish to start; with them,
\* or with milestones that have children, one.
MCProjects ==
    ProjectsOf({Plain(3), Later(1), ByHand(0, NoOffset), ByHand(Day, 0)},
               OneLink({-Day, Day}), {Flat}, Tasks)
    \cup ProjectsOf({Plain(3), ByHand(NoOffset, 0)}, OneLink({0}), {Flat}, Tasks)
    \cup ProjectsOf({Plain(3), Later(1)}, TwoLinks \cup ThreeLinks, {Flat}, Tasks)
    \cup ProjectsOf({Plain(3), Later(0)}, OneLink({0}), Forests \ {Flat}, Tasks)
    \cup ProjectsOf({Plain(3), ByHand(0, NoOffset)}, FinishToStart, Forests \ {Flat}, Tasks)
    \cup ProjectsOf({Plain(3)}, OneLink({Day}), Forests \ {Flat}, {})

\* No summaries, and tasks scheduled by hand with a start and half a day.
MCPartDays ==
    ProjectsOf({Plain(3), ByHand(0, NoOffset)}, OneLink({0}), {Flat}, Tasks)

MCSymmetry == Permutations(Tasks)
=============================================================================
