--------------------- MODULE ScheduleCalculationProofs ---------------------
(***************************************************************************)
(* Proofs about ScheduleCalculation, for any tasks, dependencies, dates    *)
(* and number of calculations.                                             *)
(***************************************************************************)
EXTENDS ScheduleReference, FiniteSetTheorems, SequenceTheorems, WellFoundedInduction, TLAPS

-----------------------------------------------------------------------------
(***************************************************************************)
(* The inductive invariant, pass by pass.                                  *)
(***************************************************************************)
Unsaved == phase # "saved" => runs < MaxRuns

Lengths == phase \notin {"rollup", "saved"} => \A t \in Tasks : ef[t] = es[t] + duration[t]

Driven(t) ==
    \A p \in drivingPredecessorIds[t] :
        \E d \in incoming(t) : d.predecessor = p /\ es[t] = forwardCandidateEs(d)

ForwardInv ==
    phase = "forward" =>
      /\ \A d \in dependencies :
           d.successor \in visited => d.predecessor \in visited /\ Kept(d, 0)
      /\ \A t \in visited : Driven(t)

\* What the forward pass leaves.
EarlyInv ==
    phase \in {"backward", "floats"} =>
      /\ \A d \in dependencies : Kept(d, 0)
      /\ \A t \in Tasks : Driven(t) /\ ef[t] <= projectDuration
      /\ \E t \in Tasks : ef[t] = projectDuration

OnlyFinishes == \A d \in dependencies : d.type \in {"FS", "FF"} /\ d.lagDays >= 0

Late(t) ==
    /\ es[t] <= ls[t]
    /\ \A d \in outgoing(t) : lf[t] <= backwardCandidateLf(d)
    /\ \/ outgoing(t) = {}
       \/ \E d \in outgoing(t) : lf[t] = backwardCandidateLf(d)

BackwardInv ==
    phase \in {"backward", "floats"} =>
      /\ \A t \in Tasks : lf[t] = ls[t] + duration[t]
      /\ OnlyFinishes => \A t \in Tasks : lf[t] <= projectDuration
      /\ phase = "backward" =>
           /\ \A d \in dependencies : d.predecessor \in visited => d.successor \in visited
           /\ \A t \in Tasks \ visited : lf[t] = projectDuration
           /\ \A t \in visited : Late(t)
      /\ phase = "floats" => \A t \in Tasks : Late(t)

FloatOK(t) == totalFloat[t] = ls[t] - es[t] /\ 0 <= freeFloat[t] /\ freeFloat[t] <= totalFloat[t]

FloatInv ==
    /\ phase \in {"forward", "backward"} => critical = {}
    /\ phase = "floats" =>
         /\ critical = {t \in visited : ls[t] = es[t]}
         /\ \A t \in visited :
              /\ FloatOK(t)
              /\ \A d \in outgoing(t) : Kept(d, freeFloat[t])

\* What the passes leave of the tasks that are not rolled up, and of all.
Calculated ==
    phase \in {"rollup", "saved"} =>
      /\ \A t \in Tasks : FloatOK(t) /\ es[t] <= lf[t]
      /\ \A d \in dependencies :
           d.predecessor \notin Summaries /\ d.successor \notin Summaries =>
             Kept(d, 0) /\ Kept(d, freeFloat[d.predecessor])
      /\ \A t \in critical \ Summaries : drivingPredecessorIds[t] \ Summaries \subseteq critical
      /\ Summaries = {} /\ OnlyFinishes => critical # {}

Spans(t) ==
    /\ \A c \in children(t) : es[t] <= es[c] /\ ef[c] <= ef[t] /\ ls[t] <= ls[c] /\ lf[c] <= lf[t]
    /\ \E c \in children(t) : es[c] = es[t]
    /\ \E c \in children(t) : ef[c] = ef[t]
    /\ t \in critical <=> children(t) \cap critical # {}

RolledUp ==
    /\ phase = "rollup" =>
         \A t \in visited : children(t) \cap Summaries \subseteq visited /\ Spans(t)
    /\ phase = "saved" => visited = {} /\ \A t \in Summaries : Spans(t)

Passes == Lengths /\ ForwardInv /\ EarlyInv /\ BackwardInv /\ FloatInv

IInv == TypeOK /\ Unsaved /\ Passes /\ Calculated /\ RolledUp

-----------------------------------------------------------------------------
(***************************************************************************)
(* What the helpers return.                                                *)
(***************************************************************************)
LEMMA DependencyFields ==
  ASSUME TypeOK, NEW d \in dependencies
  PROVE  /\ d.predecessor \in Tasks /\ d.successor \in Tasks
         /\ d.type \in DependencyTypes /\ d.lagDays \in Int
BY DEF TypeOK, Dependency

LEMMA NodeTypes ==
  ASSUME NEW s \in Schedule
  PROVE  nodeDuration(s) \in Nat /\ pinnedStart(s) \in Int
<1>1. nodeDuration(s) \in Nat
  BY ScheduleAssumption DEF Schedule, Offset, nodeDuration, PinnedBothEnds, Max0
<1>2. pinnedStart(s) \in Int
  BY <1>1, ScheduleAssumption DEF Schedule, Offset, pinnedStart, Max0
<1> QED BY <1>1, <1>2

LEMMA NodesTypes ==
  ASSUME NEW rows \in [Tasks -> Schedule]
  PROVE  /\ Durations(rows) \in [Tasks -> Nat]
         /\ Starts(rows) \in [Tasks -> Int] /\ Finishes(rows) \in [Tasks -> Int]
         /\ \A t \in Tasks : Finishes(rows)[t] = Starts(rows)[t] + Durations(rows)[t]
<1>1. \A t \in Tasks : nodeDuration(rows[t]) \in Nat /\ pinnedStart(rows[t]) \in Int
  BY NodeTypes
<1>2. \A t \in Tasks : pinnedStart(rows[t]) + nodeDuration(rows[t]) \in Int
  BY <1>1
<1> QED BY <1>1, <1>2 DEF Durations, Starts, Finishes

LEMMA CandidateTypes ==
  ASSUME TypeOK, NEW d \in dependencies
  PROVE  /\ forwardCandidateEs(d) \in Int /\ backwardCandidateLf(d) \in Int
         /\ freeFloatOf(d) \in Int
<1>1. /\ d.predecessor \in Tasks /\ d.successor \in Tasks /\ d.lagDays \in Int
  BY DependencyFields
<1>2. /\ es[d.predecessor] \in Int /\ ef[d.predecessor] \in Int
      /\ es[d.successor] \in Int /\ ef[d.successor] \in Int
      /\ ls[d.successor] \in Int /\ lf[d.successor] \in Int
      /\ duration[d.predecessor] \in Int /\ duration[d.successor] \in Int
  BY <1>1 DEF TypeOK
<1> QED BY <1>1, <1>2 DEF forwardCandidateEs, backwardCandidateLf, freeFloatOf

\* A whole number of days stays one: at the date of an offset nothing is cut.
LEMMA DateOfDays ==
  ASSUME NEW n \in Nat PROVE (Day * n) \div Day = n
<1>1. Day \in Nat /\ Day > 0
  BY ScheduleAssumption
<1>2. Day * n = n * Day + 0 /\ Day * n \in Int
  BY <1>1
<1> DEFINE q == (Day * n) \div Day
<1>3. q \in Int /\ Day * q <= Day * n /\ Day * n < Day * (q + 1)
  BY <1>1, <1>2, SMTT(30)
<1>4. \A a, b \in Int : Day * a <= Day * b => a <= b
  BY <1>1, SMTT(30)
<1>5. \A a, b \in Int : Day * a < Day * b => a < b
  BY <1>1, SMTT(30)
<1> HIDE DEF q
<1>6. q <= n
  BY <1>3, <1>4
<1>7. q + 1 \in Int /\ n < q + 1
  BY <1>3, <1>5
<1>8. q = n
  BY <1>3, <1>6, <1>7
<1> QED BY <1>8 DEF q

LEMMA OnDateOnce ==
  ASSUME NEW x \in Int PROVE OnDate(x) \in Int /\ OnDate(OnDate(x)) = OnDate(x)
<1>1. Day \in Nat /\ Day > 0
  BY ScheduleAssumption
<1>2. CASE x < 0
  <2>1. PICK n \in Nat : OnDate(x) = -(Day * n)
    <3>1. (-x) \div Day \in Nat
      BY <1>1, <1>2
    <3> QED BY <1>2, <3>1 DEF OnDate
  <2>2. Day * n \in Nat /\ (Day * n) \div Day = n
    BY <1>1, DateOfDays
  <2>3. -(-(Day * n)) = Day * n
    BY <2>2
  <2>4. CASE Day * n = 0
    <3>1. OnDate(x) = 0 /\ 0 \div Day = n
      BY <2>1, <2>2, <2>4
    <3> QED BY <3>1, <2>4 DEF OnDate
  <2>5. CASE Day * n > 0
    BY <2>1, <2>2, <2>3, <2>5 DEF OnDate
  <2> QED BY <2>2, <2>4, <2>5
<1>3. CASE x >= 0
  <2>1. PICK n \in Nat : OnDate(x) = Day * n
    <3>1. x \div Day \in Nat
      BY <1>1, <1>3
    <3> QED BY <1>3, <3>1 DEF OnDate
  <2>2. Day * n \in Nat /\ (Day * n) \div Day = n
    BY <1>1, DateOfDays
  <2> QED BY <2>1, <2>2 DEF OnDate
<1> QED BY <1>2, <1>3

-----------------------------------------------------------------------------
LEMMA InitHolds == Init => IInv
<1> SUFFICES ASSUME Init PROVE IInv
  OBVIOUS
<1>1. /\ schedules \in [Tasks -> Schedule] /\ dependencies \subseteq Dependency
      /\ parentTaskId \in [Tasks -> Tasks \cup {NoTask}] /\ summaryTasks \subseteq Tasks
  <2>1. PICK p \in Projects : /\ schedules = p.schedules /\ dependencies = p.dependencies
                              /\ parentTaskId = p.parentTaskId /\ summaryTasks = p.summaryTasks
    BY DEF Init
  <2>2. p \in Project
    BY <2>1, ScheduleAssumption
  <2> QED BY <2>1, <2>2 DEF Project
<1>2. TypeOK
  <2>1. /\ duration \in [Tasks -> Nat] /\ es \in [Tasks -> Int] /\ ef \in [Tasks -> Int]
    BY <1>1, NodesTypes DEF Init
  <2>2. runs \in 0 .. MaxRuns
    BY ScheduleAssumption DEF Init
  <2> QED BY <1>1, <2>1, <2>2 DEF Init, TypeOK, Zero, NoTasks, Phases
<1>3. Unsaved
  BY ScheduleAssumption DEF Init, Unsaved
<1>4. Lengths
  BY <1>1, NodesTypes DEF Init, Lengths
<1>5. ForwardInv /\ EarlyInv /\ BackwardInv /\ FloatInv /\ Calculated /\ RolledUp
  BY DEF Init, ForwardInv, EarlyInv, BackwardInv, FloatInv, Calculated, RolledUp
<1> QED BY <1>2, <1>3, <1>4, <1>5 DEF IInv, Passes

-----------------------------------------------------------------------------
(***************************************************************************)
(* The forward pass.                                                       *)
(***************************************************************************)
LEMMA ForwardPreserves ==
  ASSUME IInv, NEW t \in Tasks, Forward(t) PROVE IInv'
<1> USE DEF IInv, Passes
<1>1. PICK best \in EarlyStarts(t) :
        /\ \A start \in EarlyStarts(t) : start <= best
        /\ es' = [es EXCEPT ![t] = best]
        /\ ef' = [ef EXCEPT ![t] = best + duration[t]]
        /\ drivingPredecessorIds' = [drivingPredecessorIds EXCEPT ![t] =
                {d.predecessor : d \in {x \in incoming(t) : forwardCandidateEs(x) = best}}]
  BY DEF Forward
<1>2. /\ phase = "forward" /\ phase' = "forward" /\ t \notin visited /\ visited' = visited \cup {t}
      /\ UNCHANGED <<schedules, dependencies, parentTaskId, summaryTasks, duration, ls, lf,
                     totalFloat, freeFloat, critical, projectDuration, runs, cut>>
      /\ \A d \in incoming(t) : d.predecessor \in visited
  BY DEF Forward, Ready, project, late, floats, history
<1>3. best \in Int
  BY CandidateTypes DEF EarlyStarts, incoming, TypeOK
<1>4. TypeOK'
  <2>1. es' \in [Tasks -> Int] /\ ef' \in [Tasks -> Int]
    <3>1. best + duration[t] \in Int
      BY <1>3 DEF TypeOK
    <3> QED BY <1>1, <1>3, <3>1 DEF TypeOK
  <2>2. drivingPredecessorIds' \in [Tasks -> SUBSET Tasks]
    <3>1. {d.predecessor : d \in {x \in incoming(t) : forwardCandidateEs(x) = best}} \subseteq Tasks
      BY DependencyFields DEF incoming
    <3> QED BY <1>1, <3>1 DEF TypeOK
  <2> QED BY <1>2, <2>1, <2>2 DEF TypeOK
<1>5. Lengths'
  BY <1>1, <1>2, <1>3 DEF Lengths, TypeOK
<1>6. ForwardInv'
  <2>1. ASSUME NEW d \in dependencies, d.successor \in visited'
        PROVE  d.predecessor \in visited' /\ Kept(d, 0)'
    <3>1. CASE d.successor = t
      <4>1. d \in incoming(t) /\ d.predecessor \in visited /\ d.predecessor # t
        BY <3>1, <1>2 DEF incoming
      <4>2. forwardCandidateEs(d) <= best
        BY <4>1, <1>1 DEF EarlyStarts
      <4>3. /\ es'[t] = best /\ ef'[t] = best + duration[t]
            /\ es'[d.predecessor] = es[d.predecessor] /\ ef'[d.predecessor] = ef[d.predecessor]
        BY <1>1, <4>1, DependencyFields DEF TypeOK
      <4>4. /\ es[d.predecessor] \in Int /\ ef[d.predecessor] \in Int
            /\ d.lagDays \in Int /\ duration[t] \in Int
        BY DependencyFields DEF TypeOK
      <4>5. Kept(d, 0)'
        BY <3>1, <4>2, <4>3, <4>4, <1>3 DEF Kept, forwardCandidateEs
      <4> QED BY <4>1, <4>5, <1>2
    <3>2. CASE d.successor # t
      <4>1. d.successor \in visited /\ d.predecessor \in visited /\ Kept(d, 0)
        BY <3>2, <2>1, <1>2 DEF ForwardInv
      <4>2. /\ es'[d.predecessor] = es[d.predecessor] /\ ef'[d.predecessor] = ef[d.predecessor]
            /\ es'[d.successor] = es[d.successor] /\ ef'[d.successor] = ef[d.successor]
        BY <1>1, <1>2, <4>1, DependencyFields DEF TypeOK
      <4> QED BY <4>1, <4>2, <1>2 DEF Kept
    <3> QED BY <3>1, <3>2
  <2>2. ASSUME NEW u \in visited' PROVE Driven(u)'
    <3>1. SUFFICES ASSUME NEW p \in drivingPredecessorIds'[u]
                   PROVE  \E d \in incoming(u)' :
                            d.predecessor = p /\ es'[u] = forwardCandidateEs(d)'
      BY DEF Driven
    <3>2. CASE u = t
      <4>1. PICK d \in incoming(t) : d.predecessor = p /\ forwardCandidateEs(d) = best
        BY <3>2, <1>1 DEF TypeOK
      <4>2. /\ d \in dependencies /\ d.successor = t /\ d \in incoming(t)'
            /\ d.predecessor \in visited /\ d.predecessor # t
        BY <1>2 DEF incoming
      <4>3. /\ es'[d.predecessor] = es[d.predecessor] /\ ef'[d.predecessor] = ef[d.predecessor]
            /\ es'[t] = best
        BY <1>1, <4>2, DependencyFields DEF TypeOK
      <4>4. forwardCandidateEs(d)' = forwardCandidateEs(d)
        BY <4>3, <1>2 DEF forwardCandidateEs
      <4> QED BY <3>2, <4>1, <4>2, <4>3, <4>4
    <3>3. CASE u # t
      <4>1. u \in visited /\ u \in Tasks /\ p \in drivingPredecessorIds[u]
        BY <3>3, <1>1, <1>2, <2>2 DEF TypeOK
      <4>2. PICK d \in incoming(u) : d.predecessor = p /\ es[u] = forwardCandidateEs(d)
        BY <4>1, <1>2 DEF ForwardInv, Driven
      <4>3. d \in dependencies /\ d.successor = u /\ d \in incoming(u)'
        BY <1>2 DEF incoming
      <4>4. d.predecessor \in visited /\ d.predecessor # t
        BY <4>1, <4>3, <1>2 DEF ForwardInv
      <4>5. /\ es'[d.predecessor] = es[d.predecessor] /\ ef'[d.predecessor] = ef[d.predecessor]
            /\ es'[u] = es[u]
        BY <1>1, <3>3, <4>1, <4>3, <4>4, DependencyFields DEF TypeOK
      <4>6. forwardCandidateEs(d)' = forwardCandidateEs(d)
        BY <4>5, <1>2 DEF forwardCandidateEs
      <4> QED BY <4>2, <4>3, <4>5, <4>6
    <3> QED BY <3>2, <3>3
  <2> QED BY <2>1, <2>2, <1>2 DEF ForwardInv
<1>7. Unsaved' /\ EarlyInv' /\ BackwardInv' /\ FloatInv' /\ Calculated' /\ RolledUp'
  BY <1>2 DEF Unsaved, EarlyInv, BackwardInv, FloatInv, Calculated, RolledUp
<1> QED BY <1>4, <1>5, <1>6, <1>7

LEMMA FailPreserves ==
  ASSUME IInv, FailOnCycle PROVE IInv'
<1> USE DEF IInv, Passes
<1>1. /\ phase = "forward" /\ phase' = "failed"
      /\ UNCHANGED <<schedules, dependencies, parentTaskId, summaryTasks, visited, duration,
                     es, ef, drivingPredecessorIds, ls, lf, totalFloat, freeFloat, critical,
                     projectDuration, runs, cut>>
  BY DEF FailOnCycle, project, early, late, floats, history
<1>2. TypeOK'
  BY <1>1 DEF TypeOK, Phases
<1>3. Lengths'
  BY <1>1 DEF Lengths
<1> QED BY <1>1, <1>2, <1>3 DEF Unsaved, ForwardInv, EarlyInv, BackwardInv, FloatInv, Calculated, RolledUp

-----------------------------------------------------------------------------
(***************************************************************************)
(* The backward pass.                                                      *)
(***************************************************************************)
LEMMA TurnBackPreserves ==
  ASSUME IInv, TurnBack PROVE IInv'
<1> USE DEF IInv, Passes
<1>1. PICK last \in Tasks :
        /\ \A t \in Tasks : ef[t] <= ef[last]
        /\ projectDuration' = ef[last]
        /\ lf' = [t \in Tasks |-> ef[last]]
        /\ ls' = [t \in Tasks |-> ef[last] - duration[t]]
  BY DEF TurnBack
<1>2. /\ phase = "forward" /\ phase' = "backward" /\ visited = Tasks /\ visited' = {}
      /\ UNCHANGED <<schedules, dependencies, parentTaskId, summaryTasks, duration, es, ef,
                     drivingPredecessorIds, totalFloat, freeFloat, critical, runs, cut>>
  BY DEF TurnBack, project, early, floats, history
<1>3. TypeOK'
  BY <1>1, <1>2 DEF TypeOK, Phases
<1>4. Lengths' /\ ForwardInv' /\ Calculated' /\ RolledUp' /\ Unsaved'
  BY <1>2 DEF Lengths, ForwardInv, Calculated, RolledUp, Unsaved
<1>5. EarlyInv'
  <2>1. \A d \in dependencies : Kept(d, 0)'
    BY <1>2, DependencyFields DEF ForwardInv, Kept
  <2>2. \A t \in Tasks : Driven(t)'
    BY <1>2 DEF ForwardInv, Driven, incoming, forwardCandidateEs
  <2> QED BY <1>1, <1>2, <2>1, <2>2 DEF EarlyInv
<1>6. BackwardInv'
  BY <1>1, <1>2 DEF BackwardInv, TypeOK
<1>7. FloatInv'
  BY <1>2 DEF FloatInv
<1> QED BY <1>3, <1>4, <1>5, <1>6, <1>7

\* A successor that starts no earlier than it can gives its predecessor time to do the same.
LEMMA LateStartSuffices ==
  ASSUME TypeOK, NEW d \in dependencies, Kept(d, 0),
         es[d.successor] <= ls[d.successor],
         ef[d.successor] = es[d.successor] + duration[d.successor],
         lf[d.successor] = ls[d.successor] + duration[d.successor],
         ef[d.predecessor] = es[d.predecessor] + duration[d.predecessor]
  PROVE  es[d.predecessor] <= backwardCandidateLf(d) - duration[d.predecessor]
<1>1. /\ d.predecessor \in Tasks /\ d.successor \in Tasks /\ d.lagDays \in Int
  BY DependencyFields
<1>2. /\ es[d.predecessor] \in Int /\ ef[d.predecessor] \in Int
      /\ es[d.successor] \in Int /\ ef[d.successor] \in Int
      /\ ls[d.successor] \in Int /\ lf[d.successor] \in Int
      /\ duration[d.predecessor] \in Int /\ duration[d.successor] \in Int
  BY <1>1 DEF TypeOK
<1> QED BY <1>1, <1>2 DEF Kept, backwardCandidateLf

LEMMA BackwardPreserves ==
  ASSUME IInv, NEW t \in Tasks, Backward(t) PROVE IInv'
<1> USE DEF IInv, Passes
<1>1. /\ phase = "backward" /\ t \notin visited
      /\ \A d \in outgoing(t) : d.successor \in visited
      /\ \/ visited' = visited \cup {t} /\ visited' # Tasks /\ phase' = "backward"
         \/ visited \cup {t} = Tasks /\ visited' = {} /\ phase' = "floats"
      /\ UNCHANGED <<schedules, dependencies, parentTaskId, summaryTasks, duration, es, ef,
                     drivingPredecessorIds, totalFloat, freeFloat, critical, projectDuration, runs, cut>>
  BY DEF Backward, Visit, project, early, floats, history
<1>2. /\ \A d \in dependencies : Kept(d, 0)
      /\ \A u \in Tasks : Driven(u) /\ ef[u] <= projectDuration
      /\ \E u \in Tasks : ef[u] = projectDuration
  BY <1>1 DEF EarlyInv
<1>3. \A u \in Tasks : lf[u] = ls[u] + duration[u] /\ ef[u] = es[u] + duration[u]
  BY <1>1 DEF BackwardInv, Lengths
<1>4. \A d \in outgoing(t) :
        /\ d \in dependencies /\ d.predecessor = t /\ d.successor \in Tasks
        /\ d.successor \in visited /\ d.successor # t
        /\ backwardCandidateLf(d) \in Int
        /\ es[t] <= backwardCandidateLf(d) - duration[t]
  <2>1. ASSUME NEW d \in outgoing(t)
        PROVE  es[t] <= backwardCandidateLf(d) - duration[t]
    <3>1. d \in dependencies /\ d.predecessor = t /\ d.successor \in Tasks
      BY DependencyFields DEF outgoing
    <3>2. es[d.successor] <= ls[d.successor]
      BY <1>1 DEF BackwardInv, Late
    <3> QED BY <3>1, <3>2, <1>2, <1>3, LateStartSuffices
  <2> QED BY <1>1, <2>1, DependencyFields, CandidateTypes DEF outgoing
<1>5. /\ lf' \in [Tasks -> Int] /\ ls' \in [Tasks -> Int]
      /\ \A u \in Tasks \ {t} : lf'[u] = lf[u] /\ ls'[u] = ls[u]
      /\ lf'[t] = ls'[t] + duration[t]
      /\ es[t] <= ls'[t]
      /\ \A d \in outgoing(t) : lf'[t] <= backwardCandidateLf(d)
      /\ \/ outgoing(t) = {} /\ lf'[t] = lf[t]
         \/ \E d \in outgoing(t) : lf'[t] = backwardCandidateLf(d)
  <2>1. CASE outgoing(t) = {} /\ UNCHANGED late
    <3>1. lf[t] = projectDuration /\ ef[t] <= projectDuration
      BY <1>1, <1>2 DEF BackwardInv
    <3>2. es[t] <= ls[t]
      BY <1>3, <3>1 DEF TypeOK
    <3> QED BY <2>1, <3>2, <1>3 DEF late, TypeOK
  <2>2. CASE \E best \in {backwardCandidateLf(d) : d \in outgoing(t)} :
               /\ \A d \in outgoing(t) : best <= backwardCandidateLf(d)
               /\ lf' = [lf EXCEPT ![t] = best]
               /\ ls' = [ls EXCEPT ![t] = best - duration[t]]
    <3>1. PICK b \in outgoing(t) :
               /\ \A d \in outgoing(t) : backwardCandidateLf(b) <= backwardCandidateLf(d)
               /\ lf' = [lf EXCEPT ![t] = backwardCandidateLf(b)]
               /\ ls' = [ls EXCEPT ![t] = backwardCandidateLf(b) - duration[t]]
      BY <2>2
    <3>2. /\ backwardCandidateLf(b) \in Int /\ duration[t] \in Int
          /\ backwardCandidateLf(b) - duration[t] \in Int
          /\ es[t] <= backwardCandidateLf(b) - duration[t]
      BY <1>4 DEF TypeOK
    <3> QED BY <3>1, <3>2 DEF TypeOK
  <2> QED BY <2>1, <2>2 DEF Backward
<1>6. \A d \in dependencies : d.successor # t => backwardCandidateLf(d)' = backwardCandidateLf(d)
  BY <1>1, <1>5, DependencyFields DEF backwardCandidateLf
<1>7. \A u \in visited \cup {t} : Late(u)'
  <2>1. Late(t)'
    <3>1. \A d \in outgoing(t) : backwardCandidateLf(d)' = backwardCandidateLf(d)
      BY <1>4, <1>6
    <3> QED BY <1>1, <1>5, <3>1 DEF Late, outgoing
  <2>2. ASSUME NEW u \in visited PROVE Late(u)'
    <3>1. u \in Tasks /\ u # t /\ Late(u)
      BY <1>1 DEF BackwardInv, TypeOK
    <3>2. \A d \in outgoing(u) : backwardCandidateLf(d)' = backwardCandidateLf(d)
      BY <1>1, <1>6 DEF outgoing, BackwardInv
    <3> QED BY <1>1, <1>5, <3>1, <3>2 DEF Late, outgoing
  <2> QED BY <2>1, <2>2
<1>8. TypeOK'
  BY <1>1, <1>5 DEF TypeOK, Phases
<1>9. Lengths'
  BY <1>1, <1>3 DEF Lengths
<1>10. EarlyInv'
  <2>1. \A d \in dependencies : Kept(d, 0)'
    BY <1>1, <1>2 DEF Kept
  <2>2. \A u \in Tasks : Driven(u)'
    BY <1>1, <1>2 DEF Driven, incoming, forwardCandidateEs
  <2> QED BY <1>1, <1>2, <2>1, <2>2 DEF EarlyInv
<1>11. BackwardInv'
  <2>1. \A u \in Tasks : lf'[u] = ls'[u] + duration[u]
    BY <1>3, <1>5
  <2>2. ASSUME OnlyFinishes PROVE \A u \in Tasks : lf'[u] <= projectDuration
    <3>1. \A u \in Tasks : lf[u] <= projectDuration
      BY <2>2, <1>1 DEF BackwardInv
    <3>2. ASSUME NEW d \in outgoing(t) PROVE backwardCandidateLf(d) <= projectDuration
      <4>1. d \in dependencies /\ d.successor \in Tasks /\ d.lagDays \in Int
            /\ d.type \in {"FS", "FF"} /\ d.lagDays >= 0
        BY <1>4, <2>2, DependencyFields DEF OnlyFinishes
      <4>2. /\ ls[d.successor] \in Int /\ lf[d.successor] \in Int /\ projectDuration \in Int
            /\ duration[d.successor] \in Nat /\ lf[d.successor] <= projectDuration
            /\ lf[d.successor] = ls[d.successor] + duration[d.successor]
        BY <4>1, <3>1, <1>3 DEF TypeOK
      <4> QED BY <4>1, <4>2 DEF backwardCandidateLf
    <3>3. lf'[t] <= projectDuration
      BY <3>1, <3>2, <1>5
    <3> QED BY <3>1, <3>3, <1>5
  <2>3. \A d \in dependencies :
          d.predecessor \in visited \cup {t} => d.successor \in visited \cup {t}
    BY <1>1 DEF BackwardInv, outgoing
  <2>4. \A u \in Tasks \ (visited \cup {t}) : lf'[u] = projectDuration
    BY <1>1, <1>5 DEF BackwardInv
  <2> QED BY <1>1, <1>7, <2>1, <2>2, <2>3, <2>4 DEF BackwardInv, OnlyFinishes
<1>12. FloatInv'
  BY <1>1 DEF FloatInv
<1> QED BY <1>1, <1>8, <1>9, <1>10, <1>11, <1>12 DEF Unsaved, ForwardInv, Calculated, RolledUp

-----------------------------------------------------------------------------
(***************************************************************************)
(* The floats.                                                             *)
(***************************************************************************)
LEMMA FreeFloatBounds ==
  ASSUME TypeOK, NEW d \in dependencies,
         es[d.successor] <= ls[d.successor],
         ef[d.successor] = es[d.successor] + duration[d.successor],
         lf[d.successor] = ls[d.successor] + duration[d.successor],
         ef[d.predecessor] = es[d.predecessor] + duration[d.predecessor],
         lf[d.predecessor] = ls[d.predecessor] + duration[d.predecessor],
         lf[d.predecessor] = backwardCandidateLf(d)
  PROVE  freeFloatOf(d) <= ls[d.predecessor] - es[d.predecessor]
<1>1. /\ d.predecessor \in Tasks /\ d.successor \in Tasks /\ d.lagDays \in Int
  BY DependencyFields
<1>2. /\ es[d.predecessor] \in Int /\ ef[d.predecessor] \in Int
      /\ ls[d.predecessor] \in Int /\ lf[d.predecessor] \in Int
      /\ es[d.successor] \in Int /\ ef[d.successor] \in Int
      /\ ls[d.successor] \in Int /\ lf[d.successor] \in Int
      /\ duration[d.predecessor] \in Int /\ duration[d.successor] \in Int
  BY <1>1 DEF TypeOK
<1> QED BY <1>1, <1>2 DEF freeFloatOf, backwardCandidateLf

LEMMA FreeFloatKeeps ==
  ASSUME TypeOK, NEW d \in dependencies, NEW delay \in Int
  PROVE  delay <= freeFloatOf(d) <=> Kept(d, delay)
<1>1. /\ d.predecessor \in Tasks /\ d.successor \in Tasks /\ d.lagDays \in Int
  BY DependencyFields
<1>2. /\ es[d.predecessor] \in Int /\ ef[d.predecessor] \in Int
      /\ es[d.successor] \in Int /\ ef[d.successor] \in Int
  BY <1>1 DEF TypeOK
<1> QED BY <1>1, <1>2 DEF freeFloatOf, Kept

\* Slack of a driving predecessor is slack of the task it drives.
LEMMA DriverIsTight ==
  ASSUME TypeOK, NEW d \in dependencies,
         ef[d.successor] = es[d.successor] + duration[d.successor],
         lf[d.successor] = ls[d.successor] + duration[d.successor],
         ef[d.predecessor] = es[d.predecessor] + duration[d.predecessor],
         lf[d.predecessor] = ls[d.predecessor] + duration[d.predecessor],
         lf[d.predecessor] <= backwardCandidateLf(d),
         es[d.predecessor] <= ls[d.predecessor],
         es[d.successor] = forwardCandidateEs(d),
         es[d.successor] = ls[d.successor]
  PROVE  es[d.predecessor] = ls[d.predecessor]
<1>1. /\ d.predecessor \in Tasks /\ d.successor \in Tasks /\ d.lagDays \in Int
  BY DependencyFields
<1>2. /\ es[d.predecessor] \in Int /\ ef[d.predecessor] \in Int
      /\ ls[d.predecessor] \in Int /\ lf[d.predecessor] \in Int
      /\ es[d.successor] \in Int /\ ef[d.successor] \in Int
      /\ ls[d.successor] \in Int /\ lf[d.successor] \in Int
      /\ duration[d.predecessor] \in Int /\ duration[d.successor] \in Int
  BY <1>1 DEF TypeOK
<1>3. backwardCandidateLf(d) <= ef[d.predecessor]
  <2>1. CASE d.type = "SS"
    BY <2>1, <1>1, <1>2 DEF forwardCandidateEs, backwardCandidateLf
  <2>2. CASE d.type = "FF"
    BY <2>2, <1>1, <1>2 DEF forwardCandidateEs, backwardCandidateLf
  <2>3. CASE d.type = "SF"
    BY <2>3, <1>1, <1>2 DEF forwardCandidateEs, backwardCandidateLf
  <2>4. CASE d.type \notin {"SS", "FF", "SF"}
    BY <2>4, <1>1, <1>2 DEF forwardCandidateEs, backwardCandidateLf
  <2> QED BY <2>1, <2>2, <2>3, <2>4
<1>4. ls[d.predecessor] + duration[d.predecessor] <= es[d.predecessor] + duration[d.predecessor]
  BY <1>2, <1>3, CandidateTypes
<1> QED BY <1>2, <1>4

LEMMA ComputeFloatsPreserves ==
  ASSUME IInv, NEW t \in Tasks, ComputeFloats(t) PROVE IInv'
<1> USE DEF IInv, Passes
<1>1. /\ phase = "floats" /\ t \notin visited
      /\ \/ visited' = visited \cup {t} /\ visited' # Tasks /\ phase' = "floats"
         \/ visited \cup {t} = Tasks /\ visited' = {} /\ phase' = "rollup"
      /\ totalFloat' = [totalFloat EXCEPT ![t] = ls[t] - es[t]]
      /\ critical' = IF ls[t] = es[t] THEN critical \cup {t} ELSE critical
      /\ UNCHANGED <<schedules, dependencies, parentTaskId, summaryTasks, duration, es, ef,
                     drivingPredecessorIds, ls, lf, projectDuration, runs, cut>>
  BY DEF ComputeFloats, Visit, project, early, late, history
<1>2. /\ \A d \in dependencies : Kept(d, 0)
      /\ \A u \in Tasks : Driven(u) /\ ef[u] <= projectDuration
      /\ \E u \in Tasks : ef[u] = projectDuration
  BY <1>1 DEF EarlyInv
<1>3. \A u \in Tasks : /\ lf[u] = ls[u] + duration[u] /\ ef[u] = es[u] + duration[u]
                       /\ Late(u) /\ es[u] <= ls[u]
  BY <1>1 DEF BackwardInv, Lengths, Late
<1>4. /\ freeFloat' \in [Tasks -> Int]
      /\ \A u \in Tasks \ {t} : freeFloat'[u] = freeFloat[u]
      /\ 0 <= freeFloat'[t] /\ freeFloat'[t] <= ls[t] - es[t]
      /\ \A d \in outgoing(t) : Kept(d, freeFloat'[t])
  <2>1. ls[t] - es[t] \in Int /\ 0 <= ls[t] - es[t]
    BY <1>3 DEF TypeOK
  <2>2. CASE outgoing(t) = {} /\ freeFloat' = [freeFloat EXCEPT ![t] = ls[t] - es[t]]
    BY <2>1, <2>2 DEF TypeOK
  <2>3. CASE \E least \in {freeFloatOf(d) : d \in outgoing(t)} :
               /\ \A d \in outgoing(t) : least <= freeFloatOf(d)
               /\ freeFloat' = [freeFloat EXCEPT ![t] = Max0(least)]
    <3>1. PICK b \in outgoing(t) :
               /\ \A d \in outgoing(t) : freeFloatOf(b) <= freeFloatOf(d)
               /\ freeFloat' = [freeFloat EXCEPT ![t] = Max0(freeFloatOf(b))]
      BY <2>3
    <3>2. \A d \in outgoing(t) :
            /\ d \in dependencies /\ d.predecessor = t /\ d.successor \in Tasks
            /\ freeFloatOf(d) \in Int
      BY DependencyFields, CandidateTypes DEF outgoing
    <3>3. PICK d \in outgoing(t) : lf[t] = backwardCandidateLf(d)
      BY <1>3, <3>1 DEF Late
    <3>4. freeFloatOf(d) <= ls[t] - es[t]
      BY <3>2, <3>3, <1>3, FreeFloatBounds
    <3>5. freeFloatOf(b) <= freeFloatOf(d)
      BY <3>1
    <3>6. /\ Max0(freeFloatOf(b)) \in Int
          /\ 0 <= Max0(freeFloatOf(b)) /\ Max0(freeFloatOf(b)) <= ls[t] - es[t]
      BY <2>1, <3>2, <3>4, <3>5 DEF Max0
    <3>7. ASSUME NEW e \in outgoing(t) PROVE Kept(e, Max0(freeFloatOf(b)))
      <4>1. CASE freeFloatOf(b) > 0
        <5>1. Max0(freeFloatOf(b)) <= freeFloatOf(e)
          BY <3>1, <4>1 DEF Max0
        <5> QED BY <5>1, <3>2, <3>6, FreeFloatKeeps
      <4>2. CASE ~(freeFloatOf(b) > 0)
        BY <4>2, <3>2, <1>2 DEF Max0
      <4> QED BY <4>1, <4>2
    <3> QED BY <3>1, <3>6, <3>7 DEF TypeOK
  <2> QED BY <2>2, <2>3 DEF ComputeFloats
<1>5. \A d \in dependencies : \A delay \in Int : Kept(d, delay)' <=> Kept(d, delay)
  BY <1>1 DEF Kept
<1>6. /\ critical' = {u \in visited \cup {t} : ls[u] = es[u]}
      /\ \A u \in visited \cup {t} :
           /\ FloatOK(u)'
           /\ \A d \in outgoing(u) : Kept(d, freeFloat'[u])
  <2>1. /\ critical = {u \in visited : ls[u] = es[u]} /\ visited \subseteq Tasks
        /\ \A u \in visited : FloatOK(u) /\ \A d \in outgoing(u) : Kept(d, freeFloat[u])
    BY <1>1 DEF FloatInv, TypeOK
  <2>2. FloatOK(t)'
    BY <1>1, <1>4 DEF FloatOK, TypeOK
  <2>3. ASSUME NEW u \in visited PROVE FloatOK(u)'
    BY <1>1, <1>4, <2>1 DEF FloatOK, TypeOK
  <2> QED BY <1>1, <1>4, <2>1, <2>2, <2>3
<1>7. TypeOK'
  <2>1. totalFloat' \in [Tasks -> Int]
    BY <1>1 DEF TypeOK
  <2>2. critical' \subseteq Tasks
    BY <1>6 DEF TypeOK
  <2> QED BY <1>1, <1>4, <2>1, <2>2 DEF TypeOK, Phases
<1>8. Lengths'
  BY <1>1, <1>3 DEF Lengths
<1>9. EarlyInv'
  <2>1. \A d \in dependencies : Kept(d, 0)'
    BY <1>2, <1>5
  <2>2. \A u \in Tasks : Driven(u)'
    BY <1>1, <1>2 DEF Driven, incoming, forwardCandidateEs
  <2> QED BY <1>1, <1>2, <2>1, <2>2 DEF EarlyInv
<1>10. BackwardInv'
  <2>1. \A u \in Tasks : Late(u)'
    BY <1>1, <1>3 DEF Late, outgoing, backwardCandidateLf
  <2> QED BY <1>1, <1>3, <2>1 DEF BackwardInv, OnlyFinishes
<1>11. FloatInv'
  <2>1. ASSUME phase' = "floats"
        PROVE  \A u \in visited' : \A d \in outgoing(u)' : Kept(d, freeFloat[u])'
    <3> SUFFICES ASSUME NEW u \in visited', NEW d \in outgoing(u)'
                 PROVE  Kept(d, freeFloat[u])'
      OBVIOUS
    <3>1. u \in visited \cup {t} /\ u \in Tasks /\ d \in outgoing(u) /\ d \in dependencies
      BY <2>1, <1>1 DEF outgoing, TypeOK
    <3>2. Kept(d, freeFloat'[u]) /\ freeFloat'[u] \in Int
      BY <3>1, <1>4, <1>6
    <3> QED BY <3>1, <3>2, <1>1 DEF Kept
  <2> QED BY <1>1, <1>6, <2>1 DEF FloatInv
<1>12. Calculated'
  <2> SUFFICES ASSUME phase' = "rollup" PROVE Calculated'
    BY <1>1 DEF Calculated
  <2>1. visited \cup {t} = Tasks
    BY <1>1
  <2>2. \A u \in Tasks : (FloatOK(u) /\ es[u] <= lf[u])'
    <3>1. ASSUME NEW u \in Tasks PROVE es[u] <= lf[u]
      BY <1>3 DEF TypeOK
    <3> QED BY <1>1, <1>6, <2>1, <3>1
  <2>3. ASSUME NEW d \in dependencies
        PROVE  (Kept(d, 0) /\ Kept(d, freeFloat[d.predecessor]))'
    <3>1. d.predecessor \in Tasks /\ d \in outgoing(d.predecessor)
      BY DependencyFields DEF outgoing
    <3>2. Kept(d, freeFloat'[d.predecessor]) /\ freeFloat'[d.predecessor] \in Int
      BY <1>4, <1>6, <2>1, <3>1
    <3> QED BY <3>2, <1>1, <1>2 DEF Kept
  <2>4. ASSUME NEW u \in critical', NEW p \in drivingPredecessorIds[u]
        PROVE  p \in critical'
    <3>1. u \in Tasks /\ ls[u] = es[u]
      BY <1>6, <2>1
    <3>2. PICK d \in incoming(u) : d.predecessor = p /\ es[u] = forwardCandidateEs(d)
      BY <1>2, <3>1 DEF Driven
    <3>3. /\ d \in dependencies /\ d.successor = u /\ p \in Tasks /\ d \in outgoing(p)
      BY <3>2, DependencyFields DEF incoming, outgoing
    <3>4. es[p] <= ls[p] /\ lf[p] <= backwardCandidateLf(d)
      BY <1>3, <3>3 DEF Late
    <3>5. ls[p] = es[p]
      BY <3>1, <3>2, <3>3, <3>4, <1>3, DriverIsTight
    <3> QED BY <3>3, <3>5, <1>6, <2>1
  <2>5. ASSUME OnlyFinishes PROVE critical' # {}
    <3>1. PICK u \in Tasks : ef[u] = projectDuration
      BY <1>2
    <3>2. lf[u] <= projectDuration
      BY <2>5, <1>1 DEF BackwardInv
    <3>3. /\ lf[u] = ls[u] + duration[u] /\ ef[u] = es[u] + duration[u] /\ es[u] <= ls[u]
          /\ lf[u] <= ef[u]
      BY <3>1, <3>2, <1>3
    <3>4. ls[u] = es[u]
      <4>1. ls[u] \in Int /\ es[u] \in Int /\ duration[u] \in Int
        BY DEF TypeOK
      <4> QED BY <3>3, <4>1
    <3> QED BY <3>4, <1>6, <2>1
  <2> QED BY <1>1, <2>2, <2>3, <2>4, <2>5 DEF Calculated, Summaries, children, OnlyFinishes
<1> QED BY <1>1, <1>7, <1>8, <1>9, <1>10, <1>11, <1>12 DEF Unsaved, ForwardInv, RolledUp

-----------------------------------------------------------------------------
(***************************************************************************)
(* The summaries.                                                          *)
(***************************************************************************)
LEMMA RollUpPreserves ==
  ASSUME IInv, NEW t \in Tasks, RollUp(t) PROVE IInv'
<1> USE DEF IInv, Passes
<1>1. /\ phase = "rollup" /\ phase' = "rollup"
      /\ t \in Summaries /\ t \notin visited /\ visited' = visited \cup {t}
      /\ children(t) \cap Summaries \subseteq visited
      /\ critical' = IF children(t) \cap critical # {} THEN critical \cup {t} ELSE critical \ {t}
      /\ drivingPredecessorIds' = [drivingPredecessorIds EXCEPT ![t] =
             UNION {drivingPredecessorIds[c] : c \in children(t)}]
      /\ UNCHANGED <<schedules, dependencies, parentTaskId, summaryTasks, projectDuration, runs, cut>>
  BY DEF RollUp, RollsUpNext, project, history
<1>2. PICK first \in children(t), last \in children(t), lateFirst \in children(t),
           lateLast \in children(t), tight \in children(t) :
        /\ \A c \in children(t) :
              /\ es[first] <= es[c] /\ ef[c] <= ef[last]
              /\ ls[lateFirst] <= ls[c] /\ lf[c] <= lf[lateLast]
              /\ freeFloat[tight] <= freeFloat[c]
        /\ es' = [es EXCEPT ![t] = es[first]]
        /\ ef' = [ef EXCEPT ![t] = ef[last]]
        /\ ls' = [ls EXCEPT ![t] = ls[lateFirst]]
        /\ lf' = [lf EXCEPT ![t] = lf[lateLast]]
        /\ duration' = [duration EXCEPT ![t] = lf[lateLast] - es[first]]
        /\ totalFloat' = [totalFloat EXCEPT ![t] = ls[lateFirst] - es[first]]
        /\ freeFloat' = [freeFloat EXCEPT ![t] = freeFloat[tight]]
  BY DEF RollUp
<1>3. children(t) \subseteq Tasks /\ t \notin children(t)
  BY <1>1 DEF children
<1>4. /\ es[first] \in Int /\ lf[first] \in Int /\ es[lateFirst] \in Int /\ ls[lateFirst] \in Int
      /\ ef[last] \in Int /\ lf[lateLast] \in Int
      /\ freeFloat[tight] \in Int /\ freeFloat[lateFirst] \in Int /\ totalFloat[lateFirst] \in Int
  BY <1>3 DEF TypeOK
<1>5. /\ FloatOK(lateFirst) /\ FloatOK(tight) /\ es[first] <= lf[first]
  BY <1>1, <1>3 DEF Calculated
<1>6. /\ es[first] <= lf[lateLast] /\ es[first] <= es[lateFirst] /\ lf[first] <= lf[lateLast]
      /\ freeFloat[tight] <= freeFloat[lateFirst]
  BY <1>2, <1>4, <1>5
<1>7. /\ es'[t] = es[first] /\ ef'[t] = ef[last] /\ ls'[t] = ls[lateFirst] /\ lf'[t] = lf[lateLast]
      /\ totalFloat'[t] = ls[lateFirst] - es[first] /\ freeFloat'[t] = freeFloat[tight]
      /\ \A u \in Tasks \ {t} :
           /\ es'[u] = es[u] /\ ef'[u] = ef[u] /\ ls'[u] = ls[u] /\ lf'[u] = lf[u]
           /\ totalFloat'[u] = totalFloat[u] /\ freeFloat'[u] = freeFloat[u]
           /\ drivingPredecessorIds'[u] = drivingPredecessorIds[u]
           /\ u \in critical' <=> u \in critical
  BY <1>1, <1>2 DEF TypeOK
<1>8. Summaries' = Summaries /\ \A u \in Tasks : children(u)' = children(u)
  BY <1>1 DEF Summaries, children
<1>9. TypeOK'
  <2>1. duration' \in [Tasks -> Nat]
    <3>1. lf[lateLast] - es[first] \in Nat
      BY <1>4, <1>6
    <3> QED BY <1>2, <3>1 DEF TypeOK
  <2>2. totalFloat' \in [Tasks -> Int]
    <3>1. ls[lateFirst] - es[first] \in Int
      BY <1>4
    <3> QED BY <1>2, <3>1 DEF TypeOK
  <2>3. /\ es' \in [Tasks -> Int] /\ ef' \in [Tasks -> Int] /\ ls' \in [Tasks -> Int]
        /\ lf' \in [Tasks -> Int] /\ freeFloat' \in [Tasks -> Int]
    BY <1>2, <1>4 DEF TypeOK
  <2>4. drivingPredecessorIds' \in [Tasks -> SUBSET Tasks]
    <3>1. UNION {drivingPredecessorIds[c] : c \in children(t)} \subseteq Tasks
      BY <1>3 DEF TypeOK
    <3> QED BY <1>1, <3>1 DEF TypeOK
  <2>5. critical' \subseteq Tasks /\ visited' \subseteq Tasks
    BY <1>1 DEF TypeOK
  <2> QED BY <1>1, <2>1, <2>2, <2>3, <2>4, <2>5 DEF TypeOK
<1>10. Calculated'
  <2>1. ASSUME NEW u \in Tasks PROVE (FloatOK(u) /\ es[u] <= lf[u])'
    <3>1. CASE u = t
      BY <3>1, <1>4, <1>5, <1>6, <1>7 DEF FloatOK
    <3>2. CASE u # t
      BY <3>2, <1>1, <1>7 DEF FloatOK, Calculated
    <3> QED BY <3>1, <3>2
  <2>2. ASSUME NEW d \in dependencies, d.predecessor \notin Summaries, d.successor \notin Summaries
        PROVE  (Kept(d, 0) /\ Kept(d, freeFloat[d.predecessor]))'
    <3>1. /\ d.predecessor \in Tasks \ {t} /\ d.successor \in Tasks \ {t}
      BY <2>2, <1>1, DependencyFields
    <3>2. Kept(d, 0) /\ Kept(d, freeFloat[d.predecessor])
      BY <2>2, <1>1 DEF Calculated
    <3> QED BY <3>1, <3>2, <1>7 DEF Kept
  <2>3. \A u \in critical' \ Summaries : drivingPredecessorIds'[u] \ Summaries \subseteq critical'
    BY <1>1, <1>7 DEF Calculated, TypeOK
  <2>4. Summaries # {}
    BY <1>1
  <2> QED BY <1>1, <1>8, <2>1, <2>2, <2>3, <2>4 DEF Calculated
<1>11. RolledUp'
  <2>1. ASSUME NEW u \in visited' PROVE children(u) \cap Summaries \subseteq visited' /\ Spans(u)'
    <3>1. CASE u = t
      <4>1. \A c \in children(t) : es'[c] = es[c] /\ ef'[c] = ef[c] /\ ls'[c] = ls[c] /\ lf'[c] = lf[c]
        BY <1>3, <1>7
      <4>2. t \in critical' <=> children(t) \cap critical' # {}
        BY <1>1, <1>3
      <4> QED BY <3>1, <4>1, <4>2, <1>1, <1>2, <1>7, <1>8 DEF Spans
    <3>2. CASE u # t
      <4>1. u \in visited /\ u \in Tasks /\ children(u) \cap Summaries \subseteq visited /\ Spans(u)
        BY <3>2, <1>1 DEF RolledUp, TypeOK
      <4>2. children(u) \subseteq Tasks \ {t}
        BY <4>1, <1>1 DEF children
      <4> QED BY <3>2, <4>1, <4>2, <1>1, <1>7, <1>8 DEF Spans
    <3> QED BY <3>1, <3>2
  <2> QED BY <1>1, <1>8, <2>1 DEF RolledUp, TypeOK
<1> QED BY <1>1, <1>9, <1>10, <1>11 DEF Unsaved, Lengths, ForwardInv, EarlyInv, BackwardInv, FloatInv

-----------------------------------------------------------------------------
(***************************************************************************)
(* Saving, and calculating again.                                          *)
(***************************************************************************)
LEMMA PlannedTypes ==
  ASSUME TypeOK, NEW t \in Tasks
  PROVE  PlannedStart(t) \in Int /\ PlannedEnd(t) \in Int
<1>1. /\ schedules[t] \in Schedule /\ duration[t] \in Int /\ es[t] \in Int /\ ef[t] \in Int
  BY DEF TypeOK
<1> QED BY <1>1, ScheduleAssumption DEF PlannedStart, PlannedEnd, Schedule, Offset

LEMMA PersistPreserves ==
  ASSUME IInv, Persist PROVE IInv'
<1> USE DEF IInv, Passes
<1>1. /\ phase = "rollup" /\ phase' = "saved" /\ visited = Summaries /\ visited' = {}
      /\ runs' = runs + 1
      /\ UNCHANGED <<dependencies, parentTaskId, summaryTasks, duration, es, ef,
                     drivingPredecessorIds, ls, lf, totalFloat, freeFloat, critical,
                     projectDuration>>
  BY DEF Persist, project, early, late, floats
<1>2. Summaries' = Summaries /\ \A t \in Tasks : children(t)' = children(t)
  BY <1>1 DEF Summaries, children
<1>3. TypeOK'
  <2>1. schedules' = [t \in Tasks |->
            [schedules[t] EXCEPT !.durationDays = duration[t],
                                 !.plannedStart = OnDate(PlannedStart(t)),
                                 !.plannedEnd = OnDate(PlannedEnd(t))]]
    BY DEF Persist
  <2>2. ASSUME NEW t \in Tasks PROVE schedules'[t] \in Schedule
    <3>1. schedules[t] \in Schedule /\ duration[t] \in Int
      BY DEF TypeOK
    <3>2. OnDate(PlannedStart(t)) \in Offset /\ OnDate(PlannedEnd(t)) \in Offset
      BY PlannedTypes, OnDateOnce DEF Offset
    <3>3. schedules'[t] = [schedules[t] EXCEPT !.durationDays = duration[t],
              !.plannedStart = OnDate(PlannedStart(t)), !.plannedEnd = OnDate(PlannedEnd(t))]
      BY <2>1
    <3> QED BY <3>1, <3>2, <3>3 DEF Schedule
  <2>3. schedules' \in [Tasks -> Schedule]
    BY <2>1, <2>2
  <2>4. runs' \in 0 .. MaxRuns
    <3>1. runs \in 0 .. MaxRuns /\ runs < MaxRuns /\ MaxRuns \in Nat
      BY <1>1, ScheduleAssumption DEF TypeOK, Unsaved
    <3> QED BY <1>1, <3>1
  <2>5. cut' \subseteq 1 .. runs'
    <3>1. cut \subseteq 1 .. runs /\ runs \in Nat
      BY ScheduleAssumption DEF TypeOK
    <3>2. cut' = cut \/ cut' = cut \cup {runs + 1}
      BY DEF Persist
    <3>3. 1 .. runs \subseteq 1 .. runs + 1 /\ runs + 1 \in 1 .. runs + 1
      BY <3>1
    <3> QED BY <1>1, <3>1, <3>2, <3>3
  <2> QED BY <1>1, <2>3, <2>4, <2>5 DEF TypeOK, Phases
<1>4. Calculated'
  <2>1. /\ \A t \in Tasks : FloatOK(t) /\ es[t] <= lf[t]
        /\ \A d \in dependencies :
             d.predecessor \notin Summaries /\ d.successor \notin Summaries =>
               Kept(d, 0) /\ Kept(d, freeFloat[d.predecessor])
        /\ \A t \in critical \ Summaries : drivingPredecessorIds[t] \ Summaries \subseteq critical
        /\ Summaries = {} /\ OnlyFinishes => critical # {}
    BY <1>1 DEF Calculated
  <2>2. /\ \A t \in Tasks : FloatOK(t)' <=> FloatOK(t)
        /\ \A d \in dependencies : /\ Kept(d, 0)' <=> Kept(d, 0)
                                   /\ Kept(d, freeFloat[d.predecessor])' <=>
                                      Kept(d, freeFloat[d.predecessor])
        /\ OnlyFinishes' <=> OnlyFinishes
    BY <1>1 DEF FloatOK, Kept, OnlyFinishes
  <2> QED BY <1>1, <1>2, <2>1, <2>2 DEF Calculated
<1>5. RolledUp'
  <2>1. \A t \in Summaries : Spans(t) /\ t \in Tasks
    BY <1>1 DEF RolledUp, TypeOK
  <2>2. \A t \in Tasks : Spans(t)' <=> Spans(t)
    BY <1>1, <1>2 DEF Spans
  <2> QED BY <1>1, <1>2, <2>1, <2>2 DEF RolledUp
<1> QED BY <1>1, <1>3, <1>4, <1>5 DEF Unsaved, Lengths, ForwardInv, EarlyInv, BackwardInv, FloatInv

LEMMA RecalculatePreserves ==
  ASSUME IInv, Recalculate PROVE IInv'
<1> USE DEF IInv, Passes
<1>1. /\ phase = "saved" /\ phase' = "forward" /\ runs < MaxRuns
      /\ UNCHANGED <<schedules, dependencies, parentTaskId, summaryTasks, visited, runs, cut>>
  BY DEF Recalculate, project
<1>2. visited = {}
  BY <1>1 DEF RolledUp
<1>3. /\ duration' = Durations(schedules) /\ es' = Starts(schedules) /\ ef' = Finishes(schedules)
      /\ drivingPredecessorIds' = NoTasks /\ critical' = {} /\ projectDuration' = 0
      /\ ls' = Zero /\ lf' = Zero /\ totalFloat' = Zero /\ freeFloat' = Zero
  BY DEF Recalculate
<1>4. schedules \in [Tasks -> Schedule]
  BY DEF TypeOK
<1>5. TypeOK'
  <2>1. duration' \in [Tasks -> Nat] /\ es' \in [Tasks -> Int] /\ ef' \in [Tasks -> Int]
    BY <1>3, <1>4, NodesTypes
  <2> QED BY <1>1, <1>3, <2>1 DEF TypeOK, Phases, Zero, NoTasks
<1>6. Lengths'
  BY <1>1, <1>3, <1>4, NodesTypes DEF Lengths
<1>7. ForwardInv' /\ FloatInv'
  BY <1>1, <1>2, <1>3 DEF ForwardInv, FloatInv
<1> QED BY <1>1, <1>5, <1>6, <1>7 DEF Unsaved, EarlyInv, BackwardInv, Calculated, RolledUp

-----------------------------------------------------------------------------
LEMMA StutterPreserves ==
  ASSUME IInv, UNCHANGED vars PROVE IInv'
<1>1. /\ UNCHANGED <<schedules, dependencies, parentTaskId, summaryTasks, phase, visited, duration>>
      /\ UNCHANGED <<es, ef, drivingPredecessorIds, ls, lf, totalFloat, freeFloat, critical>>
      /\ UNCHANGED <<projectDuration, runs, cut>>
  BY DEF vars, project, early, late, floats, history
<1>2. TypeOK' /\ Unsaved' /\ Lengths' /\ FloatInv'
  BY <1>1 DEF IInv, Passes, TypeOK, Unsaved, Lengths, FloatInv, FloatOK, Kept, outgoing
<1>3. ForwardInv' /\ EarlyInv'
  BY <1>1 DEF IInv, Passes, ForwardInv, EarlyInv, Driven, Kept, incoming, forwardCandidateEs
<1>4. BackwardInv'
  BY <1>1 DEF IInv, Passes, BackwardInv, Late, OnlyFinishes, outgoing, backwardCandidateLf
<1>5. Calculated'
  BY <1>1 DEF IInv, Calculated, FloatOK, Kept, Summaries, children, OnlyFinishes
<1>6. RolledUp'
  BY <1>1 DEF IInv, RolledUp, Spans, Summaries, children
<1> QED BY <1>2, <1>3, <1>4, <1>5, <1>6 DEF IInv, Passes

LEMMA StepPreserves == IInv /\ [Next]_vars => IInv'
<1> SUFFICES ASSUME IInv, [Next]_vars PROVE IInv'
  OBVIOUS
<1>1. CASE \E t \in Tasks : Forward(t) \/ Backward(t) \/ ComputeFloats(t) \/ RollUp(t)
  BY <1>1, ForwardPreserves, BackwardPreserves, ComputeFloatsPreserves, RollUpPreserves
<1>2. CASE FailOnCycle \/ TurnBack \/ Persist \/ Recalculate
  BY <1>2, FailPreserves, TurnBackPreserves, PersistPreserves, RecalculatePreserves
<1>3. CASE UNCHANGED vars
  BY <1>3, StutterPreserves
<1> QED BY <1>1, <1>2, <1>3 DEF Next

LEMMA Inductive == Spec => []IInv
BY InitHolds, StepPreserves, PTL DEF Spec

-----------------------------------------------------------------------------
(***************************************************************************)
(* Every variable of the calculation holds a value of its kind; no         *)
(* duration gets below 0, that of a summary included.                      *)
(***************************************************************************)
THEOREM TypeCorrect == Spec => []TypeOK
<1>1. IInv => TypeOK
  BY DEF IInv
<1> QED BY <1>1, Inductive, PTL

(***************************************************************************)
(* calculateAndPersist() places no task too early for a dependency.        *)
(***************************************************************************)
THEOREM DependenciesKeptAlways == Spec => []DependenciesKept
<1>1. IInv => DependenciesKept
  BY DEF IInv, TypeOK, Phases, Passes, ForwardInv, EarlyInv, Calculated, DependenciesKept, Placed
<1> QED BY <1>1, Inductive, PTL

(***************************************************************************)
(* computeFloats() and rollupSummaryRows() never find a task too late, nor *)
(* let one move further than its dependencies do.                          *)
(***************************************************************************)
THEOREM FloatsAreCoherentAlways == Spec => []FloatsAreCoherent
<1>1. IInv => FloatsAreCoherent
  BY DEF IInv, Calculated, FloatOK, FloatsAreCoherent
<1> QED BY <1>1, Inductive, PTL

(***************************************************************************)
(* What forwardPass() records as driving a critical task is critical in    *)
(* computeFloats().                                                        *)
(***************************************************************************)
THEOREM CriticalIsDrivenAlways == Spec => []CriticalIsDriven
<1>1. IInv => CriticalIsDriven
  BY DEF IInv, Calculated, CriticalIsDriven
<1> QED BY <1>1, Inductive, PTL

(***************************************************************************)
(* A project without summaries, leads and dependencies on a start has a    *)
(* critical path.                                                          *)
(***************************************************************************)
THEOREM CriticalPathOfFinishesAlways == Spec => []CriticalPathOfFinishes
<1>1. IInv => CriticalPathOfFinishes
  BY DEF IInv, Calculated, CriticalPathOfFinishes, OnlyFinishes
<1> QED BY <1>1, Inductive, PTL

(***************************************************************************)
(* The critical path of computeFloats() hangs together, and there is one.  *)
(***************************************************************************)
THEOREM CriticalPathHoldsAlways == Spec => []CriticalPathHolds
<1>1. CriticalIsDriven /\ CriticalPathOfFinishes => CriticalPathHolds
  BY DEF CriticalPathHolds
<1> QED BY <1>1, CriticalIsDrivenAlways, CriticalPathOfFinishesAlways, PTL

(***************************************************************************)
(* rollupSummaryRows() makes every summary span its children, however deep *)
(* summaries are nested.                                                   *)
(***************************************************************************)
THEOREM SummarySpansChildrenAlways == Spec => []SummarySpansChildren
<1>1. IInv => SummarySpansChildren
  BY DEF IInv, RolledUp, Spans, SummarySpansChildren
<1> QED BY <1>1, Inductive, PTL
-----------------------------------------------------------------------------
(***************************************************************************)
(* Calculating again.  What is saved as a date is a whole number of days:  *)
(* after the first calculation every row scheduled by hand has such dates, *)
(* and saving them again cuts nothing.  After a calculation that cut       *)
(* nothing the rows ask for the dates it found.  The early dates of each   *)
(* task are settled by the starts of the rows and by the tasks visited     *)
(* before it, those of a summary by its children; the late dates, without  *)
(* summaries, by the end of the project and by the tasks visited before.   *)
(* So the next calculation can only find them again: what it has visited   *)
(* agrees with them.                                                       *)
(***************************************************************************)
OnDates(row) ==
    /\ row.plannedStart \in Int /\ OnDate(row.plannedStart) = row.plannedStart
    /\ row.plannedEnd \in Int /\ OnDate(row.plannedEnd) = row.plannedEnd

CutOnce ==
    /\ cut \subseteq {1}
    /\ runs > 0 => \A t \in Tasks : schedules[t].isManuallyScheduled => OnDates(schedules[t])

Leaves == Tasks \ Summaries

EarlyCandidate(E, d) ==
    CASE d.type = "SS" -> E[d.predecessor] + d.lagDays
      [] d.type = "FF" ->
            E[d.predecessor] + duration[d.predecessor] + d.lagDays - duration[d.successor]
      [] d.type = "SF" -> E[d.predecessor] + d.lagDays - duration[d.successor]
      [] OTHER -> E[d.predecessor] + duration[d.predecessor] + d.lagDays

SettledEarly(E, t) ==
    /\ pinnedStart(schedules[t]) <= E[t]
    /\ \A d \in incoming(t) : EarlyCandidate(E, d) <= E[t]
    /\ \/ E[t] = pinnedStart(schedules[t])
       \/ \E d \in incoming(t) : E[t] = EarlyCandidate(E, d)

PassesDone == {"backward", "floats", "rollup", "saved"}

\* What is saved is what was found.
Uncut == phase = "saved" => runs \notin cut

\* The early dates of the calculation that is going on.
SettlesEarly ==
    /\ Uncut => \A t \in Leaves : duration[t] = nodeDuration(schedules[t])
    /\ phase = "forward" =>
         \A t \in Leaves : IF t \in visited THEN SettledEarly(es, t)
                           ELSE es[t] = pinnedStart(schedules[t])
    /\ phase \in PassesDone => \A t \in Leaves : ef[t] = es[t] + duration[t]
    /\ phase \in PassesDone /\ Uncut => \A t \in Leaves : SettledEarly(es, t)

\* And of the one before.
SpansEarly(E, F, t) ==
    /\ \A c \in children(t) : E[t] <= E[c] /\ F[c] <= F[t]
    /\ \E c \in children(t) : E[c] = E[t]
    /\ \E c \in children(t) : F[c] = F[t]

WasEarly(E, F) ==
    /\ E \in [Tasks -> Int] /\ F \in [Tasks -> Int]
    /\ \A t \in Leaves : F[t] = E[t] + duration[t] /\ SettledEarly(E, t)
    /\ \A t \in Summaries : SpansEarly(E, F, t)

AgreesEarly(E, F) ==
    /\ phase = "forward" => \A t \in Leaves \cap visited : es[t] = E[t]
    /\ phase \in PassesDone => \A t \in Leaves : es[t] = E[t]
    /\ phase = "rollup" => \A t \in visited : es[t] = E[t] /\ ef[t] = F[t]

SameEarly ==
    IF phase = "saved" THEN runs > 1 /\ runs - 1 \notin cut => earlier[1] = es /\ earlier[2] = ef
    ELSE runs > 0 /\ phase # "failed" /\ runs \notin cut =>
           \E E \in {earlier[1]}, F \in {earlier[2]} : WasEarly(E, F) /\ AgreesEarly(E, F)

\* The late dates, where every task is a leaf.
LateCandidate(L, d) ==
    CASE d.type = "SS" -> L[d.successor] - d.lagDays + duration[d.predecessor]
      [] d.type = "FF" -> L[d.successor] + duration[d.successor] - d.lagDays
      [] d.type = "SF" ->
            L[d.successor] + duration[d.successor] - d.lagDays + duration[d.predecessor]
      [] OTHER -> L[d.successor] - d.lagDays

EndsAt(E, n) ==
    /\ \A t \in Tasks : E[t] + duration[t] <= n
    /\ \E t \in Tasks : E[t] + duration[t] = n

SettledLate(L, n, t) ==
    \/ outgoing(t) = {} /\ L[t] + duration[t] = n
    \/ /\ \A d \in outgoing(t) : L[t] + duration[t] <= LateCandidate(L, d)
       /\ \E d \in outgoing(t) : L[t] + duration[t] = LateCandidate(L, d)

AllDates(E, L) == <<E, [t \in Tasks |-> E[t] + duration[t]],
                    L, [t \in Tasks |-> L[t] + duration[t]]>>

SettlesLate ==
    phase \in PassesDone =>
      /\ EndsAt(es, projectDuration)
      /\ \A t \in Tasks : lf[t] = ls[t] + duration[t]
      /\ \A t \in Tasks :
            (phase = "backward" => t \in visited) => SettledLate(ls, projectDuration, t)

WasLate(E, L, n) ==
    /\ E \in [Tasks -> Int] /\ L \in [Tasks -> Int] /\ n \in Int
    /\ EndsAt(E, n)
    /\ \A t \in Tasks : SettledLate(L, n, t)

AgreesLate(L, n) ==
    /\ phase \in PassesDone => projectDuration = n
    /\ phase = "backward" => \A t \in visited : ls[t] = L[t]
    /\ phase \in {"floats", "rollup"} => \A t \in Tasks : ls[t] = L[t]

SameLate ==
    IF phase = "saved" THEN runs > 1 /\ runs - 1 \notin cut => earlier = Dates
    ELSE runs > 0 /\ phase # "failed" /\ runs \notin cut =>
           \E E \in {earlier[1]}, L \in {earlier[3]}, n \in {earlier[2][t] : t \in Tasks} :
              earlier = AllDates(E, L) /\ WasLate(E, L, n) /\ AgreesLate(L, n)

RerunInv ==
    /\ CutOnce
    /\ SummariesStandAlone => SettlesEarly /\ SameEarly
    /\ Summaries = {} => SettlesLate /\ SameLate

-----------------------------------------------------------------------------
\* Saving cuts only what was not yet saved once.
LEMMA PersistCuts ==
  ASSUME IInv, CutOnce, Persist
  PROVE  /\ CutOnce'
         /\ \A t \in Tasks : schedules'[t] =
               [schedules[t] EXCEPT !.durationDays = duration[t],
                                    !.plannedStart = OnDate(PlannedStart(t)),
                                    !.plannedEnd = OnDate(PlannedEnd(t))]
         /\ runs \in Nat /\ cut \subseteq cut' /\ (runs' \notin cut' <=> ~CutsADate)
<1>1. TypeOK /\ runs \in Nat /\ cut \subseteq 1 .. runs
  BY ScheduleAssumption DEF IInv, TypeOK
<1>2. \A t \in Tasks : schedules'[t] =
        [schedules[t] EXCEPT !.durationDays = duration[t],
                             !.plannedStart = OnDate(PlannedStart(t)),
                             !.plannedEnd = OnDate(PlannedEnd(t))]
  BY DEF Persist
<1>3. runs' = runs + 1 /\ cut' = IF CutsADate THEN cut \cup {runs + 1} ELSE cut
  BY DEF Persist
<1>4. ASSUME NEW t \in Tasks PROVE OnDates(schedules'[t])
  <2>1. /\ OnDate(PlannedStart(t)) \in Int /\ OnDate(PlannedEnd(t)) \in Int
        /\ OnDate(OnDate(PlannedStart(t))) = OnDate(PlannedStart(t))
        /\ OnDate(OnDate(PlannedEnd(t))) = OnDate(PlannedEnd(t))
    BY <1>1, PlannedTypes, OnDateOnce
  <2>2. schedules[t] \in Schedule
    BY <1>1 DEF TypeOK
  <2>3. /\ schedules'[t].plannedStart = OnDate(PlannedStart(t))
        /\ schedules'[t].plannedEnd = OnDate(PlannedEnd(t))
    BY <1>2, <2>2 DEF Schedule
  <2> QED BY <2>1, <2>3 DEF OnDates
<1>5. runs > 0 => ~CutsADate
  <2> SUFFICES ASSUME runs > 0, NEW t \in Tasks, schedules[t].isManuallyScheduled
               PROVE  OnDate(PlannedStart(t)) = PlannedStart(t) /\ OnDate(PlannedEnd(t)) = PlannedEnd(t)
    BY DEF CutsADate
  <2>1. OnDates(schedules[t])
    BY DEF CutOnce
  <2>2. PlannedStart(t) = schedules[t].plannedStart /\ PlannedEnd(t) = schedules[t].plannedEnd
    BY <2>1, ScheduleAssumption DEF OnDates, PlannedStart, PlannedEnd
  <2> QED BY <2>1, <2>2 DEF OnDates
<1>6. runs + 1 \notin cut
  BY <1>1
<1>7. cut' \subseteq {1}
  <2>1. CASE CutsADate
    BY <1>1, <1>3, <1>5, <2>1 DEF CutOnce
  <2>2. CASE ~CutsADate
    BY <1>3, <2>2 DEF CutOnce
  <2> QED BY <2>1, <2>2
<1> QED BY <1>1, <1>2, <1>3, <1>4, <1>6, <1>7 DEF CutOnce

LEMMA CutStays ==
  ASSUME CutOnce, UNCHANGED <<schedules, runs, cut>> PROVE CutOnce'
BY DEF CutOnce

-----------------------------------------------------------------------------
(***************************************************************************)
(* The early dates.                                                        *)
(***************************************************************************)
LEMMA CandidatesAreInts ==
  ASSUME TypeOK, NEW d \in dependencies, NEW E \in [Tasks -> Int]
  PROVE  /\ EarlyCandidate(E, d) \in Int /\ LateCandidate(E, d) \in Int
         /\ \A t \in Tasks : E[t] + duration[t] \in Int
<1>1. /\ d.predecessor \in Tasks /\ d.successor \in Tasks /\ d.lagDays \in Int
  BY DependencyFields
<1>2. /\ E[d.predecessor] \in Int /\ E[d.successor] \in Int
      /\ duration[d.predecessor] \in Int /\ duration[d.successor] \in Int
  BY <1>1 DEF TypeOK
<1>3. \A t \in Tasks : duration[t] \in Int
  BY DEF TypeOK
<1> QED BY <1>1, <1>2, <1>3 DEF EarlyCandidate, LateCandidate

LEMMA CandidatesAreThose ==
  ASSUME TypeOK, NEW d \in dependencies
  PROVE  /\ ef[d.predecessor] = es[d.predecessor] + duration[d.predecessor] =>
              forwardCandidateEs(d) = EarlyCandidate(es, d)
         /\ lf[d.successor] = ls[d.successor] + duration[d.successor] =>
              backwardCandidateLf(d) = LateCandidate(ls, d)
<1>1. /\ d.predecessor \in Tasks /\ d.successor \in Tasks /\ d.lagDays \in Int
  BY DependencyFields
<1>2. /\ es[d.predecessor] \in Int /\ ls[d.successor] \in Int
      /\ duration[d.predecessor] \in Int /\ duration[d.successor] \in Int
  BY <1>1 DEF TypeOK
<1> QED BY <1>1, <1>2 DEF EarlyCandidate, LateCandidate, forwardCandidateEs, backwardCandidateLf

\* Where summaries stand alone, a dependency of a leaf is on a leaf.
LEMMA LeavesAlone ==
  ASSUME TypeOK, SummariesStandAlone, NEW t \in Leaves, NEW d \in incoming(t)
  PROVE  d \in dependencies /\ d.predecessor \in Leaves /\ d.successor \in Leaves
BY DependencyFields DEF SummariesStandAlone, Leaves, incoming

\* The rows, and who depends on whom, are those before the step.
RowsStay == UNCHANGED <<schedules, dependencies, parentTaskId, summaryTasks>>

LEMMA TreeStays ==
  ASSUME UNCHANGED <<parentTaskId, summaryTasks>>
  PROVE  /\ Summaries' = Summaries /\ Leaves' = Leaves
         /\ \A t \in Tasks : children(t)' = children(t)
BY DEF Summaries, children, Leaves

\* Early dates that have settled stay so while the rows do, and the lengths of leaves.
LEMMA EarlyStays ==
  ASSUME TypeOK, SummariesStandAlone, RowsStay, \A u \in Leaves : duration'[u] = duration[u],
         NEW E, NEW t \in Leaves
  PROVE  SettledEarly(E, t)' <=> SettledEarly(E, t)
<1>1. incoming(t)' = incoming(t) /\ schedules' = schedules
  BY DEF RowsStay, incoming
<1>2. ASSUME NEW d \in incoming(t) PROVE EarlyCandidate(E, d)' = EarlyCandidate(E, d)
  BY LeavesAlone DEF EarlyCandidate
<1> QED BY <1>1, <1>2 DEF SettledEarly

LEMMA CurrentEarlyStays ==
  ASSUME TypeOK, SummariesStandAlone, RowsStay, \A u \in Leaves : duration'[u] = duration[u],
         \A u \in Leaves : es'[u] = es[u], NEW t \in Leaves
  PROVE  SettledEarly(es, t)' <=> SettledEarly(es, t)
<1>1. incoming(t)' = incoming(t) /\ schedules' = schedules
  BY DEF RowsStay, incoming
<1>2. ASSUME NEW d \in incoming(t) PROVE EarlyCandidate(es, d)' = EarlyCandidate(es, d)
  BY LeavesAlone DEF EarlyCandidate
<1> QED BY <1>1, <1>2 DEF SettledEarly

LEMMA WasEarlyStays ==
  ASSUME TypeOK, SummariesStandAlone, RowsStay, \A u \in Leaves : duration'[u] = duration[u],
         NEW E, NEW F, WasEarly(E, F)
  PROVE  WasEarly(E, F)'
<1>1. Summaries' = Summaries /\ Leaves' = Leaves /\ \A t \in Tasks : children(t)' = children(t)
  BY TreeStays DEF RowsStay
<1>2. \A t \in Leaves : SettledEarly(E, t)'
  BY EarlyStays DEF WasEarly
<1>3. \A t \in Summaries : t \in Tasks /\ SpansEarly(E, F, t)'
  BY <1>1 DEF WasEarly, SpansEarly, TypeOK, Summaries
<1> QED BY <1>1, <1>2, <1>3 DEF WasEarly

\* What the passes have done so far goes on to hold through a step that leaves
\* the early dates, whichever pass it ends.
PassGoesOn ==
    \/ UNCHANGED <<phase, visited>>
    \/ phase = "forward" /\ visited = Tasks /\ phase' = "backward"
    \/ phase \in {"backward", "floats"} /\ phase' \in {"backward", "floats"}
    \/ phase = "floats" /\ phase' = "rollup" /\ visited' = {}
    \/ phase' = "failed" /\ phase # "saved"

LEMMA QuietEarly ==
  ASSUME IInv, SummariesStandAlone, SettlesEarly, SameEarly, RowsStay,
         UNCHANGED <<duration, es, ef, runs, earlier, cut>>, PassGoesOn
  PROVE  SettlesEarly' /\ SameEarly'
<1>1. TypeOK /\ (phase = "forward" => \A t \in Tasks : ef[t] = es[t] + duration[t])
  BY DEF IInv, Passes, Lengths
<1>2. Leaves' = Leaves /\ Leaves \subseteq Tasks /\ schedules' = schedules
  BY TreeStays DEF RowsStay, Leaves
<1>3. \A t \in Leaves : SettledEarly(es, t)' <=> SettledEarly(es, t)
  BY <1>1, CurrentEarlyStays
<1>4. Uncut' <=> Uncut
  BY DEF PassGoesOn, Uncut
<1>5. SettlesEarly'
  <2>1. Uncut' => \A t \in Leaves' : duration'[t] = nodeDuration(schedules'[t])
    BY <1>2, <1>4 DEF SettlesEarly
  <2>2. phase' = "forward" => phase = "forward" /\ visited' = visited
    BY DEF PassGoesOn
  <2>3. phase' = "forward" => \A t \in Leaves' : IF t \in visited' THEN SettledEarly(es, t)'
                                                 ELSE es'[t] = pinnedStart(schedules'[t])
    BY <1>2, <1>3, <2>2 DEF SettlesEarly
  <2>4. phase' \in PassesDone => phase \in PassesDone \/ (phase = "forward" /\ visited = Tasks)
    BY DEF PassGoesOn, PassesDone
  <2>5. phase' \in PassesDone => \A t \in Leaves' : ef'[t] = es'[t] + duration'[t]
    BY <1>1, <1>2, <2>4 DEF SettlesEarly
  <2>6. phase' \in PassesDone /\ Uncut' => \A t \in Leaves' : SettledEarly(es, t)'
    BY <1>2, <1>3, <1>4, <2>4 DEF SettlesEarly
  <2> QED BY <2>1, <2>3, <2>5, <2>6 DEF SettlesEarly
<1>6. CASE phase' = "saved" \/ phase' = "failed"
  BY <1>5, <1>6 DEF PassGoesOn, SameEarly
<1>7. CASE phase' # "saved" /\ phase' # "failed"
  <2> SUFFICES ASSUME runs > 0, runs \notin cut PROVE SameEarly'
    BY <1>5, <1>7 DEF SameEarly
  <2>1. phase # "saved" /\ phase # "failed"
    BY <1>7 DEF PassGoesOn
  <2>2. PICK E \in {earlier[1]}, F \in {earlier[2]} : WasEarly(E, F) /\ AgreesEarly(E, F)
    BY <2>1 DEF SameEarly
  <2>3. WasEarly(E, F)'
    BY <1>1, <2>2, WasEarlyStays
  <2>4. AgreesEarly(E, F)'
    BY <1>2, <2>2 DEF AgreesEarly, PassGoesOn, PassesDone
  <2> QED BY <1>7, <2>2, <2>3, <2>4 DEF SameEarly
<1> QED BY <1>5, <1>6, <1>7

LEMMA ForwardEarly ==
  ASSUME IInv, SummariesStandAlone, SettlesEarly, SameEarly, NEW t \in Tasks, Forward(t)
  PROVE  SettlesEarly' /\ SameEarly'
<1>1. PICK best \in EarlyStarts(t) :
        /\ \A start \in EarlyStarts(t) : start <= best
        /\ es' = [es EXCEPT ![t] = best]
  BY DEF Forward
<1>2. /\ phase = "forward" /\ phase' = "forward" /\ t \notin visited /\ visited' = visited \cup {t}
      /\ RowsStay /\ UNCHANGED <<duration, runs, earlier, cut>>
      /\ \A d \in incoming(t) : d.predecessor \in visited
  BY DEF Forward, Ready, project, late, floats, history, RowsStay
<1>3. TypeOK /\ \A u \in Tasks : ef[u] = es[u] + duration[u]
  BY <1>2 DEF IInv, Passes, Lengths
<1>4. Leaves' = Leaves /\ Leaves \subseteq Tasks /\ schedules' = schedules
  BY <1>2, TreeStays DEF RowsStay, Leaves
<1>5. es'[t] = best /\ \A u \in Tasks : u # t => es'[u] = es[u]
  BY <1>1, <1>3 DEF TypeOK
\* The candidates of a leaf are settled by leaves visited before it.
<1>6. ASSUME NEW u \in Leaves, NEW d \in incoming(u), u \in visited \cup {t}
      PROVE  /\ d \in dependencies /\ d.predecessor \in Leaves \cap visited
             /\ EarlyCandidate(es, d)' = EarlyCandidate(es, d)
  <2>1. d \in dependencies /\ d.predecessor \in Leaves /\ d.successor \in Leaves
    BY <1>3, LeavesAlone
  <2>2. d.predecessor \in visited
    BY <1>2, <1>6, <2>1 DEF incoming, IInv, Passes, ForwardInv
  <2>3. es'[d.predecessor] = es[d.predecessor]
    BY <1>2, <1>4, <1>5, <2>1, <2>2
  <2> QED BY <1>2, <2>1, <2>2, <2>3 DEF EarlyCandidate
<1>7. \A u \in Leaves : incoming(u)' = incoming(u)
  BY <1>2 DEF RowsStay, incoming
<1>8. ASSUME t \in Leaves
      PROVE  /\ best \in Int
             /\ pinnedStart(schedules[t]) <= best
             /\ \A d \in incoming(t) : EarlyCandidate(es, d) <= best
             /\ best = pinnedStart(schedules[t]) \/ \E d \in incoming(t) : best = EarlyCandidate(es, d)
  <2>1. es[t] = pinnedStart(schedules[t])
    BY <1>2, <1>8 DEF SettlesEarly
  <2>2. \A d \in incoming(t) :
          forwardCandidateEs(d) = EarlyCandidate(es, d) /\ EarlyCandidate(es, d) \in Int
    <3>1. \A d \in incoming(t) : d \in dependencies /\ d.predecessor \in Tasks
      BY <1>3, DependencyFields DEF incoming
    <3>2. es \in [Tasks -> Int]
      BY <1>3 DEF TypeOK
    <3> QED BY <1>3, <3>1, <3>2, CandidatesAreThose, CandidatesAreInts
  <2>3. es[t] \in Int
    BY <1>3 DEF TypeOK
  <2> QED BY <1>1, <2>1, <2>2, <2>3 DEF EarlyStarts
<1>9. ASSUME NEW u \in Leaves, u \in visited \cup {t} PROVE SettledEarly(es, u)'
  <2>1. CASE u = t
    BY <1>4, <1>5, <1>6, <1>7, <1>8, <1>9, <2>1 DEF SettledEarly
  <2>2. CASE u # t
    <3>1. SettledEarly(es, u)
      BY <1>2, <1>9, <2>2 DEF SettlesEarly
    <3> QED BY <1>4, <1>5, <1>6, <1>7, <1>9, <2>2, <3>1 DEF SettledEarly
  <2> QED BY <2>1, <2>2
<1>10. SettlesEarly'
  <2>1. \A u \in Leaves : u \notin visited' => es'[u] = pinnedStart(schedules[u])
    BY <1>2, <1>4, <1>5 DEF SettlesEarly
  <2>2. \A u \in Leaves : duration'[u] = nodeDuration(schedules'[u])
    BY <1>2, <1>4 DEF SettlesEarly, Uncut
  <2> QED BY <1>2, <1>4, <1>9, <2>1, <2>2 DEF SettlesEarly, PassesDone
<1>11. ASSUME runs > 0, runs \notin cut PROVE SameEarly'
  <2>1. PICK E \in {earlier[1]}, F \in {earlier[2]} : WasEarly(E, F) /\ AgreesEarly(E, F)
    BY <1>2, <1>11 DEF SameEarly
  <2>2. \A u \in Leaves \cap visited : es[u] = E[u]
    BY <1>2, <2>1 DEF AgreesEarly
  <2>3. ASSUME t \in Leaves PROVE E[t] = best
    <3>1. \A d \in incoming(t) : EarlyCandidate(E, d) = EarlyCandidate(es, d)
      BY <1>6, <2>2, <2>3 DEF EarlyCandidate
    <3>2. /\ pinnedStart(schedules[t]) <= E[t] /\ \A d \in incoming(t) : EarlyCandidate(es, d) <= E[t]
          /\ E[t] = pinnedStart(schedules[t]) \/ \E d \in incoming(t) : E[t] = EarlyCandidate(es, d)
      BY <2>1, <2>3, <3>1 DEF WasEarly, SettledEarly
    <3>3. E[t] \in Int
      BY <2>1 DEF WasEarly
    <3> QED BY <1>8, <2>3, <3>2, <3>3
  <2>4. AgreesEarly(E, F)'
    BY <1>2, <1>4, <1>5, <2>2, <2>3 DEF AgreesEarly, PassesDone
  <2>5. WasEarly(E, F)'
    BY <1>2, <1>3, <2>1, WasEarlyStays
  <2> QED BY <1>2, <2>1, <2>4, <2>5 DEF SameEarly
<1> QED BY <1>2, <1>10, <1>11 DEF SameEarly

\* The dates of a summary are found again with those of its children.
LEMMA RollUpEarly ==
  ASSUME IInv, SummariesStandAlone, SettlesEarly, SameEarly, NEW t \in Tasks, RollUp(t)
  PROVE  SettlesEarly' /\ SameEarly'
<1>1. /\ phase = "rollup" /\ phase' = "rollup" /\ visited' = visited \cup {t}
      /\ t \in Summaries /\ children(t) \cap Summaries \subseteq visited
      /\ RowsStay /\ UNCHANGED <<runs, earlier, cut>>
  BY DEF RollUp, RollsUpNext, project, history, RowsStay
<1>2. PICK first \in children(t), last \in children(t) :
        /\ \A c \in children(t) : es[first] <= es[c] /\ ef[c] <= ef[last]
        /\ es'[t] = es[first] /\ ef'[t] = ef[last]
        /\ \A u \in Tasks \ {t} : /\ es'[u] = es[u] /\ ef'[u] = ef[u]
                                  /\ duration'[u] = duration[u]
  <2>1. TypeOK
    BY DEF IInv
  <2> QED BY <2>1 DEF RollUp, TypeOK
<1>3. TypeOK /\ children(t) \subseteq Tasks
  BY DEF IInv, children
<1>4. Leaves' = Leaves /\ Leaves \subseteq Tasks \ {t} /\ schedules' = schedules
  BY <1>1, TreeStays DEF RowsStay, Leaves
<1>5. \A u \in Leaves : duration'[u] = duration[u] /\ es'[u] = es[u] /\ ef'[u] = ef[u]
  BY <1>2, <1>4
<1>6. \A u \in Leaves : SettledEarly(es, u)' <=> SettledEarly(es, u)
  BY <1>1, <1>3, <1>5, CurrentEarlyStays
<1>7. SettlesEarly'
  BY <1>1, <1>4, <1>5, <1>6 DEF SettlesEarly, PassesDone, Uncut
<1>8. ASSUME runs > 0, runs \notin cut PROVE SameEarly'
  <2>1. PICK E \in {earlier[1]}, F \in {earlier[2]} : WasEarly(E, F) /\ AgreesEarly(E, F)
    BY <1>1, <1>8 DEF SameEarly
  <2>2. \A c \in children(t) : es[c] = E[c] /\ ef[c] = F[c]
    <3> SUFFICES ASSUME NEW c \in children(t) PROVE es[c] = E[c] /\ ef[c] = F[c]
      OBVIOUS
    <3>1. CASE c \in Summaries
      BY <1>1, <2>1, <3>1 DEF AgreesEarly
    <3>2. CASE c \in Leaves
      BY <1>1, <2>1, <3>2 DEF AgreesEarly, WasEarly, SettlesEarly, PassesDone
    <3> QED BY <1>3, <3>1, <3>2 DEF Leaves
  <2>3. \A c \in children(t) : E[c] \in Int /\ F[c] \in Int
    BY <1>3, <2>1 DEF WasEarly
  <2>4. SpansEarly(E, F, t)
    BY <1>1, <2>1 DEF WasEarly
  <2>5. es'[t] = E[t] /\ ef'[t] = F[t]
    BY <1>2, <2>2, <2>3, <2>4 DEF SpansEarly
  <2>6. AgreesEarly(E, F)'
    <3>1. \A u \in visited : u # t => es'[u] = E[u] /\ ef'[u] = F[u]
      BY <1>1, <1>2, <1>3, <2>1 DEF AgreesEarly, TypeOK
    <3>2. \A u \in Leaves : es'[u] = E[u]
      BY <1>1, <1>5, <2>1 DEF AgreesEarly, PassesDone
    <3> QED BY <1>1, <1>4, <2>5, <3>1, <3>2 DEF AgreesEarly
  <2>7. WasEarly(E, F)'
    BY <1>1, <1>3, <1>5, <2>1, WasEarlyStays
  <2> QED BY <1>1, <2>1, <2>6, <2>7 DEF SameEarly
<1> QED BY <1>1, <1>7, <1>8 DEF SameEarly

\* What is saved uncut is what the next calculation starts from: a start given
\* by hand is the same, and a start that was not given is the calculated one.
LEMMA RowsAreKept ==
  ASSUME TypeOK, NEW t \in Tasks, NEW row, ~CutsADate,
         duration[t] = nodeDuration(schedules[t]), ef[t] = es[t] + duration[t],
         row = [schedules[t] EXCEPT !.durationDays = duration[t],
                                    !.plannedStart = OnDate(PlannedStart(t)),
                                    !.plannedEnd = OnDate(PlannedEnd(t))]
  PROVE  /\ nodeDuration(row) = duration[t]
         /\ pinnedStart(row) \in {pinnedStart(schedules[t]), es[t]}
<1> DEFINE s == schedules[t]
<1>1. /\ s \in Schedule /\ duration[t] \in Nat /\ es[t] \in Int /\ ef[t] \in Int
  BY DEF TypeOK
<1>2. /\ row.durationDays = duration[t] /\ row.isManuallyScheduled = s.isManuallyScheduled
      /\ row.plannedStart = OnDate(PlannedStart(t)) /\ row.plannedEnd = OnDate(PlannedEnd(t))
      /\ row.earliestStart = s.earliestStart
  BY <1>1 DEF Schedule
<1>3. /\ s.durationDays \in Int /\ s.isManuallyScheduled \in BOOLEAN
      /\ s.plannedStart \in Int \cup {NoOffset} /\ s.plannedEnd \in Int \cup {NoOffset}
      /\ s.earliestStart \in Int \cup {NoOffset}
  BY <1>1 DEF Schedule, Offset
<1>4. duration[t] = IF s.isManuallyScheduled /\ s.plannedStart # NoOffset /\ s.plannedEnd # NoOffset
                    THEN Max0(s.plannedEnd - s.plannedStart) ELSE Max0(s.durationDays)
  BY DEF nodeDuration, PinnedBothEnds
<1>5. s.isManuallyScheduled =>
        row.plannedStart = PlannedStart(t) /\ row.plannedEnd = PlannedEnd(t)
  BY <1>2 DEF CutsADate
<1> HIDE DEF s
<1>6. CASE ~s.isManuallyScheduled
  BY <1>1, <1>2, <1>3, <1>6, ScheduleAssumption DEF nodeDuration, PinnedBothEnds, Max0, pinnedStart, s
<1>7. CASE s.isManuallyScheduled /\ s.plannedStart # NoOffset /\ s.plannedEnd # NoOffset
  <2>1. row.plannedStart = s.plannedStart /\ row.plannedEnd = s.plannedEnd
    BY <1>5, <1>7 DEF PlannedStart, PlannedEnd, s
  <2> QED BY <1>1, <1>2, <1>3, <1>4, <1>7, <2>1 DEF nodeDuration, PinnedBothEnds, pinnedStart, s
<1>8. CASE s.isManuallyScheduled /\ s.plannedStart # NoOffset /\ s.plannedEnd = NoOffset
  <2>1. row.plannedStart = s.plannedStart /\ row.plannedEnd = s.plannedStart + duration[t]
    BY <1>5, <1>8 DEF PlannedStart, PlannedEnd, s
  <2> QED BY <1>1, <1>2, <1>3, <1>8, <2>1, ScheduleAssumption DEF nodeDuration, PinnedBothEnds, pinnedStart, Max0, s
<1>9. CASE s.isManuallyScheduled /\ s.plannedStart = NoOffset /\ s.plannedEnd # NoOffset
  <2>1. row.plannedStart = s.plannedEnd - duration[t] /\ row.plannedEnd = s.plannedEnd
    BY <1>5, <1>9 DEF PlannedStart, PlannedEnd, s
  <2>2. pinnedStart(s) = s.plannedEnd - duration[t]
    BY <1>9 DEF pinnedStart, s
  <2> QED BY <1>1, <1>2, <1>3, <1>9, <2>1, <2>2, ScheduleAssumption DEF nodeDuration, PinnedBothEnds, pinnedStart, Max0, s
<1>10. CASE s.isManuallyScheduled /\ s.plannedStart = NoOffset /\ s.plannedEnd = NoOffset
  <2>1. row.plannedStart = es[t] /\ row.plannedEnd = ef[t]
    BY <1>5, <1>10 DEF PlannedStart, PlannedEnd, s
  <2> QED BY <1>1, <1>2, <1>3, <1>10, <2>1, ScheduleAssumption DEF nodeDuration, PinnedBothEnds, pinnedStart, Max0, s
<1> QED BY <1>3, <1>6, <1>7, <1>8, <1>9, <1>10

LEMMA PersistEarly ==
  ASSUME IInv, CutOnce, SummariesStandAlone, SettlesEarly, SameEarly, Persist
  PROVE  SettlesEarly' /\ SameEarly'
<1>1. /\ phase = "rollup" /\ phase' = "saved" /\ visited = Summaries /\ runs' = runs + 1
      /\ UNCHANGED <<dependencies, parentTaskId, summaryTasks, duration, es, ef, earlier>>
  BY DEF Persist, project, early, late, floats
<1>2. TypeOK /\ runs \in Nat /\ cut \subseteq cut' /\ (runs' \notin cut' <=> ~CutsADate)
  BY PersistCuts DEF IInv
<1>3. Leaves' = Leaves /\ Leaves \subseteq Tasks
  BY <1>1, TreeStays DEF Leaves
<1>4. \A t \in Leaves : /\ duration[t] = nodeDuration(schedules[t])
                        /\ ef[t] = es[t] + duration[t] /\ SettledEarly(es, t)
  BY <1>1 DEF SettlesEarly, PassesDone, Uncut
<1>5. ASSUME NEW t \in Leaves, ~CutsADate
      PROVE  /\ nodeDuration(schedules'[t]) = duration[t]
             /\ pinnedStart(schedules'[t]) \in {pinnedStart(schedules[t]), es[t]}
  <2>1. schedules'[t] = [schedules[t] EXCEPT !.durationDays = duration[t],
            !.plannedStart = OnDate(PlannedStart(t)), !.plannedEnd = OnDate(PlannedEnd(t))]
    BY <1>3 DEF Persist
  <2> QED BY <1>2, <1>3, <1>4, <1>5, <2>1, RowsAreKept
<1>6. ASSUME NEW t \in Leaves, ~CutsADate PROVE SettledEarly(es, t)'
  <2>1. /\ pinnedStart(schedules[t]) <= es[t] /\ es[t] \in Int
        /\ \A d \in incoming(t) : EarlyCandidate(es, d) <= es[t]
        /\ es[t] = pinnedStart(schedules[t]) \/ \E d \in incoming(t) : es[t] = EarlyCandidate(es, d)
    BY <1>2, <1>3, <1>4 DEF SettledEarly, TypeOK
  <2>2. incoming(t)' = incoming(t) /\ \A d : EarlyCandidate(es, d)' = EarlyCandidate(es, d)
    BY <1>1 DEF incoming, EarlyCandidate
  <2>3. /\ pinnedStart(schedules'[t]) <= es[t]
        /\ es[t] = pinnedStart(schedules'[t]) \/ \E d \in incoming(t) : es[t] = EarlyCandidate(es, d)
    BY <1>5, <1>6, <2>1
  <2> QED BY <1>1, <2>1, <2>2, <2>3 DEF SettledEarly
<1>7. SettlesEarly'
  <2>1. Uncut' => ~CutsADate
    BY <1>1, <1>2 DEF Uncut
  <2> QED BY <1>1, <1>3, <1>4, <1>5, <1>6, <2>1 DEF SettlesEarly
<1>8. ASSUME runs' > 1, runs' - 1 \notin cut' PROVE earlier'[1] = es' /\ earlier'[2] = ef'
  <2>1. runs > 0 /\ runs \notin cut
    BY <1>1, <1>2, <1>8
  <2>2. PICK E \in {earlier[1]}, F \in {earlier[2]} : WasEarly(E, F) /\ AgreesEarly(E, F)
    BY <1>1, <2>1 DEF SameEarly
  <2>3. E \in [Tasks -> Int] /\ F \in [Tasks -> Int]
    BY <2>2 DEF WasEarly
  <2>4. \A t \in Leaves : es[t] = E[t] /\ ef[t] = F[t]
    BY <1>1, <1>4, <2>2 DEF WasEarly, AgreesEarly, PassesDone
  <2>5. \A t \in Summaries : es[t] = E[t] /\ ef[t] = F[t]
    BY <1>1, <2>2 DEF AgreesEarly
  <2>6. \A t \in Tasks : es[t] = E[t] /\ ef[t] = F[t]
    BY <2>4, <2>5 DEF Leaves
  <2>7. es = E /\ ef = F
    BY <1>2, <2>3, <2>6 DEF TypeOK
  <2> QED BY <1>1, <2>2, <2>7
<1> QED BY <1>1, <1>7, <1>8 DEF SameEarly

LEMMA RecalculateEarly ==
  ASSUME IInv, SummariesStandAlone, SettlesEarly, SameEarly, Recalculate
  PROVE  SettlesEarly' /\ SameEarly'
<1>1. /\ phase = "saved" /\ phase' = "forward" /\ visited' = {}
      /\ RowsStay /\ UNCHANGED <<runs, cut>>
      /\ duration' = Durations(schedules) /\ es' = Starts(schedules)
      /\ earlier' = <<es, ef, ls, lf>>
  BY DEF Recalculate, project, Dates, IInv, RolledUp, RowsStay
<1>2. TypeOK /\ \A t \in Summaries : Spans(t)
  BY <1>1 DEF IInv, RolledUp
<1>3. Leaves' = Leaves /\ Leaves \subseteq Tasks /\ schedules' = schedules
  BY <1>1, TreeStays DEF RowsStay, Leaves
<1>4. \A t \in Leaves : /\ duration'[t] = nodeDuration(schedules'[t])
                        /\ es'[t] = pinnedStart(schedules'[t])
  BY <1>1, <1>3 DEF Durations, Starts
<1>5. SettlesEarly'
  BY <1>1, <1>3, <1>4 DEF SettlesEarly, PassesDone
<1>6. ASSUME runs \notin cut PROVE SameEarly'
  <2>1. \A t \in Leaves : duration'[t] = duration[t]
    BY <1>1, <1>3, <1>4, <1>6 DEF SettlesEarly, Uncut
  <2>2. PICK E, F : E = es /\ F = ef
    OBVIOUS
  <2>3. \A t \in Leaves : F[t] = E[t] + duration[t] /\ SettledEarly(E, t)
    BY <1>1, <1>6, <2>2 DEF SettlesEarly, PassesDone, Uncut
  <2>4. \A t \in Summaries : SpansEarly(E, F, t)
    BY <1>2, <2>2 DEF Spans, SpansEarly
  <2>5. WasEarly(E, F)
    BY <1>2, <2>2, <2>3, <2>4 DEF WasEarly, TypeOK
  <2>6. WasEarly(E, F)'
    BY <1>1, <1>2, <2>1, <2>5, WasEarlyStays
  <2>7. AgreesEarly(E, F)'
    BY <1>1 DEF AgreesEarly, PassesDone
  <2>8. E = earlier'[1] /\ F = earlier'[2] /\ phase' # "saved"
    BY <1>1, <2>2
  <2> QED BY <2>6, <2>7, <2>8 DEF SameEarly
<1> QED BY <1>1, <1>5, <1>6 DEF SameEarly

-----------------------------------------------------------------------------
(***************************************************************************)
(* The late dates.                                                         *)
(***************************************************************************)
\* Dates that have settled stay so while the rows and the lengths do.
LEMMA WasLateStays ==
  ASSUME UNCHANGED <<dependencies, duration>>, NEW E, NEW L, NEW n, WasLate(E, L, n)
  PROVE  WasLate(E, L, n)' /\ AllDates(E, L)' = AllDates(E, L)
BY DEF WasLate, EndsAt, SettledLate, outgoing, LateCandidate, AllDates

LEMMA EndsOnce ==
  ASSUME TypeOK, NEW E \in [Tasks -> Int], NEW n \in Int, NEW m \in Int,
         EndsAt(E, n), EndsAt(E, m)
  PROVE  n = m
<1>1. \A t \in Tasks : E[t] + duration[t] \in Int
  BY DEF TypeOK
<1> QED BY <1>1 DEF EndsAt

LEMMA QuietLate ==
  ASSUME SettlesLate, SameLate,
         UNCHANGED <<dependencies, duration, es, ef, ls, lf, projectDuration, runs, earlier, cut>>,
         \/ UNCHANGED <<phase, visited>>
         \/ phase = "floats" /\ phase' \in {"floats", "rollup"}
         \/ phase' = "failed" /\ phase # "saved"
  PROVE  SettlesLate' /\ SameLate'
<1>1. SettlesLate'
  <2>1. EndsAt(es, projectDuration)' <=> EndsAt(es, projectDuration)
    BY DEF EndsAt
  <2>2. \A t \in Tasks : SettledLate(ls, projectDuration, t)' <=> SettledLate(ls, projectDuration, t)
    BY DEF SettledLate, outgoing, LateCandidate
  <2> QED BY <2>1, <2>2 DEF SettlesLate, PassesDone
<1>2. CASE phase' = "saved" \/ phase' = "failed"
  BY <1>1, <1>2 DEF SameLate, Dates
<1>3. CASE phase' # "saved" /\ phase' # "failed"
  <2> SUFFICES ASSUME runs > 0, runs \notin cut PROVE SameLate'
    BY <1>1, <1>3 DEF SameLate
  <2>1. phase # "saved" /\ phase # "failed"
    BY <1>3
  <2>2. PICK E \in {earlier[1]}, L \in {earlier[3]}, n \in {earlier[2][u] : u \in Tasks} :
          earlier = AllDates(E, L) /\ WasLate(E, L, n) /\ AgreesLate(L, n)
    BY <2>1 DEF SameLate
  <2>3. AgreesLate(L, n)'
    BY <2>2 DEF AgreesLate, PassesDone
  <2> QED BY <1>3, <2>2, <2>3, WasLateStays DEF SameLate
<1> QED BY <1>1, <1>2, <1>3

LEMMA ForwardLate ==
  ASSUME IInv, SettlesLate, SameLate, NEW t \in Tasks, Forward(t)
  PROVE  SettlesLate' /\ SameLate'
<1>1. /\ phase = "forward" /\ phase' = "forward"
      /\ UNCHANGED <<dependencies, duration, runs, earlier, cut>>
  BY DEF Forward, project, history
<1>2. SettlesLate'
  BY <1>1 DEF SettlesLate, PassesDone
<1>3. ASSUME runs > 0, runs \notin cut PROVE SameLate'
  <2>1. PICK E \in {earlier[1]}, L \in {earlier[3]}, n \in {earlier[2][u] : u \in Tasks} :
          earlier = AllDates(E, L) /\ WasLate(E, L, n) /\ AgreesLate(L, n)
    BY <1>1, <1>3 DEF SameLate
  <2>2. AgreesLate(L, n)'
    BY <1>1 DEF AgreesLate, PassesDone
  <2> QED BY <1>1, <2>1, <2>2, WasLateStays DEF SameLate
<1> QED BY <1>1, <1>2, <1>3 DEF SameLate

LEMMA TurnBackLate ==
  ASSUME IInv, Summaries = {}, SameEarly, SettlesLate, SameLate, TurnBack
  PROVE  SettlesLate' /\ SameLate'
<1>1. PICK last \in Tasks :
        /\ \A t \in Tasks : ef[t] <= ef[last]
        /\ projectDuration' = ef[last]
        /\ lf' = [t \in Tasks |-> ef[last]]
        /\ ls' = [t \in Tasks |-> ef[last] - duration[t]]
  BY DEF TurnBack
<1>2. /\ phase = "forward" /\ phase' = "backward" /\ visited = Tasks /\ visited' = {}
      /\ UNCHANGED <<dependencies, duration, es, ef, runs, earlier, cut>>
  BY DEF TurnBack, project, early, floats, history
<1>3. TypeOK /\ \A u \in Tasks : ef[u] = es[u] + duration[u]
  BY <1>2 DEF IInv, Passes, Lengths
<1>4. EndsAt(es, ef[last])
  BY <1>1, <1>3 DEF EndsAt
<1>5. SettlesLate'
  <2>1. EndsAt(es, projectDuration)'
    BY <1>1, <1>2, <1>4 DEF EndsAt
  <2>2. \A u \in Tasks : lf'[u] = ls'[u] + duration[u]
    BY <1>1, <1>3 DEF TypeOK
  <2> QED BY <1>2, <2>1, <2>2 DEF SettlesLate
<1>6. ASSUME runs > 0, runs \notin cut PROVE SameLate'
  <2>1. PICK E \in {earlier[1]}, L \in {earlier[3]}, n \in {earlier[2][u] : u \in Tasks} :
          earlier = AllDates(E, L) /\ WasLate(E, L, n) /\ AgreesLate(L, n)
    BY <1>2, <1>6 DEF SameLate
  <2>2. \A u \in Tasks : es[u] = E[u]
    BY <1>2, <1>6, <2>1 DEF SameEarly, AgreesEarly, Leaves
  <2>3. projectDuration' = n
    <3>1. EndsAt(E, ef[last])
      BY <1>4, <2>2 DEF EndsAt
    <3>2. E \in [Tasks -> Int] /\ n \in Int /\ EndsAt(E, n) /\ ef[last] \in Int
      BY <1>3, <2>1 DEF WasLate, TypeOK
    <3> QED BY <1>1, <1>3, <3>1, <3>2, EndsOnce
  <2>4. AgreesLate(L, n)'
    BY <1>2, <2>3 DEF AgreesLate
  <2> QED BY <1>2, <2>1, <2>4, WasLateStays DEF SameLate
<1> QED BY <1>2, <1>5, <1>6 DEF SameLate

LEMMA BackwardLate ==
  ASSUME IInv, SettlesLate, SameLate, NEW t \in Tasks, Backward(t)
  PROVE  SettlesLate' /\ SameLate'
<1>1. /\ phase = "backward" /\ t \notin visited
      /\ \A d \in outgoing(t) : d.successor \in visited
      /\ \/ visited' = visited \cup {t} /\ visited' # Tasks /\ phase' = "backward"
         \/ visited \cup {t} = Tasks /\ visited' = {} /\ phase' = "floats"
      /\ UNCHANGED <<dependencies, duration, es, ef, projectDuration, runs, earlier, cut>>
  BY DEF Backward, Visit, project, early, floats, history
<1>2. TypeOK /\ \A u \in Tasks : lf[u] = ls[u] + duration[u]
  BY <1>1 DEF IInv, Passes, BackwardInv
<1>3. lf[t] = projectDuration /\ \A u \in visited : u \in Tasks /\ SettledLate(ls, projectDuration, u)
  BY <1>1, <1>2 DEF IInv, Passes, BackwardInv, SettlesLate, PassesDone, TypeOK
<1>4. \A d \in outgoing(t) :
        /\ d \in dependencies /\ d.successor \in visited
        /\ backwardCandidateLf(d) = LateCandidate(ls, d) /\ LateCandidate(ls, d) \in Int
  <2>1. \A d \in outgoing(t) : d \in dependencies /\ d.successor \in Tasks
    BY <1>2, DependencyFields DEF outgoing
  <2>2. ls \in [Tasks -> Int]
    BY <1>2 DEF TypeOK
  <2> QED BY <1>1, <1>2, <2>1, <2>2, CandidatesAreThose, CandidatesAreInts
\* The late finish of t is the end of the project, or the least that is asked.
<1>5. /\ \A u \in Tasks : u # t => ls'[u] = ls[u] /\ lf'[u] = lf[u]
      /\ lf'[t] \in Int /\ lf'[t] = ls'[t] + duration[t] /\ ls'[t] \in Int
      /\ \/ outgoing(t) = {} /\ lf'[t] = projectDuration
         \/ /\ \A d \in outgoing(t) : lf'[t] <= LateCandidate(ls, d)
            /\ \E d \in outgoing(t) : lf'[t] = LateCandidate(ls, d)
  <2>1. CASE outgoing(t) = {} /\ UNCHANGED late
    BY <1>2, <1>3, <2>1 DEF late, TypeOK
  <2>2. CASE \E best \in {backwardCandidateLf(d) : d \in outgoing(t)} :
               /\ \A d \in outgoing(t) : best <= backwardCandidateLf(d)
               /\ lf' = [lf EXCEPT ![t] = best]
               /\ ls' = [ls EXCEPT ![t] = best - duration[t]]
    <3>1. PICK b \in outgoing(t) :
               /\ \A d \in outgoing(t) : backwardCandidateLf(b) <= backwardCandidateLf(d)
               /\ lf' = [lf EXCEPT ![t] = backwardCandidateLf(b)]
               /\ ls' = [ls EXCEPT ![t] = backwardCandidateLf(b) - duration[t]]
      BY <2>2
    <3>2. backwardCandidateLf(b) \in Int /\ duration[t] \in Int
      BY <1>2, <1>4 DEF TypeOK
    <3>3. /\ lf'[t] = backwardCandidateLf(b) /\ ls'[t] = backwardCandidateLf(b) - duration[t]
          /\ \A u \in Tasks : u # t => ls'[u] = ls[u] /\ lf'[u] = lf[u]
      BY <1>2, <3>1 DEF TypeOK
    <3>4. /\ \A d \in outgoing(t) : lf'[t] <= LateCandidate(ls, d)
          /\ \E d \in outgoing(t) : lf'[t] = LateCandidate(ls, d)
      BY <1>4, <3>1, <3>3
    <3> QED BY <3>2, <3>3, <3>4
  <2> QED BY <2>1, <2>2 DEF Backward
<1>6. ASSUME NEW u \in visited \cup {t}, NEW d \in outgoing(u)
      PROVE  d \in dependencies /\ d.successor \in visited /\ LateCandidate(ls, d)' = LateCandidate(ls, d)
  <2>1. d \in dependencies /\ d.successor \in visited
    BY <1>1, <1>4 DEF outgoing, IInv, Passes, BackwardInv
  <2>2. ls'[d.successor] = ls[d.successor]
    BY <1>1, <1>3, <1>5, <2>1
  <2> QED BY <1>1, <2>1, <2>2 DEF LateCandidate
<1>7. ASSUME NEW u \in visited \cup {t} PROVE SettledLate(ls, projectDuration, u)'
  <2>1. CASE u = t
    BY <1>1, <1>5, <1>6, <2>1 DEF SettledLate, outgoing
  <2>2. CASE u # t
    BY <1>1, <1>3, <1>5, <1>6, <2>2 DEF SettledLate, outgoing
  <2> QED BY <2>1, <2>2
<1>8. SettlesLate'
  <2>1. EndsAt(es, projectDuration)'
    BY <1>1 DEF SettlesLate, PassesDone, EndsAt
  <2>2. \A u \in Tasks : lf'[u] = ls'[u] + duration'[u]
    BY <1>1, <1>2, <1>5
  <2>3. \A u \in Tasks : (phase' = "backward" => u \in visited') => u \in visited \cup {t}
    BY <1>1
  <2> QED BY <1>1, <1>7, <2>1, <2>2, <2>3 DEF SettlesLate
<1>9. ASSUME runs > 0, runs \notin cut PROVE SameLate'
  <2>1. PICK E \in {earlier[1]}, L \in {earlier[3]}, n \in {earlier[2][u] : u \in Tasks} :
          earlier = AllDates(E, L) /\ WasLate(E, L, n) /\ AgreesLate(L, n)
    BY <1>1, <1>9 DEF SameLate
  <2>2. projectDuration = n /\ \A u \in visited : ls[u] = L[u]
    BY <1>1, <2>1 DEF AgreesLate, PassesDone
  <2>3. \A d \in outgoing(t) : LateCandidate(L, d) = LateCandidate(ls, d)
    BY <1>4, <2>2 DEF LateCandidate
  <2>4. \/ outgoing(t) = {} /\ L[t] + duration[t] = n
        \/ /\ \A d \in outgoing(t) : L[t] + duration[t] <= LateCandidate(ls, d)
           /\ \E d \in outgoing(t) : L[t] + duration[t] = LateCandidate(ls, d)
    BY <2>1, <2>3 DEF WasLate, SettledLate
  <2>5. L[t] \in Int /\ duration[t] \in Int /\ L[t] + duration[t] \in Int
    BY <1>2, <2>1 DEF WasLate, TypeOK
  <2>6. lf'[t] = L[t] + duration[t]
    BY <1>4, <1>5, <2>2, <2>4, <2>5
  <2>7. ls'[t] = L[t]
    <3>1. ls'[t] \in Int /\ ls'[t] + duration[t] = L[t] + duration[t]
      BY <1>5, <2>6
    <3>2. \A a, b, c \in Int : a + c = b + c => a = b
      OBVIOUS
    <3>3. L[t] \in Int /\ duration[t] \in Int
      BY <2>5
    <3> QED BY <3>1, <3>2, <3>3
  <2>8. \A u \in visited \cup {t} : ls'[u] = L[u]
    BY <1>3, <1>5, <2>2, <2>7
  <2>9. AgreesLate(L, n)'
    BY <1>1, <2>2, <2>8 DEF AgreesLate
  <2> QED BY <1>1, <2>1, <2>9, WasLateStays DEF SameLate
<1> QED BY <1>1, <1>8, <1>9 DEF SameLate

LEMMA PersistLate ==
  ASSUME IInv, CutOnce, Summaries = {}, SettlesEarly, SameEarly, SettlesLate, SameLate, Persist
  PROVE  SettlesLate' /\ SameLate'
<1>1. /\ phase = "rollup" /\ phase' = "saved" /\ runs' = runs + 1
      /\ UNCHANGED <<dependencies, duration, es, ef, ls, lf, projectDuration, earlier>>
  BY DEF Persist, project, early, late, floats
<1>2. TypeOK /\ runs \in Nat /\ cut \subseteq cut'
  BY PersistCuts DEF IInv
<1>3. SettlesLate'
  <2>1. EndsAt(es, projectDuration)' <=> EndsAt(es, projectDuration)
    BY <1>1 DEF EndsAt
  <2>2. \A t \in Tasks : SettledLate(ls, projectDuration, t)' <=> SettledLate(ls, projectDuration, t)
    BY <1>1 DEF SettledLate, outgoing, LateCandidate
  <2> QED BY <1>1, <2>1, <2>2 DEF SettlesLate, PassesDone
<1>4. ASSUME runs' > 1, runs' - 1 \notin cut' PROVE earlier' = Dates'
  <2>1. runs > 0 /\ runs \notin cut
    BY <1>1, <1>2, <1>4
  <2>2. PICK E \in {earlier[1]}, L \in {earlier[3]}, n \in {earlier[2][u] : u \in Tasks} :
          earlier = AllDates(E, L) /\ WasLate(E, L, n) /\ AgreesLate(L, n)
    BY <1>1, <2>1 DEF SameLate
  <2>3. \A t \in Tasks : ef[t] = es[t] + duration[t] /\ lf[t] = ls[t] + duration[t]
    BY <1>1 DEF SettlesEarly, SettlesLate, PassesDone, Leaves
  <2>4. \A t \in Tasks : es[t] = E[t] /\ ls[t] = L[t]
    BY <1>1, <2>1, <2>2 DEF SameEarly, AgreesEarly, AgreesLate, PassesDone, Leaves
  <2>5. es = E /\ ls = L
    BY <1>2, <2>2, <2>4 DEF TypeOK, WasLate
  <2>6. ef = [t \in Tasks |-> E[t] + duration[t]] /\ lf = [t \in Tasks |-> L[t] + duration[t]]
    BY <1>2, <2>3, <2>5 DEF TypeOK
  <2> QED BY <1>1, <2>2, <2>5, <2>6 DEF Dates, AllDates
<1> QED BY <1>1, <1>3, <1>4 DEF SameLate

LEMMA RecalculateLate ==
  ASSUME IInv, Summaries = {}, SettlesEarly, SettlesLate, SameLate, Recalculate
  PROVE  SettlesLate' /\ SameLate'
<1>1. /\ phase = "saved" /\ phase' = "forward"
      /\ UNCHANGED <<schedules, dependencies, runs, cut>>
      /\ duration' = Durations(schedules) /\ earlier' = <<es, ef, ls, lf>>
  BY DEF Recalculate, project, Dates
<1>2. TypeOK
  BY DEF IInv
<1>3. SettlesLate'
  BY <1>1 DEF SettlesLate, PassesDone
<1>4. ASSUME runs \notin cut PROVE SameLate'
  <2>1. \A t \in Tasks : ef[t] = es[t] + duration[t] /\ duration[t] = nodeDuration(schedules[t])
    BY <1>1, <1>4 DEF SettlesEarly, PassesDone, Uncut, Leaves
  <2>2. duration' = duration
    BY <1>1, <1>2, <2>1 DEF TypeOK, Durations
  <2>3. PICK E, L, n : E = es /\ L = ls /\ n = projectDuration
    OBVIOUS
  <2>4. WasLate(E, L, n) /\ \A t \in Tasks : lf[t] = ls[t] + duration[t]
    BY <1>1, <1>2, <2>3 DEF SettlesLate, PassesDone, WasLate, TypeOK
  <2>5. earlier' = AllDates(E, L)
    <3>1. ef = [t \in Tasks |-> E[t] + duration[t]] /\ lf = [t \in Tasks |-> L[t] + duration[t]]
      BY <1>2, <2>1, <2>3, <2>4 DEF TypeOK
    <3> QED BY <1>1, <2>3, <3>1 DEF AllDates
  <2>6. WasLate(E, L, n)' /\ AllDates(E, L)' = AllDates(E, L)
    BY <1>1, <2>2, <2>4, WasLateStays
  <2>7. n \in {earlier'[2][t] : t \in Tasks} /\ E = earlier'[1] /\ L = earlier'[3]
    <3>1. PICK t \in Tasks : es[t] + duration[t] = projectDuration
      BY <2>3, <2>4 DEF WasLate, EndsAt
    <3>2. earlier'[2][t] = ef[t] /\ ef[t] = n
      BY <1>1, <2>1, <2>3, <3>1
    <3> QED BY <1>1, <2>3, <3>2
  <2>8. AgreesLate(L, n)' /\ phase' # "saved"
    BY <1>1 DEF AgreesLate, PassesDone
  <2> QED BY <2>5, <2>6, <2>7, <2>8 DEF SameLate
<1> QED BY <1>1, <1>3, <1>4 DEF SameLate

-----------------------------------------------------------------------------
LEMMA RerunInit == Init => RerunInv
<1> SUFFICES ASSUME Init PROVE RerunInv
  OBVIOUS
<1>1. CutOnce
  BY DEF Init, CutOnce
<1>2. SettlesEarly /\ SameEarly
  BY DEF Init, SettlesEarly, SameEarly, Starts, Durations, PassesDone, Leaves
<1>3. SettlesLate /\ SameLate
  BY DEF Init, SettlesLate, SameLate, PassesDone
<1> QED BY <1>1, <1>2, <1>3 DEF RerunInv

LEMMA RerunStep == IInv /\ RerunInv /\ [Next]_vars => RerunInv'
<1> SUFFICES ASSUME IInv, RerunInv, [Next]_vars PROVE RerunInv'
  OBVIOUS
<1>1. UNCHANGED <<dependencies, parentTaskId, summaryTasks>>
  BY DEF Next, vars, project, Forward, Backward, ComputeFloats, RollUp, FailOnCycle, TurnBack,
         Persist, Recalculate
<1>2. Summaries' = Summaries /\ (SummariesStandAlone' <=> SummariesStandAlone)
  BY <1>1, TreeStays DEF SummariesStandAlone
<1>3. CutOnce /\ (Summaries = {} => SummariesStandAlone)
  BY DEF RerunInv, SummariesStandAlone
<1>4. CASE Persist
  <2>1. CutOnce'
    BY <1>3, <1>4, PersistCuts
  <2> QED BY <1>2, <1>3, <1>4, <2>1, PersistEarly, PersistLate DEF RerunInv
<1>5. CASE Recalculate
  <2>1. CutOnce'
    BY <1>3, <1>5, CutStays DEF Recalculate
  <2> QED BY <1>2, <1>3, <1>5, <2>1, RecalculateEarly, RecalculateLate DEF RerunInv
<1>6. ASSUME NEW t \in Tasks, Forward(t) PROVE RerunInv'
  <2>1. CutOnce'
    BY <1>3, <1>6, CutStays DEF Forward, history
  <2> QED BY <1>2, <1>3, <1>6, <2>1, ForwardEarly, ForwardLate DEF RerunInv
<1>7. ASSUME NEW t \in Tasks, RollUp(t) PROVE RerunInv'
  <2>1. CutOnce' /\ Summaries # {}
    BY <1>3, <1>7, CutStays DEF RollUp, RollsUpNext, history
  <2> QED BY <1>2, <1>3, <1>7, <2>1, RollUpEarly DEF RerunInv
\* The steps that leave the early dates.
<1>8. CASE TurnBack
  <2>1. /\ phase = "forward" /\ visited = Tasks /\ phase' = "backward"
        /\ UNCHANGED <<schedules, duration, es, ef, runs, earlier, cut>>
    BY <1>8 DEF TurnBack, early, history
  <2>2. CutOnce' /\ RowsStay /\ PassGoesOn
    BY <1>1, <1>3, <2>1, CutStays DEF RowsStay, PassGoesOn
  <2> QED BY <1>2, <1>3, <1>8, <2>1, <2>2, QuietEarly, TurnBackLate DEF RerunInv
<1>9. ASSUME NEW t \in Tasks, Backward(t) PROVE RerunInv'
  <2>1. /\ phase = "backward" /\ phase' \in {"backward", "floats"}
        /\ UNCHANGED <<schedules, duration, es, ef, runs, earlier, cut>>
    BY <1>9 DEF Backward, Visit, early, history
  <2>2. CutOnce' /\ RowsStay /\ PassGoesOn
    BY <1>1, <1>3, <2>1, CutStays DEF RowsStay, PassGoesOn
  <2> QED BY <1>2, <1>3, <1>9, <2>1, <2>2, QuietEarly, BackwardLate DEF RerunInv
<1>10. ASSUME NEW t \in Tasks, ComputeFloats(t) PROVE RerunInv'
  <2>1. /\ phase = "floats" /\ (phase' = "floats" \/ (phase' = "rollup" /\ visited' = {}))
        /\ UNCHANGED <<schedules, duration, es, ef, ls, lf, projectDuration, runs, earlier, cut>>
    <3>1. UNCHANGED <<schedules, duration, es, ef, ls, lf, projectDuration, runs, earlier, cut>>
      BY <1>10 DEF ComputeFloats, early, late, history
    <3>2. phase = "floats" /\ Visit(t, "rollup")
      BY <1>10 DEF ComputeFloats
    <3> QED BY <3>1, <3>2 DEF Visit
  <2>2. CutOnce' /\ RowsStay /\ PassGoesOn
    BY <1>1, <1>3, <2>1, CutStays DEF RowsStay, PassGoesOn
  <2> QED BY <1>1, <1>2, <1>3, <2>1, <2>2, QuietEarly, QuietLate DEF RerunInv
<1>11. CASE FailOnCycle \/ UNCHANGED vars
  <2>1. /\ UNCHANGED <<phase, visited>> \/ (phase = "forward" /\ phase' = "failed")
        /\ UNCHANGED <<schedules, duration, es, ef, ls, lf, projectDuration, runs, earlier, cut>>
    BY <1>11 DEF FailOnCycle, vars, early, late, history
  <2>2. CutOnce' /\ RowsStay /\ PassGoesOn
    BY <1>1, <1>3, <2>1, CutStays DEF RowsStay, PassGoesOn
  <2> QED BY <1>1, <1>2, <1>3, <2>1, <2>2, QuietEarly, QuietLate DEF RerunInv
<1> QED BY <1>4, <1>5, <1>6, <1>7, <1>8, <1>9, <1>10, <1>11 DEF Next

LEMMA RerunInductive == Spec => []RerunInv
<1>1. Init => RerunInv
  BY RerunInit
<1>2. IInv /\ RerunInv /\ [Next]_vars => RerunInv'
  BY RerunStep
<1> QED BY <1>1, <1>2, Inductive, PTL DEF Spec

(***************************************************************************)
(* calculateAndPersist() cuts dates to whole days at most the first time,  *)
(* and on rows it has saved uncut finds the dates it has found: the early  *)
(* ones where no dependency counts on a summary, all without summaries.    *)
(***************************************************************************)
THEOREM RerunIsAlwaysStable == Spec => []RerunIsStable
<1>1. RerunInv => RerunIsStable
  <2> SUFFICES ASSUME RerunInv, phase = "saved" PROVE RerunIsStable
    BY DEF RerunIsStable
  <2>1. SummariesStandAlone /\ runs > 1 /\ runs - 1 \notin cut => earlier[1] = es /\ earlier[2] = ef
    BY DEF RerunInv, SameEarly
  <2>2. Summaries = {} /\ runs > 1 /\ runs - 1 \notin cut => earlier = Dates
    BY DEF RerunInv, SameLate
  <2> QED BY <2>1, <2>2 DEF RerunInv, CutOnce, RerunIsStable
<1> QED BY <1>1, RerunInductive, PTL


-----------------------------------------------------------------------------
(***************************************************************************)
(* The early starts are those of the longest chains.  No chain is longer,  *)
(* since along it each dependency is kept; and a task that the forward     *)
(* pass has visited is the end of a chain through tasks visited before it, *)
(* each once, that gives it just its start.                                *)
(***************************************************************************)
LEMMA LeastNumber ==
  ASSUME NEW n \in Nat, NEW B \in SUBSET (1 .. n), B # {}
  PROVE  \E k \in B : \A j \in B : k <= j
<1> DEFINE F == {1 .. k : k \in B}
<1>1. F \subseteq FiniteSubsetsOf(1 .. n)
  <2>1. \A k \in B : 1 .. k \subseteq 1 .. n
    OBVIOUS
  <2>3. F \subseteq SUBSET (1 .. n)
    BY <2>1
  <2>2. IsFiniteSet(1 .. n)
    BY FS_Interval
  <2> HIDE DEF F
  <2> QED BY <2>2, <2>3, FS_FiniteSubsetsOfFinite
<1>2. F # {}
  OBVIOUS
<1> HIDE DEF F
<1>3. IsWellFoundedOn(StrictSubsetOrdering(1 .. n), FiniteSubsetsOf(1 .. n))
  BY FS_StrictSubsetOrderingWellFounded
<1>4. PICK A \in F : \A C \in F : ~(<<C, A>> \in StrictSubsetOrdering(1 .. n))
  BY <1>1, <1>2, <1>3, WFMin
<1>5. PICK k \in B : A = 1 .. k
  BY DEF F
<1>6. ASSUME NEW j \in B PROVE k <= j
  <2>1. 1 .. j \in F
    BY DEF F
  <2>2. j < k => <<1 .. j, A>> \in StrictSubsetOrdering(1 .. n)
    BY <1>5 DEF StrictSubsetOrdering
  <2> QED BY <1>4, <2>1, <2>2
<1> QED BY <1>6

\* f gives the start of each task along the chain c of n tasks.
Along(c, n, f) ==
    \A k \in 1 .. n :
        f[k] = IF k = 1 THEN pinnedStart(schedules[c[1]])
               ELSE f[k - 1] + Delay(LinkOf(c[k - 1], c[k]))

Linked(c, n) ==
    \A k \in 1 .. n - 1 :
        \E d \in dependencies : d.predecessor = c[k] /\ d.successor = c[k + 1]

LEMMA LinkIs ==
  ASSUME UniqueLinks(dependencies), NEW d \in dependencies
  PROVE  LinkOf(d.predecessor, d.successor) = d
BY DEF LinkOf, UniqueLinks

LEMMA DelayIsInt ==
  ASSUME TypeOK, NEW d \in dependencies
  PROVE  Delay(d) \in Int
<1>1. d.predecessor \in Tasks /\ d.successor \in Tasks /\ d.lagDays \in Int
  BY DependencyFields
<1>2. nodeDuration(schedules[d.predecessor]) \in Nat /\ nodeDuration(schedules[d.successor]) \in Nat
  BY <1>1, NodeTypes DEF TypeOK
<1> QED BY <1>1, <1>2 DEF Delay

\* The links and the first start of a chain are numbers.
LEMMA ChainIsOfInts ==
  ASSUME TypeOK, UniqueLinks(dependencies), NEW n \in Nat \ {0}, NEW c \in [1 .. n -> Tasks], Linked(c, n)
  PROVE  /\ pinnedStart(schedules[c[1]]) \in Int
         /\ \A k \in 2 .. n : Delay(LinkOf(c[k - 1], c[k])) \in Int
<1>1. pinnedStart(schedules[c[1]]) \in Int
  BY NodeTypes DEF TypeOK
<1>2. ASSUME NEW k \in 2 .. n PROVE Delay(LinkOf(c[k - 1], c[k])) \in Int
  <2>1. k - 1 \in 1 .. n - 1 /\ (k - 1) + 1 = k
    OBVIOUS
  <2>2. PICK d \in dependencies : d.predecessor = c[k - 1] /\ d.successor = c[k]
    BY <2>1 DEF Linked
  <2> QED BY <2>2, LinkIs, DelayIsInt
<1> QED BY <1>1, <1>2

\* There are such starts, by the first place from which there were none.
LEMMA StartsAlong ==
  ASSUME TypeOK, UniqueLinks(dependencies), NEW n \in Nat \ {0}, NEW c \in [1 .. n -> Tasks], Linked(c, n)
  PROVE  \E f \in [1 .. n -> Int] : Along(c, n, f)
<1> DEFINE Has(k) == \E f \in [1 .. k -> Int] : Along(c, k, f)
           Bad == {k \in 1 .. n : ~Has(k)}
<1>0. /\ pinnedStart(schedules[c[1]]) \in Int
      /\ \A k \in 2 .. n : Delay(LinkOf(c[k - 1], c[k])) \in Int
  BY ChainIsOfInts
<1>1. Has(1)
  <2> DEFINE f == [k \in 1 .. 1 |-> pinnedStart(schedules[c[1]])]
  <2>1. f \in [1 .. 1 -> Int]
    BY <1>0
  <2>2. Along(c, 1, f)
    BY DEF Along
  <2> HIDE DEF f
  <2> QED BY <2>1, <2>2
<1>2. ASSUME NEW k \in 2 .. n, Has(k - 1) PROVE Has(k)
  <2>1. PICK f \in [1 .. k - 1 -> Int] : Along(c, k - 1, f)
    BY <1>2
  <2> DEFINE next == f[k - 1] + Delay(LinkOf(c[k - 1], c[k]))
             g == [i \in 1 .. k |-> IF i = k THEN next ELSE f[i]]
  <2>2. next \in Int
    BY <1>0
  <2>3. g \in [1 .. k -> Int]
    BY <2>2
  <2>4. ASSUME NEW i \in 1 .. k
        PROVE  g[i] = IF i = 1 THEN pinnedStart(schedules[c[1]])
                      ELSE g[i - 1] + Delay(LinkOf(c[i - 1], c[i]))
    <3>1. CASE i = k
      <4>1. g[i] = next /\ g[i - 1] = f[k - 1] /\ i # 1
        BY <3>1
      <4> QED BY <3>1, <4>1
    <3>2. CASE i # k
      <4>1. i \in 1 .. k - 1 /\ g[i] = f[i] /\ (i # 1 => g[i - 1] = f[i - 1])
        BY <3>2
      <4> HIDE DEF g, next
      <4> QED BY <2>1, <4>1 DEF Along
    <3> QED BY <3>1, <3>2
  <2> HIDE DEF g
  <2>5. Along(c, k, g)
    BY <2>4 DEF Along
  <2> QED BY <2>3, <2>5
<1>3. Bad = {}
  <2> SUFFICES ASSUME Bad # {} PROVE FALSE
    OBVIOUS
  <2> HIDE DEF Has
  <2>1. Bad \in SUBSET (1 .. n)
    OBVIOUS
  <2> HIDE DEF Bad
  <2>2. PICK k \in Bad : \A j \in Bad : k <= j
    BY <2>1, LeastNumber
  <2>3. k \in 1 .. n /\ ~Has(k)
    BY DEF Bad
  <2>4. k \in 2 .. n
    BY <1>1, <2>3
  <2>5. k - 1 \in 1 .. n /\ k - 1 \notin Bad
    BY <2>2, <2>4
  <2>6. Has(k - 1)
    BY <2>5 DEF Bad
  <2> QED BY <1>2, <2>3, <2>4, <2>6
<1>4. Has(n)
  <2> HIDE DEF Has
  <2> QED BY <1>3
<1> QED BY <1>4

\* Two of them are the same.
LEMMA StartsAreUnique ==
  ASSUME NEW n \in Nat \ {0}, NEW c, NEW f, NEW g, Along(c, n, f), Along(c, n, g)
  PROVE  \A k \in 1 .. n : f[k] = g[k]
<1> DEFINE Bad == {k \in 1 .. n : f[k] # g[k]}
<1> SUFFICES ASSUME Bad # {} PROVE FALSE
  OBVIOUS
<1>1. PICK k \in Bad : \A j \in Bad : k <= j
  <2>1. Bad \in SUBSET (1 .. n)
    OBVIOUS
  <2> HIDE DEF Bad
  <2> QED BY <2>1, LeastNumber
<1>2. k \in 1 .. n /\ f[k] # g[k]
  OBVIOUS
<1>3. k # 1
  BY <1>2 DEF Along
<1>4. k - 1 \in 1 .. n /\ f[k - 1] = g[k - 1]
  BY <1>1, <1>2, <1>3
<1>5. f[k] = f[k - 1] + Delay(LinkOf(c[k - 1], c[k])) /\ g[k] = g[k - 1] + Delay(LinkOf(c[k - 1], c[k]))
  BY <1>2, <1>3 DEF Along
<1> QED BY <1>2, <1>4, <1>5

LEMMA ChainStartIs ==
  ASSUME TypeOK, UniqueLinks(dependencies), NEW n \in Nat \ {0}, NEW c \in [1 .. n -> Tasks], Linked(c, n),
         NEW f \in [1 .. n -> Int], Along(c, n, f)
  PROVE  ChainStart(c) = f[n]
<1> DEFINE Step(g, k) == IF k = 1 THEN pinnedStart(schedules[c[1]])
                         ELSE g[k - 1] + Delay(LinkOf(c[k - 1], c[k]))
           Steps(g) == [k \in DOMAIN c |-> Step(g, k)]
           start == CHOOSE g : g = Steps(g)
<1>1. DOMAIN c = 1 .. n /\ Len(c) = n
  BY LenProperties
<1>2. ChainStart(c) = start[Len(c)]
  BY DEF ChainStart
<1>3. \A k \in 1 .. n : f[k] = Step(f, k)
  BY DEF Along
<1>4. f = Steps(f)
  <2> HIDE DEF Step
  <2> QED BY <1>1, <1>3
<1>5. start = Steps(start)
  <2> HIDE DEF Steps
  <2> QED BY <1>4
<1> HIDE DEF start
<1>6. \A k \in 1 .. n : start[k] = Step(start, k)
  <2> HIDE DEF Step
  <2> QED BY <1>1, <1>5
<1>7. Along(c, n, start)
  BY <1>6 DEF Along
<1>8. start[n] = f[n]
  BY <1>7, StartsAreUnique
<1> QED BY <1>1, <1>2, <1>8

\* A chain within S, through each task once, gives t the start e.
ReachedBy(n, c, f, t, e) ==
    /\ Linked(c, n) /\ Along(c, n, f)
    /\ \A j, k \in 1 .. n : c[j] = c[k] => j = k
    /\ c[n] = t /\ f[n] = e

Reaches(S, t, e) ==
    \E n \in Nat \ {0} :
        \E c \in [1 .. n -> S], f \in [1 .. n -> Int] : ReachedBy(n, c, f, t, e)

Reached == IF phase = "forward" THEN visited ELSE Tasks

ChainInv ==
    /\ UniqueLinks(dependencies)
    /\ phase \in {"forward", "backward"} =>
         /\ duration = Durations(schedules)
         /\ \A t \in Tasks : pinnedStart(schedules[t]) <= es[t]
         /\ \A t \in Tasks \ Reached : es[t] = pinnedStart(schedules[t])
         /\ \A S, t, e : S = Reached /\ t \in S /\ e = es[t] => Reaches(S, t, e)

\* What a candidate adds to the start of the predecessor.
LEMMA CandidateIsDelayed ==
  ASSUME IInv, phase = "forward", duration = Durations(schedules), NEW d \in dependencies
  PROVE  forwardCandidateEs(d) = es[d.predecessor] + Delay(d)
<1>1. d.predecessor \in Tasks /\ d.successor \in Tasks /\ d.lagDays \in Int
  BY DependencyFields DEF IInv
<1>2. /\ duration[d.predecessor] = nodeDuration(schedules[d.predecessor])
      /\ duration[d.successor] = nodeDuration(schedules[d.successor])
  BY <1>1 DEF Durations
<1>3. ef[d.predecessor] = es[d.predecessor] + duration[d.predecessor]
  BY <1>1 DEF IInv, Passes, Lengths
<1>4. es[d.predecessor] \in Int /\ duration[d.predecessor] \in Int /\ duration[d.successor] \in Int
  BY <1>1 DEF IInv, TypeOK
<1> HIDE DEF IInv
<1> QED BY <1>1, <1>2, <1>3, <1>4 DEF forwardCandidateEs, Delay

LEMMA AloneReaches ==
  ASSUME NEW S, NEW t \in S, pinnedStart(schedules[t]) \in Int
  PROVE  Reaches(S, t, pinnedStart(schedules[t]))
<1> DEFINE c == [k \in 1 .. 1 |-> t]
           f == [k \in 1 .. 1 |-> pinnedStart(schedules[t])]
<1>1. c \in [1 .. 1 -> S] /\ f \in [1 .. 1 -> Int] /\ c[1] = t /\ f[1] = pinnedStart(schedules[t])
  OBVIOUS
<1>2. \A k \in 1 .. 1 : k = 1
  OBVIOUS
<1> HIDE DEF c, f
<1>3. Along(c, 1, f)
  BY <1>1, <1>2 DEF Along
<1>4. Linked(c, 1)
  BY DEF Linked
<1>5. ReachedBy(1, c, f, t, pinnedStart(schedules[t]))
  BY <1>1, <1>2, <1>3, <1>4 DEF ReachedBy
<1>6. 1 \in Nat \ {0}
  OBVIOUS
<1> QED BY <1>1, <1>5, <1>6 DEF Reaches

LEMMA LongerReaches ==
  ASSUME UniqueLinks(dependencies), NEW S, NEW d \in dependencies, NEW e, NEW g \in Int,
         Reaches(S, d.predecessor, e), d.successor \notin S, g = e + Delay(d)
  PROVE  Reaches(S \cup {d.successor}, d.successor, g)
<1> DEFINE t == d.successor
<1>0. PICK n \in Nat \ {0} : \E c \in [1 .. n -> S], f \in [1 .. n -> Int] : ReachedBy(n, c, f, d.predecessor, e)
  BY DEF Reaches
<1>1. PICK c \in [1 .. n -> S], f \in [1 .. n -> Int] : ReachedBy(n, c, f, d.predecessor, e)
  BY <1>0
<1>r. /\ Linked(c, n) /\ Along(c, n, f)
      /\ \A j, k \in 1 .. n : c[j] = c[k] => j = k
      /\ c[n] = d.predecessor /\ f[n] = e
  BY <1>1 DEF ReachedBy
<1> DEFINE m == n + 1
           c1 == [k \in 1 .. m |-> IF k = m THEN t ELSE c[k]]
           f1 == [k \in 1 .. m |-> IF k = m THEN g ELSE f[k]]
<1>2. m \in Nat \ {0} /\ m # 1 /\ m - 1 = n /\ m - 1 \in 1 .. n
  OBVIOUS
<1>3. \A k \in 1 .. m : k # m => k \in 1 .. n
  OBVIOUS
<1>4. c1 \in [1 .. m -> S \cup {t}] /\ f1 \in [1 .. m -> Int]
  BY <1>3
<1>5. c1[m] = t /\ f1[m] = g /\ \A k \in 1 .. n : c1[k] = c[k] /\ f1[k] = f[k] /\ k \in 1 .. m /\ k # m
  OBVIOUS
<1> HIDE DEF c1, f1, m
<1>6. Linked(c1, m)
  <2> SUFFICES ASSUME NEW k \in 1 .. m - 1
               PROVE  \E x \in dependencies : x.predecessor = c1[k] /\ x.successor = c1[k + 1]
    BY DEF Linked
  <2>1. CASE k = n
    <3>1. c1[k] = d.predecessor /\ c1[k + 1] = d.successor
      BY <1>r, <1>2, <1>5, <2>1
    <3> QED BY <3>1
  <2>2. CASE k # n
    <3>1. k \in 1 .. n - 1 /\ k + 1 \in 1 .. n /\ k \in 1 .. n
      BY <1>2, <2>2
    <3>2. c1[k] = c[k] /\ c1[k + 1] = c[k + 1]
      BY <1>5, <3>1
    <3> QED BY <1>r, <3>1, <3>2 DEF Linked
  <2> QED BY <2>1, <2>2
<1>7. Along(c1, m, f1)
  <2> SUFFICES ASSUME NEW k \in 1 .. m
               PROVE  f1[k] = IF k = 1 THEN pinnedStart(schedules[c1[1]])
                              ELSE f1[k - 1] + Delay(LinkOf(c1[k - 1], c1[k]))
    BY DEF Along
  <2>1. CASE k = m
    <3>1. c1[k - 1] = d.predecessor /\ c1[k] = d.successor /\ f1[k] = g /\ f1[k - 1] = e /\ k # 1
      BY <1>r, <1>2, <1>5, <2>1
    <3>2. LinkOf(c1[k - 1], c1[k]) = d
      BY <3>1, LinkIs
    <3> QED BY <3>1, <3>2
  <2>2. CASE k # m
    <3>1. k \in 1 .. n /\ 1 \in 1 .. n /\ (k # 1 => k - 1 \in 1 .. n)
      BY <1>3, <2>2
    <3>2. /\ c1[k] = c[k] /\ f1[k] = f[k] /\ c1[1] = c[1]
          /\ k # 1 => c1[k - 1] = c[k - 1] /\ f1[k - 1] = f[k - 1]
      BY <1>5, <3>1
    <3>3. f[k] = IF k = 1 THEN pinnedStart(schedules[c[1]])
                 ELSE f[k - 1] + Delay(LinkOf(c[k - 1], c[k]))
      BY <1>r, <3>1 DEF Along
    <3> QED BY <3>2, <3>3
  <2> QED BY <2>1, <2>2
<1>8. \A j, k \in 1 .. m : c1[j] = c1[k] => j = k
  <2>1. \A k \in 1 .. n : c1[k] \in S /\ c1[k] # t
    BY <1>5
  <2> QED BY <1>r, <1>3, <1>5, <2>1
<1> QED BY <1>2, <1>4, <1>5, <1>6, <1>7, <1>8 DEF Reaches, ReachedBy

LEMMA ReachesWithin ==
  ASSUME NEW S, NEW T, S \subseteq T, NEW t, NEW e, Reaches(S, t, e)
  PROVE  Reaches(T, t, e)
<1>0. PICK n \in Nat \ {0} : \E c \in [1 .. n -> S], f \in [1 .. n -> Int] : ReachedBy(n, c, f, t, e)
  BY DEF Reaches
<1>1. PICK c \in [1 .. n -> S], f \in [1 .. n -> Int] : ReachedBy(n, c, f, t, e)
  BY <1>0
<1>2. c \in [1 .. n -> T]
  OBVIOUS
<1> QED BY <1>1, <1>2 DEF Reaches

\* A state in which the rows and the dependencies are the same.
LEMMA ReachesStays ==
  ASSUME schedules' = schedules, dependencies' = dependencies
  PROVE  \A S, t, e : Reaches(S, t, e)' <=> Reaches(S, t, e)
<1>1. \A c, n : Linked(c, n)' <=> Linked(c, n)
  BY DEF Linked
<1>2. \A d : Delay(d)' = Delay(d)
  BY DEF Delay
<1>3. \A p, x : LinkOf(p, x)' = LinkOf(p, x)
  BY DEF LinkOf
<1>4. \A c, n, f : Along(c, n, f)' <=> Along(c, n, f)
  BY <1>2, <1>3 DEF Along
<1> QED BY <1>1, <1>4 DEF Reaches, ReachedBy

LEMMA ChainInit == Init => ChainInv
<1> SUFFICES ASSUME Init PROVE ChainInv
  OBVIOUS
<1>1. PICK p \in Projects : schedules = p.schedules /\ dependencies = p.dependencies
  BY DEF Init
<1>2. UniqueLinks(dependencies)
  BY <1>1, LinksAssumption
<1>3. schedules \in [Tasks -> Schedule]
  BY <1>1, ScheduleAssumption DEF Project
<1>4. \A t \in Tasks : pinnedStart(schedules[t]) \in Int /\ es[t] = pinnedStart(schedules[t])
  BY <1>3, NodeTypes DEF Init, Starts
<1> QED BY <1>2, <1>4 DEF Init, ChainInv, Reached

LEMMA LinksStay ==
  ASSUME [Next]_vars PROVE dependencies' = dependencies
<1>1. ASSUME NEW t \in Tasks, Forward(t) \/ Backward(t) \/ ComputeFloats(t) \/ RollUp(t)
      PROVE  dependencies' = dependencies
  <2>1. Forward(t) => dependencies' = dependencies
    BY DEF Forward, project
  <2>2. Backward(t) => dependencies' = dependencies
    BY DEF Backward, project
  <2>3. ComputeFloats(t) => dependencies' = dependencies
    BY DEF ComputeFloats, project
  <2>4. RollUp(t) => dependencies' = dependencies
    BY DEF RollUp, project
  <2> QED BY <1>1, <2>1, <2>2, <2>3, <2>4
<1>2. FailOnCycle => dependencies' = dependencies
  BY DEF FailOnCycle, project
<1>3. TurnBack => dependencies' = dependencies
  BY DEF TurnBack, project
<1>4. Persist => dependencies' = dependencies
  BY Zenon DEF Persist, project
<1>5. Recalculate => dependencies' = dependencies
  BY DEF Recalculate, project
<1>6. UNCHANGED vars => dependencies' = dependencies
  BY DEF vars, project
<1> QED BY <1>1, <1>2, <1>3, <1>4, <1>5, <1>6 DEF Next

LEMMA ForwardChains ==
  ASSUME IInv, ChainInv, NEW t \in Tasks, Forward(t) PROVE ChainInv'
<1>1. PICK best \in EarlyStarts(t) :
        (\A start \in EarlyStarts(t) : start <= best) /\ es' = [es EXCEPT ![t] = best]
  BY DEF Forward
<1>2. /\ phase = "forward" /\ phase' = "forward" /\ t \notin visited /\ visited' = visited \cup {t}
      /\ schedules' = schedules /\ dependencies' = dependencies /\ duration' = duration
      /\ \A d \in incoming(t) : d.predecessor \in visited
  BY DEF Forward, Ready, project
<1>3. /\ UniqueLinks(dependencies) /\ duration = Durations(schedules)
      /\ \A u \in Tasks : pinnedStart(schedules[u]) <= es[u]
      /\ \A u \in Tasks \ visited : es[u] = pinnedStart(schedules[u])
      /\ \A S, u, e : S = visited /\ u \in S /\ e = es[u] => Reaches(S, u, e)
  BY <1>2 DEF ChainInv, Reached
<1>4. /\ TypeOK /\ visited \subseteq Tasks /\ es \in [Tasks -> Int]
      /\ \A u \in Tasks : pinnedStart(schedules[u]) \in Int
  BY NodeTypes DEF IInv, TypeOK
<1>5. best \in Int /\ es[t] <= best /\ es'[t] = best
      /\ \A u \in Tasks : u # t => es'[u] = es[u]
  BY <1>1, <1>4, CandidateTypes DEF EarlyStarts, incoming
<1>6. Reaches(visited \cup {t}, t, best)
  <2>1. CASE best = es[t]
    <3>1. best = pinnedStart(schedules[t])
      BY <1>2, <1>3, <2>1
    <3> QED BY <1>4, <3>1, AloneReaches
  <2>2. CASE best # es[t]
    <3>1. PICK d \in incoming(t) : best = forwardCandidateEs(d)
      BY <1>1, <2>2 DEF EarlyStarts
    <3>2. d \in dependencies /\ d.successor = t /\ d.predecessor \in visited
      BY <1>2 DEF incoming
    <3>3. best = es[d.predecessor] + Delay(d)
      BY <1>2, <1>3, <3>1, <3>2, CandidateIsDelayed
    <3>4. Reaches(visited, d.predecessor, es[d.predecessor]) /\ d.successor \notin visited
      BY <1>2, <1>3, <3>2
    <3>5. Reaches(visited \cup {d.successor}, d.successor, best)
      BY <1>3, <1>5, <3>2, <3>3, <3>4, LongerReaches
    <3> QED BY <3>2, <3>5
  <2> QED BY <2>1, <2>2
<1>7. ASSUME NEW u \in visited \cup {t} PROVE Reaches(visited \cup {t}, u, es'[u])
  <2>1. CASE u = t
    BY <1>5, <1>6, <2>1
  <2>2. CASE u # t
    <3>1. u \in visited /\ u \in Tasks /\ es'[u] = es[u]
      BY <1>4, <1>5, <2>2
    <3>2. Reaches(visited, u, es[u])
      BY <1>3, <3>1
    <3> QED BY <3>1, <3>2, ReachesWithin
  <2> QED BY <2>1, <2>2
<1>8. \A u \in Tasks : pinnedStart(schedules[u]) <= es'[u]
  BY <1>3, <1>4, <1>5
<1>9. \A u \in Tasks \ visited' : es'[u] = pinnedStart(schedules[u])
  BY <1>2, <1>3, <1>5
<1>10. UniqueLinks(dependencies') /\ duration' = Durations(schedules')
  BY <1>2, <1>3
<1>11. Reached' = visited \cup {t}
  BY <1>2 DEF Reached
<1>12. \A S, u, e : S = visited \cup {t} /\ u \in S /\ e = es'[u] => Reaches(S, u, e)'
  BY <1>2, <1>7, ReachesStays
<1>13. \A u \in Tasks \ Reached' : es'[u] = pinnedStart(schedules'[u])
  BY <1>2, <1>9, <1>11
<1>14. \A u \in Tasks : pinnedStart(schedules'[u]) <= es'[u]
  BY <1>2, <1>8
<1> QED BY <1>10, <1>11, <1>12, <1>13, <1>14 DEF ChainInv

\* A step that leaves rows, dependencies and early starts as they are, and the
\* tasks reached too while the passes go on.
LEMMA ChainsStay ==
  ASSUME ChainInv, schedules' = schedules, dependencies' = dependencies, es' = es, duration' = duration,
         phase' \in {"forward", "backward"} => phase \in {"forward", "backward"} /\ Reached' = Reached
  PROVE  ChainInv'
<1>1. UniqueLinks(dependencies')
  BY DEF ChainInv
<1>2. SUFFICES ASSUME phase' \in {"forward", "backward"} PROVE ChainInv'
  BY <1>1 DEF ChainInv
<1>3. /\ duration = Durations(schedules)
      /\ \A t \in Tasks : pinnedStart(schedules[t]) <= es[t]
      /\ \A t \in Tasks \ Reached : es[t] = pinnedStart(schedules[t])
      /\ \A S, t, e : S = Reached /\ t \in S /\ e = es[t] => Reaches(S, t, e)
  BY <1>2 DEF ChainInv
<1>4. \A S, t, e : S = Reached' /\ t \in S /\ e = es'[t] => Reaches(S, t, e)'
  BY <1>2, <1>3, ReachesStays
<1>5. duration' = Durations(schedules')
  BY <1>3
<1>6. \A t \in Tasks : pinnedStart(schedules'[t]) <= es'[t]
  BY <1>3
<1>7. \A t \in Tasks \ Reached' : es'[t] = pinnedStart(schedules'[t])
  BY <1>2, <1>3
<1> QED BY <1>1, <1>4, <1>5, <1>6, <1>7 DEF ChainInv

LEMMA RecalculateChains ==
  ASSUME IInv, ChainInv, Recalculate PROVE ChainInv'
<1>1. /\ phase = "saved" /\ phase' = "forward" /\ visited' = visited
      /\ schedules' = schedules /\ dependencies' = dependencies
      /\ duration' = Durations(schedules) /\ es' = Starts(schedules)
  BY DEF Recalculate, project
<1>2. visited = {}
  BY <1>1 DEF IInv, RolledUp
<1>3. Reached' = {}
  BY <1>1, <1>2 DEF Reached
<1>4. \A t \in Tasks : pinnedStart(schedules[t]) \in Int /\ es'[t] = pinnedStart(schedules[t])
  BY <1>1, NodeTypes DEF IInv, TypeOK, Starts
<1>5. UniqueLinks(dependencies')
  BY <1>1 DEF ChainInv
<1>6. duration' = Durations(schedules')
  BY <1>1
<1>7. \A t \in Tasks : pinnedStart(schedules'[t]) <= es'[t] /\ es'[t] = pinnedStart(schedules'[t])
  BY <1>1, <1>4
<1>8. \A S, t, e : ~(S = Reached' /\ t \in S /\ e = es'[t])
  BY <1>3
<1> QED BY <1>5, <1>6, <1>7, <1>8 DEF ChainInv

LEMMA ChainsPreserved ==
  ASSUME IInv, ChainInv, [Next]_vars PROVE ChainInv'
<1>0. UniqueLinks(dependencies')
  BY LinksStay DEF ChainInv
<1>1. ASSUME NEW t \in Tasks, Forward(t) PROVE ChainInv'
  BY <1>1, ForwardChains
<1>2. ASSUME NEW t \in Tasks, Backward(t) PROVE ChainInv'
  <2>1. /\ phase = "backward" /\ phase' \in {"backward", "floats"} /\ schedules' = schedules
        /\ dependencies' = dependencies /\ es' = es /\ duration' = duration
    BY <1>2 DEF Backward, Visit, project, early
  <2>2. phase' = "backward" => Reached' = Reached
    BY <2>1 DEF Reached
  <2> QED BY <2>1, <2>2, ChainsStay
<1>3. ASSUME NEW t \in Tasks, ComputeFloats(t) PROVE ChainInv'
  <2>1. phase' \in {"floats", "rollup"}
    BY <1>3 DEF ComputeFloats, Visit
  <2> QED BY <1>0, <2>1 DEF ChainInv
<1>4. ASSUME NEW t \in Tasks, RollUp(t) PROVE ChainInv'
  <2>1. phase' = "rollup"
    BY <1>4 DEF RollUp
  <2> QED BY <1>0, <2>1 DEF ChainInv
<1>5. ASSUME FailOnCycle PROVE ChainInv'
  <2>1. phase' = "failed"
    BY <1>5 DEF FailOnCycle
  <2> QED BY <1>0, <2>1 DEF ChainInv
<1>6. ASSUME TurnBack PROVE ChainInv'
  <2>1. /\ phase = "forward" /\ phase' = "backward" /\ visited = Tasks /\ schedules' = schedules
        /\ dependencies' = dependencies /\ es' = es /\ duration' = duration
    BY <1>6 DEF TurnBack, project, early
  <2>2. Reached' = Reached
    BY <2>1 DEF Reached
  <2> QED BY <2>1, <2>2, ChainsStay
<1>7. ASSUME Persist PROVE ChainInv'
  <2>1. phase' = "saved"
    BY <1>7, Zenon DEF Persist
  <2> QED BY <1>0, <2>1 DEF ChainInv
<1>8. ASSUME Recalculate PROVE ChainInv'
  BY <1>8, RecalculateChains
<1>9. ASSUME UNCHANGED vars PROVE ChainInv'
  <2>1. /\ phase' = phase /\ visited' = visited /\ schedules' = schedules
        /\ dependencies' = dependencies /\ es' = es /\ duration' = duration
    BY <1>9 DEF vars, project, early
  <2>2. Reached' = Reached
    BY <2>1 DEF Reached
  <2> QED BY <2>1, <2>2, ChainsStay
<1> QED BY <1>1, <1>2, <1>3, <1>4, <1>5, <1>6, <1>7, <1>8, <1>9 DEF Next

\* No chain gives its last task a start that is later than its own.
LEMMA DelayIsKept ==
  ASSUME IInv, phase = "backward", duration = Durations(schedules), NEW d \in dependencies
  PROVE  es[d.successor] >= es[d.predecessor] + Delay(d)
<1>1. d.predecessor \in Tasks /\ d.successor \in Tasks /\ d.lagDays \in Int
  BY DependencyFields DEF IInv
<1>2. /\ duration[d.predecessor] = nodeDuration(schedules[d.predecessor])
      /\ duration[d.successor] = nodeDuration(schedules[d.successor])
  BY <1>1 DEF Durations
<1>3. /\ ef[d.predecessor] = es[d.predecessor] + duration[d.predecessor]
      /\ ef[d.successor] = es[d.successor] + duration[d.successor]
  BY <1>1 DEF IInv, Passes, Lengths
<1>4. /\ es[d.predecessor] \in Int /\ es[d.successor] \in Int
      /\ duration[d.predecessor] \in Int /\ duration[d.successor] \in Int
  BY <1>1 DEF IInv, TypeOK
<1>5. Kept(d, 0)
  BY DEF IInv, Passes, EarlyInv
<1> HIDE DEF IInv
<1> QED BY <1>1, <1>2, <1>3, <1>4, <1>5 DEF Kept, Delay

LEMMA NoChainIsLonger ==
  ASSUME IInv, ChainInv, phase = "backward", NEW n \in Nat \ {0}, NEW c \in [1 .. n -> Tasks],
         Linked(c, n), NEW f \in [1 .. n -> Int], Along(c, n, f)
  PROVE  f[n] <= es[c[n]]
<1>1. /\ TypeOK /\ UniqueLinks(dependencies) /\ duration = Durations(schedules)
      /\ \A t \in Tasks : pinnedStart(schedules[t]) <= es[t]
  BY DEF IInv, ChainInv
<1>2. \A t \in Tasks : es[t] \in Int
  BY <1>1 DEF TypeOK
<1> DEFINE Bad == {k \in 1 .. n : f[k] > es[c[k]]}
<1> SUFFICES ASSUME f[n] > es[c[n]] PROVE FALSE
  BY <1>2
<1>3. Bad \in SUBSET (1 .. n) /\ n \in Bad
  OBVIOUS
<1>4. PICK k \in Bad : \A j \in Bad : k <= j
  <2> HIDE DEF Bad
  <2> QED BY <1>3, LeastNumber
<1>5. k \in 1 .. n /\ f[k] > es[c[k]]
  OBVIOUS
<1>6. k # 1
  <2>1. k = 1 => f[k] = pinnedStart(schedules[c[1]])
    BY <1>5 DEF Along
  <2> QED BY <1>1, <1>2, <1>5, <2>1
<1>7. k - 1 \in 1 .. n - 1 /\ k - 1 \in 1 .. n /\ (k - 1) + 1 = k /\ k \in 2 .. n
  BY <1>5, <1>6
<1>8. f[k - 1] <= es[c[k - 1]]
  BY <1>2, <1>4, <1>7
<1>9. f[k] = f[k - 1] + Delay(LinkOf(c[k - 1], c[k]))
  BY <1>5, <1>6 DEF Along
<1>10. PICK d \in dependencies : d.predecessor = c[k - 1] /\ d.successor = c[k]
  BY <1>7 DEF Linked
<1>11. LinkOf(c[k - 1], c[k]) = d
  BY <1>1, <1>10, LinkIs
<1>12. es[c[k]] >= es[c[k - 1]] + Delay(d)
  BY <1>1, <1>10, DelayIsKept
<1>13. Delay(d) \in Int /\ es[c[k]] \in Int /\ es[c[k - 1]] \in Int /\ f[k - 1] \in Int
  BY <1>1, <1>2, <1>5, <1>7, DelayIsInt
<1>14. f[k] = f[k - 1] + Delay(d)
  BY <1>9, <1>11
<1>15. \A a, b, x, y, z \in Int : a = b + z /\ b <= y /\ x >= y + z => ~(a > x)
  OBVIOUS
<1> HIDE DEF Bad
<1>16. f[k] \in Int
  BY <1>13, <1>14
<1> QED BY <1>5, <1>8, <1>12, <1>13, <1>14, <1>15, <1>16

\* The chains of the reference are the linked ones.
LEMMA ChainsAre ==
  ASSUME NEW x \in Chains
  PROVE  \E n \in Nat \ {0} : x \in [1 .. n -> Tasks] /\ Linked(x, n) /\ Len(x) = n
<1>1. x \in SeqOf(Tasks, Cardinality(Tasks)) /\ x # <<>>
  BY DEF Chains
<1>2. PICK n \in 0 .. Cardinality(Tasks) : x \in [1 .. n -> Tasks]
  BY <1>1 DEF SeqOf
<1>3. Len(x) = n /\ n # 0
  BY <1>1, <1>2
<1> QED BY <1>2, <1>3 DEF Chains, Linked

LEMMA ReachedByChain ==
  ASSUME IInv, ChainInv, NEW t, NEW e, Reaches(Tasks, t, e)
  PROVE  \E x \in Chains : x[Len(x)] = t /\ ChainStart(x) = e
<1>0. PICK n \in Nat \ {0} : \E c \in [1 .. n -> Tasks], f \in [1 .. n -> Int] : ReachedBy(n, c, f, t, e)
  BY DEF Reaches
<1>1. PICK c \in [1 .. n -> Tasks], f \in [1 .. n -> Int] : ReachedBy(n, c, f, t, e)
  BY <1>0
<1>2. /\ Linked(c, n) /\ Along(c, n, f)
      /\ \A j, k \in 1 .. n : c[j] = c[k] => j = k
      /\ c[n] = t /\ f[n] = e
  BY <1>1 DEF ReachedBy
<1>3. n <= Cardinality(Tasks) /\ Cardinality(Tasks) \in Nat
  <2>1. IsFiniteSet(Tasks)
    BY ScheduleAssumption
  <2>2. c \in Injection(1 .. n, Tasks)
    BY <1>2 DEF Injection, IsInjective
  <2>3. Cardinality(1 .. n) <= Cardinality(Tasks)
    BY <2>1, <2>2, FS_Injection
  <2>4. Cardinality(1 .. n) = n
    BY FS_Interval
  <2> QED BY <2>1, <2>3, <2>4, FS_CardinalityType
<1>4. Len(c) = n /\ c # <<>>
  BY LenProperties
<1>5. c \in SeqOf(Tasks, Cardinality(Tasks))
  BY <1>3 DEF SeqOf
<1>6. c \in Chains
  BY <1>2, <1>4, <1>5 DEF Chains, Linked
<1>7. ChainStart(c) = e
  BY <1>2, ChainStartIs DEF IInv, ChainInv
<1> QED BY <1>2, <1>4, <1>6, <1>7

LEMMA LongestChains ==
  ASSUME IInv, ChainInv PROVE EarliestIsLongestChain
<1> SUFFICES ASSUME phase = "backward", visited = {}, NEW t \in Tasks
             PROVE  es[t] = Max({ChainStart(c) : c \in {x \in Chains : x[Len(x)] = t}})
  BY DEF EarliestIsLongestChain
<1> DEFINE S == {ChainStart(c) : c \in {x \in Chains : x[Len(x)] = t}}
<1>1. es[t] \in Int
  BY DEF IInv, TypeOK
<1>2. Reaches(Tasks, t, es[t])
  BY DEF ChainInv, Reached
<1>3. es[t] \in S
  BY <1>2, ReachedByChain
<1>4. ASSUME NEW x \in Chains, x[Len(x)] = t PROVE ChainStart(x) \in Int /\ ChainStart(x) <= es[t]
  <2>0. TypeOK /\ UniqueLinks(dependencies)
    BY DEF IInv, ChainInv
  <2>1. PICK n \in Nat \ {0} : x \in [1 .. n -> Tasks] /\ Linked(x, n) /\ Len(x) = n
    BY ChainsAre
  <2>2. PICK f \in [1 .. n -> Int] : Along(x, n, f)
    BY <2>0, <2>1, StartsAlong
  <2>3. ChainStart(x) = f[n]
    BY <2>0, <2>1, <2>2, ChainStartIs
  <2>4. f[n] <= es[x[n]]
    BY <2>1, <2>2, NoChainIsLonger
  <2>5. f[n] \in Int
    OBVIOUS
  <2> QED BY <1>4, <2>1, <2>3, <2>4, <2>5
<1>5. \A v \in S : v \in Int /\ v <= es[t]
  BY <1>4
<1> HIDE DEF S
<1>6. \A m \in S : (\A v \in S : m >= v) => m = es[t]
  BY <1>1, <1>3, <1>5
<1>7. \A v \in S : es[t] >= v
  BY <1>1, <1>5
<1>8. Max(S) = es[t]
  BY <1>3, <1>6, <1>7 DEF Max
<1> QED BY <1>8 DEF S

(***************************************************************************)
(* The early start that the forward pass gives a task is the start that    *)
(* the longest chain of dependencies ending at it lets it have.            *)
(***************************************************************************)
THEOREM EarliestIsAlwaysLongestChain == Spec => []EarliestIsLongestChain
<1>1. Init => IInv /\ ChainInv
  BY InitHolds, ChainInit
<1>2. (IInv /\ ChainInv) /\ [Next]_vars => (IInv /\ ChainInv)'
  BY StepPreserves, ChainsPreserved
<1>3. IInv /\ ChainInv => EarliestIsLongestChain
  BY LongestChains
<1> QED BY <1>1, <1>2, <1>3, PTL DEF Spec
=============================================================================
