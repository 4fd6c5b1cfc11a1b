------------------------- MODULE ScheduleReference -------------------------
(***************************************************************************)
(* What the early dates of ScheduleCalculation are, without an algorithm:  *)
(* a task starts when the longest chain of dependencies that ends at it    *)
(* lets it.                                                                *)
(***************************************************************************)
EXTENDS ScheduleCalculation, SequencesExt, FiniteSetsExt

\* One dependency at most of a task on another: a constraint of the table
\* (task-dependency.entity.ts).
UniqueLinks(links) ==
    \A d, e \in links : d.predecessor = e.predecessor /\ d.successor = e.successor => d = e

ASSUME LinksAssumption == \A p \in Projects : UniqueLinks(p.dependencies)

\* How much later the successor of a dependency starts than its predecessor, at least.
Delay(d) ==
    LET before == nodeDuration(schedules[d.predecessor])
        after == nodeDuration(schedules[d.successor])
    IN  CASE d.type = "SS" -> d.lagDays
          [] d.type = "FF" -> before + d.lagDays - after
          [] d.type = "SF" -> d.lagDays - after
          [] OTHER -> before + d.lagDays

\* Chains of dependencies: without a cycle none is longer than the project has tasks.
Chains ==
    {c \in SeqOf(Tasks, Cardinality(Tasks)) :
        /\ c # <<>>
        /\ \A k \in 1 .. Len(c) - 1 :
             \E d \in dependencies : d.predecessor = c[k] /\ d.successor = c[k + 1]}

LinkOf(p, t) == CHOOSE d \in dependencies : d.predecessor = p /\ d.successor = t

\* The start a chain of tasks gives to its last: the first starts when it may,
\* and each starts as soon as the one before lets it.
ChainStart(chain) ==
    LET start[k \in DOMAIN chain] ==
            IF k = 1 THEN pinnedStart(schedules[chain[1]])
            ELSE start[k - 1] + Delay(LinkOf(chain[k - 1], chain[k]))
    IN  start[Len(chain)]

(***************************************************************************)
(* The forward pass, in the order the graph allows, ends with those starts.*)
(***************************************************************************)
EarliestIsLongestChain ==
    phase = "backward" /\ visited = {} =>
      \A t \in Tasks :
        es[t] = Max({ChainStart(c) : c \in {x \in Chains : x[Len(x)] = t}})
=============================================================================
