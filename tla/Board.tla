-------------------------------- MODULE Board --------------------------------
(***************************************************************************)
(* The order of the cards: checklist items in the columns of the board and *)
(* in the list of their task, tasks among the siblings of one status.      *)
(*   src/src/tasks/services/task-ranking.service.ts                        *)
(*   src/src/tasks/services/task-checklist-transition.service.ts           *)
(*   src/src/tasks/services/task-checklist.service.ts                      *)
(*   src/src/tasks/services/task-crud.service.ts                           *)
(*   src/src/projects/projects.service.ts (ranks of seeded tasks)          *)
(* A rank is ten digits of base 36, here a number below RankLimit; cards   *)
(* of one rank are in the order of their creation.  Every handler below    *)
(* holds the workflow lock of the project, so it is one step.  Who may     *)
(* move what, and where to, is in ChecklistWorkflow and TaskHierarchy:     *)
(* here any move of a card may happen.                                     *)
(***************************************************************************)
EXTENDS Integers, FiniteSets

CONSTANTS
    Items,          \* checklist items; the id of an item is a number
    Tasks,
    Nobody,         \* beforeItemId or afterItemId is not given
    Columns,        \* statuses, the columns of items
    Siblinghoods,   \* for tasks a column is a parent with a status
    Lists,          \* the checklists of the tasks
    RankStep,       \* RANK_STEP
    RankLimit,      \* RANK_BASE to the power of RANK_WIDTH
    GivenRanks,     \* the ranks a request may give
    MaxIndex        \* bound: the positions a request may give

ASSUME BoardAssumption ==
    /\ Items \subseteq Nat /\ Items \cap Tasks = {} /\ Nobody \notin Items \cup Tasks
    /\ RankStep \in Nat \ {0, 1} /\ RankLimit \in Nat \ {0}
    /\ GivenRanks \subseteq 0 .. RankLimit - 1
    /\ MaxIndex \in Nat
    /\ IsFiniteSet(Items) /\ IsFiniteSet(Tasks) /\ Columns \cap Siblinghoods = {}
    \* a column that is rebalanced has room: 36^10 ranks, 1024 to a step
    /\ RankStep * Cardinality(Items) < RankLimit
    /\ RankStep * Cardinality(Tasks) < RankLimit

VARIABLES
    column,     \* of every card there is
    rank,
    created,    \* createdAt, also of the cards that are gone
    entry       \* of every item there is: its list and its orderIndex

boardVars == <<column, rank, created, entry>>

-----------------------------------------------------------------------------
Cards == Items \cup Tasks

\* NULL, which sorts after every rank.
NoRank == RankLimit

Ranks == 0 .. RankLimit - 1

BoardTypeOK ==
    /\ DOMAIN column \subseteq Cards
    /\ column \in [DOMAIN column -> Columns \cup Siblinghoods]
    /\ rank \in [DOMAIN column -> Ranks \cup {NoRank}]
    /\ DOMAIN created \subseteq Cards /\ DOMAIN column \subseteq DOMAIN created
    /\ entry \in [DOMAIN column \cap Items -> [list : Lists, index : Nat]]

-----------------------------------------------------------------------------
(***************************************************************************)
(* Ranks.                                                                  *)
(***************************************************************************)
Precedes(r, c, d) == r[c] < r[d] \/ (r[c] = r[d] /\ created[c] < created[d])

InColumn(k) == {c \in DOMAIN column : column[c] = k}

\* The targets are other cards of the column, and neighbours.
CanPlace(S, before, after) ==
    /\ {before, after} \subseteq S \cup {Nobody}
    /\ Nobody \notin {before, after} =>
         /\ Precedes(rank, after, before)
         /\ \A s \in S \ {before, after} :
                ~(Precedes(rank, after, s) /\ Precedes(rank, s, before))

Ranked(r, c) == c # Nobody /\ (c # Nobody => r[c] # NoRank)

RankFormat(n) == n % RankLimit

\* The cards of S a rank step apart, the others as they are.
Rebalanced(r, S) ==
    [c \in DOMAIN r |->
        IF c \in S THEN RankFormat(RankStep * Cardinality({d \in S : ~Precedes(r, c, d)}))
        ELSE r[c]]

NeedsRoom_NoGap(r, before, after) ==
    /\ Ranked(r, before)
    /\ IF Ranked(r, after) THEN r[before] <= r[after] ELSE r[before] < 1

NeedsRoom(r, before, after) ==
    /\ Ranked(r, before)
    /\ IF Ranked(r, after) THEN r[before] - r[after] <= 1 ELSE r[before] <= 1

\* One step after the last card; an unranked last card counts as 0.
AtEnd(r, S) ==
    LET last == {c \in S : \A d \in S \ {c} : Precedes(r, d, c)}
        top  == IF \E c \in last : Ranked(r, c) THEN r[CHOOSE c \in last : TRUE] ELSE 0
    IN  RankFormat(top + RankStep)

Between(r, S, before, after) ==
    CASE Ranked(r, before) /\ Ranked(r, after) -> (r[before] + r[after]) \div 2
      [] Ranked(r, before) /\ ~Ranked(r, after) -> r[before] \div 2
      [] ~Ranked(r, before) /\ Ranked(r, after) -> RankFormat(r[after] + RankStep)
      [] OTHER -> AtEnd(r, S)

\* The ranks after c is placed among S; all is what a rebalance reads.
Placed(c, S, all, before, after) ==
    LET r == IF NeedsRoom(rank, before, after) THEN Rebalanced(rank, all) ELSE rank
    IN  [r EXCEPT ![c] = Between(r, S, before, after)]

-----------------------------------------------------------------------------
(***************************************************************************)
(* Lists: reorderItems().  It numbers the items of a list from 0, with the *)
(* moving one at the position asked for, or at the end.                    *)
(***************************************************************************)
Earlier(e, i, j) == e[i].index < e[j].index \/ (e[i].index = e[j].index /\ i < j)

InList(e, l) == {i \in DOMAIN e : e[i].list = l}

Reordered(e, l, moving, index) ==
    LET rest  == InList(e, l) \ {moving}
        place(i) == Cardinality({j \in rest : Earlier(e, j, i)})
        n     == Cardinality(rest)
        at    == IF index <= n THEN index ELSE n
    IN  [i \in DOMAIN e |->
            CASE i = moving -> [e[i] EXCEPT !.index = at]
              [] i \in rest ->
                    [e[i] EXCEPT !.index = place(i) + (IF moving # Nobody /\ place(i) >= at THEN 1 ELSE 0)]
              [] OTHER -> e[i]]

-----------------------------------------------------------------------------
\* A card appears, or disappears.
Insert(c, k, n) ==
    /\ c \notin DOMAIN created
    /\ column' = [d \in DOMAIN column \cup {c} |-> IF d = c THEN k ELSE column[d]]
    /\ rank' = [d \in DOMAIN rank \cup {c} |-> IF d = c THEN n ELSE rank[d]]
    /\ created' = [d \in DOMAIN created \cup {c} |->
                      IF d = c THEN Cardinality(DOMAIN created) ELSE created[d]]

Remove(S, r) ==
    /\ column' = [d \in DOMAIN column \ S |-> column[d]]
    /\ rank' = [d \in DOMAIN column \ S |-> r[d]]
    /\ UNCHANGED created

With(i, l, index) ==
    [j \in DOMAIN entry \cup {i} |->
        IF j = i THEN [list |-> l, index |-> index] ELSE entry[j]]

(***************************************************************************)
(* The items and tasks of a project that has just been created: an item of *)
(* a new task has the index and the rank its request gave, in any order.   *)
(***************************************************************************)
BoardInit ==
    \E S \in SUBSET Items :
        /\ column \in [S -> Columns]
        /\ rank \in [S -> GivenRanks \cup {NoRank}]
        /\ created \in [S -> 0 .. Cardinality(S) - 1]
        /\ \A i, j \in S : i # j => created[i] # created[j]
        /\ entry \in [S -> [list : Lists, index : 0 .. MaxIndex]]

-----------------------------------------------------------------------------
(***************************************************************************)
(* Checklist items.                                                        *)
(***************************************************************************)
\* addItem(): the new item is listed first unless a position is given.
AddItem(i, l, k, index, n) ==
    /\ Insert(i, k, n)
    /\ entry' = Reordered(With(i, l, 0), l, i, index)

\* createParentChecklistItemForSubtask() and seeds: at the end, unranked.
AppendItem(i, l, k) ==
    /\ Insert(i, k, NoRank)
    /\ entry' = With(i, l, Cardinality(InList(entry, l)))

\* persistAuthorizedTransition(): the rank is kept only if nothing was asked.
MoveItem(i, k, before, after) ==
    LET S == InColumn(k) \ {i} IN
    /\ i \in DOMAIN column
    /\ column' = [column EXCEPT ![i] = k]
    /\ IF Nobody = before /\ Nobody = after /\ column[i] = k /\ Ranked(rank, i)
       THEN UNCHANGED rank
       ELSE /\ CanPlace(S, before, after)
            /\ rank' = Placed(i, S, InColumn(k), before, after)
    /\ UNCHANGED <<created, entry>>

\* updateItem() with orderIndex, and with rank.
UpdateIndex(i, index) ==
    /\ i \in DOMAIN entry
    /\ entry' = Reordered(With(i, entry[i].list, index), entry[i].list, i, index)
    /\ UNCHANGED <<column, rank, created>>

UpdateRank(i, n) ==
    /\ i \in DOMAIN entry
    /\ rank' = [rank EXCEPT ![i] = n]
    /\ UNCHANGED <<column, created, entry>>

DeleteItem(i) ==
    /\ i \in DOMAIN entry
    /\ Remove({i}, rank)
    /\ entry' = Reordered([j \in DOMAIN entry \ {i} |-> entry[j]], entry[i].list, Nobody, 0)

\* rollupStatuses(): a branched item, or a task, takes another status, and
\* keeps the rank it had in the old column.
RollUp(c, k) ==
    /\ c \in DOMAIN column
    /\ column' = [column EXCEPT ![c] = k]
    /\ UNCHANGED <<rank, created, entry>>

-----------------------------------------------------------------------------
(***************************************************************************)
(* Tasks.                                                                  *)
(***************************************************************************)
\* createTask(), branchItem() and the tasks of a package.
CreateTask(t, k) ==
    /\ Insert(t, k, AtEnd(rank, InColumn(k)))
    /\ UNCHANGED entry

\* A schedule import creates tasks without a rank.
ImportTask(t, k) == Insert(t, k, NoRank) /\ UNCHANGED entry

\* bulkUpdateTasks() with a parent, be it the same.
ReparentTask(t, k) ==
    /\ t \in DOMAIN column
    /\ rank' = Placed(t, InColumn(k) \ {t}, InColumn(k) \ {t}, Nobody, Nobody)
    /\ column' = [column EXCEPT ![t] = k]
    /\ UNCHANGED <<created, entry>>

\* deleteTask(): descendants are in other columns; its own is rebalanced.
DeleteTask(t, S) ==
    /\ t \in DOMAIN column /\ S \subseteq DOMAIN column \ InColumn(column[t])
    /\ Remove(S \cup {t}, Rebalanced(rank, InColumn(column[t]) \ {t}))
    /\ UNCHANGED entry

-----------------------------------------------------------------------------
ItemsNext ==
    \E i \in Items, k \in Columns :
        \/ \E l \in Lists, index \in 0 .. MaxIndex, n \in GivenRanks \cup {NoRank} :
               AddItem(i, l, k, index, n)
        \/ \E l \in Lists : AppendItem(i, l, k)
        \/ \E before, after \in Items \cup {Nobody} : MoveItem(i, k, before, after)
        \/ \E index \in 0 .. MaxIndex : UpdateIndex(i, index)
        \/ \E n \in GivenRanks \cup {NoRank} : UpdateRank(i, n)
        \/ DeleteItem(i)
        \/ RollUp(i, k)

TasksNext ==
    \E t \in Tasks, k \in Siblinghoods :
        \/ CreateTask(t, k)
        \/ ImportTask(t, k)
        \/ ReparentTask(t, k)
        \/ \E S \in SUBSET (Tasks \ {t}) : DeleteTask(t, S)
        \/ RollUp(t, k)

BoardNext == ItemsNext \/ TasksNext

BoardSpec == BoardInit /\ [][BoardNext]_boardVars

-----------------------------------------------------------------------------
(***************************************************************************)
(* A card goes where it was asked to be, in whatever order the board is.   *)
(* A moved item stands before the card it was to stand before, and after   *)
(* the one it was to stand after when that one has a rank and the ranks do *)
(* not run out; a new or reparented task is last, unless the last one has  *)
(* no rank; an item is listed at the position asked for, as far as the     *)
(* list is that long.  Whatever is rebalanced or renumbered for this, the  *)
(* other cards keep their order.                                           *)
(***************************************************************************)
KeepsOrder(S, r) ==
    \A c, d \in S : c # d => (Precedes(rank, c, d) <=> Precedes(r, c, d))

MovedAsAsked ==
    \A i \in DOMAIN entry, k \in Columns, before, after \in DOMAIN entry \cup {Nobody} :
        LET S == InColumn(k) \ {i}
            r == Placed(i, S, InColumn(k), before, after)
        IN  CanPlace(S, before, after) =>
                /\ before # Nobody => Precedes(r, i, before)
                /\ Ranked(rank, after) /\ rank[after] + RankStep < RankLimit
                     => Precedes(r, after, i)
                /\ KeepsOrder(S, r)

LastAsAsked ==
    \A t \in DOMAIN column \cap Tasks, k \in Siblinghoods :
        LET S == InColumn(k) \ {t}
            r == Placed(t, S, S, Nobody, Nobody)
        IN  /\ (\A c \in S : rank[c] + RankStep < RankLimit) => \A c \in S : Precedes(r, c, t)
            /\ KeepsOrder(S, r)
            /\ KeepsOrder(S, Rebalanced(rank, S))

ListedAsAsked ==
    \A i \in DOMAIN entry, index \in 0 .. MaxIndex :
        LET S == InList(entry, entry[i].list) \ {i}
            e == Reordered(entry, entry[i].list, i, index)
        IN  /\ e[i].index \in {index, Cardinality(S)}
            /\ e[i].index = Cardinality({j \in S : Earlier(e, j, i)})
            /\ \A j \in S : e[j].index # e[i].index
            /\ \A j, k \in S : Earlier(entry, j, k) => e[j].index < e[k].index

PlacedAsAsked == MovedAsAsked /\ LastAsAsked /\ ListedAsAsked

=============================================================================
