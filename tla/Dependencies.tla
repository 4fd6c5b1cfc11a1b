---------------------------- MODULE Dependencies ----------------------------
(***************************************************************************)
(* What depends on what, and what is related to what.                      *)
(*   src/src/tasks/services/task-relations.service.ts                      *)
(*   src/src/tasks/services/task-crud.service.ts (createTask, updateTask)  *)
(*   src/src/tasks/services/task-checklist.service.ts (updateItem)         *)
(* A handler that adds or changes one dependency of a task checks for a    *)
(* cycle and saves later: it holds no lock.  updateTask() replaces all the *)
(* dependencies of a task in a transaction under the workflow lock, which  *)
(* keeps out other updates but not those handlers.  The dependencies of a  *)
(* checklist item are replaced under the lock, in one step.  Types, lags   *)
(* and authorization are left out.                                         *)
(***************************************************************************)
EXTENDS Naturals, FiniteSets

CONSTANTS
    Nodes,          \* tasks
    Points,         \* checklist items
    RowIds,         \* bound: the rows of task_dependencies at one time
    Linkers         \* requests to the server at one time

VARIABLES
    live,           \* tasks that are not deleted
    dependency,     \* task_dependencies: the rows by their id
    related,        \* task_relations
    pointLinks,     \* checklist_dependencies
    linking,        \* what each handler is about to save
    outrun          \* whether one saved after others changed what it checked

linkVars == <<live, dependency, related, pointLinks, linking, outrun>>

-----------------------------------------------------------------------------
Pair == Nodes \X Nodes

\* A row: the task, and the task it depends on.
Rows == UNION {[I -> Pair] : I \in SUBSET RowIds}

Unlinked == [phase |-> "idle", gone |-> {}, new |-> <<>>, pair |-> <<>>, fresh |-> TRUE]

LinksTypeOK ==
    /\ live \subseteq Nodes
    /\ dependency \in Rows
    /\ related \subseteq Pair
    /\ pointLinks \subseteq Points \X Points
    /\ \A c \in Linkers : linking[c].phase \in {"idle", "loaded", "checked", "related", "replacing"}
    /\ outrun \in BOOLEAN

-----------------------------------------------------------------------------
Edges(rows) == {rows[i] : i \in DOMAIN rows}

(***************************************************************************)
(* ensureNoDependencyCycle(): what the search from u visits is the least   *)
(* set that holds u and all that its members depend on.                    *)
(***************************************************************************)
ClosedUnder(E, S) == \A e \in E : e[1] \in S => e[2] \in S

Reaches_OneStep(E, N, u, t) == u = t \/ <<u, t>> \in E

Reaches(E, N, u, t) == \A S \in SUBSET N : u \in S /\ ClosedUnder(E, S) => t \in S

\* The rows, without those of gone, and with the new ones.
WithRows(rows, gone, new) ==
    [i \in (DOMAIN rows \ gone) \cup DOMAIN new |-> IF i \in DOMAIN new THEN new[i] ELSE rows[i]]

\* The ids nobody uses.
FreeIds == RowIds \ (DOMAIN dependency \cup UNION {DOMAIN linking[c].new : c \in Linkers})

\* One row each for t on the members of S.
NewRows(t, S) ==
    {new \in UNION {[I -> {t} \X S] : I \in SUBSET FreeIds} :
        Cardinality(DOMAIN new) = Cardinality(S) /\ Edges(new) = {t} \X S}

\* Others have changed what these handlers have checked.
Outdated(changed) ==
    [c \in Linkers |-> IF changed /\ linking[c].phase # "idle"
                       THEN [linking[c] EXCEPT !.fresh = FALSE] ELSE linking[c]]

Finished(c, changed) == [Outdated(changed) EXCEPT ![c] = Unlinked]

-----------------------------------------------------------------------------
LinksInit ==
    /\ live \in SUBSET Nodes
    /\ dependency = <<>> /\ related = {} /\ pointLinks = {}
    /\ linking = [c \in Linkers |-> Unlinked]
    /\ outrun = FALSE

(***************************************************************************)
(* createTask() and deleteTask(): nobody depends on a new task yet, and    *)
(* the dependencies of a deleted one stay.                                 *)
(***************************************************************************)
CreateWithDependencies(t, S) ==
    /\ t \notin live /\ S \subseteq live
    /\ \A e \in Edges(dependency) \cup related : t \notin {e[1], e[2]}
    /\ \A c \in Linkers : linking[c].phase = "idle"
    /\ \E new \in NewRows(t, S) : dependency' = WithRows(dependency, {}, new)
    /\ live' = live \cup {t}
    /\ UNCHANGED <<related, pointLinks, linking, outrun>>

DeleteNode(t) ==
    /\ t \in live
    /\ live' = live \ {t}
    /\ UNCHANGED <<dependency, related, pointLinks, linking, outrun>>

-----------------------------------------------------------------------------
(***************************************************************************)
(* Dependencies.  A handler's check is a step, and its save another.       *)
(***************************************************************************)
Check(c, phase, gone, new) ==
    /\ linking' = [linking EXCEPT ![c] =
                      [Unlinked EXCEPT !.phase = phase, !.gone = gone, !.new = new]]
    /\ UNCHANGED <<live, dependency, related, pointLinks, outrun>>

\* addDependency(): one that exists is returned as it is.
AddDependency(c, t, u) ==
    /\ linking[c].phase = "idle"
    /\ {t, u} \subseteq live
    /\ <<t, u>> \notin Edges(dependency)
    /\ t # u /\ ~Reaches(Edges(dependency), Nodes, u, t)
    /\ \E new \in NewRows(t, {u}) : Check(c, "checked", {}, new)

\* updateDependency(): the row is loaded before the transaction; if it is to
\* depend on another task this is checked in it.
LoadDependency(c, i, u) ==
    /\ linking[c].phase = "idle"
    /\ i \in DOMAIN dependency /\ dependency[i][1] \in live /\ u \in live
    /\ Check(c, IF u = dependency[i][2] THEN "checked" ELSE "loaded", {},
             [j \in {i} |-> <<dependency[i][1], u>>])

RecheckDependency(c) ==
    /\ linking[c].phase = "loaded"
    /\ LET new == linking[c].new IN
       \E i \in DOMAIN new :
           LET t == new[i][1]
               u == new[i][2]
           IN  IF /\ \A j \in DOMAIN dependency : dependency[j] = <<t, u>> => j = i
                  /\ t # u /\ ~Reaches(Edges(dependency), Nodes, u, t)
               THEN Check(c, "checked", {}, new)
               ELSE Check(c, "idle", {}, <<>>)

\* updateTask(): the dependencies of t become the ones on S.
ReplaceDependencies(c, t, S) ==
    LET keep == {i \in DOMAIN dependency : dependency[i][1] = t /\ dependency[i][2] \in S}
        gone == {i \in DOMAIN dependency : dependency[i][1] = t} \ keep
        fresh == S \ {dependency[i][2] : i \in keep}
        E == Edges([i \in DOMAIN dependency \ gone |-> dependency[i]])
    IN  /\ linking[c].phase = "idle" /\ t \in live /\ S \subseteq live
        /\ \A d \in Linkers : linking[d].phase # "replacing"
        /\ \A u \in fresh : t # u /\ ~Reaches(E, Nodes, u, t)
        /\ \E new \in NewRows(t, fresh) : Check(c, "replacing", gone, new)

\* The save: it inserts a row again that others have deleted, and fails if
\* another row says the same.
SaveDependencies(c) ==
    LET rows == WithRows(dependency, linking[c].gone, linking[c].new) IN
    /\ linking[c].phase \in {"checked", "replacing"}
    /\ IF \E i, j \in DOMAIN rows : i # j /\ rows[i] = rows[j]
       THEN /\ linking' = [linking EXCEPT ![c] = Unlinked]
            /\ UNCHANGED <<dependency, outrun>>
       ELSE /\ dependency' = rows
            /\ linking' = Finished(c, rows # dependency)
            /\ outrun' = (outrun \/ ~linking[c].fresh)
    /\ UNCHANGED <<live, related, pointLinks>>

DeleteDependency(i) ==
    /\ i \in DOMAIN dependency
    /\ dependency' = WithRows(dependency, {i}, <<>>)
    /\ linking' = Outdated(TRUE)
    /\ UNCHANGED <<live, related, pointLinks, outrun>>

-----------------------------------------------------------------------------
(***************************************************************************)
(* Relations, which have no direction for the check, and one for the       *)
(* table: its unique constraint is on the pair.                            *)
(***************************************************************************)
AddRelation(c, t, u) ==
    /\ linking[c].phase = "idle"
    /\ t # u /\ {t, u} \subseteq live
    /\ {<<t, u>>, <<u, t>>} \cap related = {}
    /\ linking' = [linking EXCEPT ![c] = [Unlinked EXCEPT !.phase = "related", !.pair = <<t, u>>]]
    /\ UNCHANGED <<live, dependency, related, pointLinks, outrun>>

SaveRelation(c) ==
    /\ linking[c].phase = "related"
    /\ IF linking[c].pair \in related
       THEN /\ linking' = [linking EXCEPT ![c] = Unlinked]
            /\ UNCHANGED <<related, outrun>>
       ELSE /\ related' = related \cup {linking[c].pair}
            /\ linking' = Finished(c, TRUE)
            /\ outrun' = (outrun \/ ~linking[c].fresh)
    /\ UNCHANGED <<live, dependency, pointLinks>>

DeleteRelation(p) ==
    /\ p \in related
    /\ related' = related \ {p}
    /\ linking' = Outdated(TRUE)
    /\ UNCHANGED <<live, dependency, pointLinks, outrun>>

-----------------------------------------------------------------------------
(***************************************************************************)
(* Checklist items.  The search is over the edges of the whole project,    *)
(* those of the item that are about to go included.                        *)
(***************************************************************************)
ReplacePointLinks(i, S) ==
    /\ i \notin S
    /\ \A j \in S : ~Reaches(pointLinks, Points, j, i)
    /\ pointLinks' = {e \in pointLinks : e[1] # i} \cup ({i} \X S)
    /\ UNCHANGED <<live, dependency, related, linking, outrun>>

\* The rows about a deleted item go with it.
DeletePoint(i) ==
    /\ pointLinks' = {e \in pointLinks : i \notin {e[1], e[2]}}
    /\ UNCHANGED <<live, dependency, related, linking, outrun>>

-----------------------------------------------------------------------------
DependenciesNext ==
    \/ \E t \in Nodes, S \in SUBSET Nodes : CreateWithDependencies(t, S)
    \/ \E t \in Nodes : DeleteNode(t)
    \/ \E i \in RowIds : DeleteDependency(i)
    \/ \E c \in Linkers :
          \/ \E t, u \in Nodes : AddDependency(c, t, u)
          \/ \E i \in RowIds, u \in Nodes : LoadDependency(c, i, u)
          \/ \E t \in Nodes, S \in SUBSET Nodes : ReplaceDependencies(c, t, S)
          \/ RecheckDependency(c) \/ SaveDependencies(c)

RelationsNext ==
    \/ \E p \in Pair : DeleteRelation(p)
    \/ \E c \in Linkers :
          \/ \E t, u \in Nodes : AddRelation(c, t, u)
          \/ SaveRelation(c)

PointsNext ==
    \E i \in Points : DeletePoint(i) \/ \E S \in SUBSET Points : ReplacePointLinks(i, S)

LinksNext == DependenciesNext \/ RelationsNext \/ PointsNext

LinksSpec == LinksInit /\ [][LinksNext]_linkVars

-----------------------------------------------------------------------------
\* In every set of nodes some node depends on none of the set.
Acyclic(E, N) == \A S \in SUBSET N : S # {} => \E n \in S : \A m \in S : <<n, m>> \notin E

(***************************************************************************)
(* Nothing depends on itself through others: never so for checklist items, *)
(* whose dependencies are replaced under the lock, and not for tasks while *)
(* no handler has saved after the tables changed under its check.  Two     *)
(* tasks are then also related once, whichever of them was asked.          *)
(***************************************************************************)
LinksAreSound ==
    /\ Acyclic(pointLinks, Points)
    /\ ~outrun => /\ Acyclic(Edges(dependency), Nodes)
                  /\ \A p \in related : p[1] # p[2] /\ <<p[2], p[1]>> \notin related
=============================================================================
