--------------------------- MODULE PlanningProofs ---------------------------
(***************************************************************************)
(* What surrounds the work on tasks keeps what it promises, whatever the   *)
(* tasks, the items, the requests and the sheets are: dependencies and     *)
(* relations, the codes that imports and users give and the tree they      *)
(* make, the order of the cards, who may do what to a task, and what the   *)
(* reads show of it.                                                       *)
(*                                                                         *)
(* The argument about cycles needs no path.  If u does not reach t, some   *)
(* set that is closed under the edges holds u and not t.  Of a set of      *)
(* nodes with t and u, the part inside that closed set has a sink, and it  *)
(* is a sink of the whole: its edges stay inside, and the new edges start  *)
(* at t, outside.  The invariant then says of each handler that has passed *)
(* its check, and under whom nothing has changed, that what it is about to *)
(* save is free of cycles, too.                                            *)
(***************************************************************************)
EXTENDS FiniteSets, Functions, Dependencies, ScheduleImport, Board, TaskReads,
        FiniteSetTheorems, WellFoundedInduction, TLAPS

-----------------------------------------------------------------------------
(***************************************************************************)
(* Graphs.                                                                 *)
(***************************************************************************)
\* Fewer edges make no cycle.
LEMMA FewerEdges ==
    ASSUME NEW N, NEW E, NEW D, Acyclic(E, N), D \subseteq E
    PROVE  Acyclic(D, N)
BY DEF Acyclic

\* A new node may depend on, or an old one may come to depend on, nodes that do
\* not reach it.
LEMMA SafeEdges ==
    ASSUME NEW N, NEW E, NEW t, NEW S,
           Acyclic(E, N), t \notin S, \A u \in S : ~Reaches(E, N, u, t)
    PROVE  Acyclic(E \cup ({t} \X S), N)
<1> DEFINE D == E \cup ({t} \X S)
<1> SUFFICES ASSUME NEW Q \in SUBSET N, Q # {}
             PROVE  \E n \in Q : \A m \in Q : <<n, m>> \notin D
    BY DEF Acyclic
<1>1. CASE t \notin Q
    <2>1. PICK n \in Q : \A m \in Q : <<n, m>> \notin E
        BY DEF Acyclic
    <2> QED BY <1>1, <2>1
<1>2. CASE t \in Q /\ S \cap Q = {}
    <2>1. \A m \in Q : m \notin S
        BY <1>2
    <2>2. PICK n \in Q : \A m \in Q : <<n, m>> \notin E
        BY DEF Acyclic
    <2> QED BY <2>1, <2>2
<1>3. CASE \E u \in S : u \in Q
    <2>1. PICK u \in S : u \in Q
        BY <1>3
    <2>2. PICK T \in SUBSET N : u \in T /\ ClosedUnder(E, T) /\ t \notin T
        BY DEF Reaches
    <2>3. PICK n \in Q \cap T : \A m \in Q \cap T : <<n, m>> \notin E
        BY <2>1, <2>2 DEF Acyclic
    <2>4. \A m \in Q : <<n, m>> \notin E
        <3> SUFFICES ASSUME NEW m \in Q, <<n, m>> \in E PROVE FALSE
            OBVIOUS
        <3>1. m \in T
            BY <2>2 DEF ClosedUnder
        <3> QED BY <3>1, <2>3
    <2>5. n # t
        BY <2>2
    <2> QED BY <2>4, <2>5
<1> QED BY <1>1, <1>2, <1>3

\* What is saved has no edges but those that stay and the new ones.
LEMMA EdgesSaved ==
    ASSUME NEW rows, NEW gone, NEW new
    PROVE  Edges(WithRows(rows, gone, new))
               \subseteq Edges([i \in DOMAIN rows \ gone |-> rows[i]]) \cup Edges(new)
BY DEF Edges, WithRows

\* To delete rows makes no edge.
LEMMA EdgesKept ==
    ASSUME NEW rows, NEW gone
    PROVE  Edges([i \in DOMAIN rows \ gone |-> rows[i]]) \subseteq Edges(rows)
BY DEF Edges

-----------------------------------------------------------------------------
(***************************************************************************)
(* Checklist items: their dependencies are replaced in one step, so there  *)
(* is never a cycle, whatever requests come.                               *)
(***************************************************************************)
THEOREM PointsAreAcyclicAlways == LinksSpec => []Acyclic(pointLinks, Points)
<1> DEFINE Inv == Acyclic(pointLinks, Points)
<1>1. LinksInit => Inv
    BY DEF LinksInit, Acyclic
<1>2. Inv /\ [LinksNext]_linkVars => Inv'
    <2> SUFFICES ASSUME Inv, [LinksNext]_linkVars PROVE Inv'
        OBVIOUS
    <2>1. CASE UNCHANGED pointLinks
        BY <2>1 DEF Acyclic
    <2>2. ASSUME NEW i \in Points, NEW S \in SUBSET Points, ReplacePointLinks(i, S)
          PROVE  Inv'
        <3>1. Acyclic(pointLinks \cup ({i} \X S), Points)
            BY <2>2, SafeEdges DEF ReplacePointLinks
        <3>2. pointLinks' \subseteq pointLinks \cup ({i} \X S)
            BY <2>2 DEF ReplacePointLinks
        <3> QED BY <3>1, <3>2, FewerEdges
    <2>3. ASSUME NEW i \in Points, DeletePoint(i)
          PROVE  Inv'
        <3>1. pointLinks' \subseteq pointLinks
            BY <2>3 DEF DeletePoint
        <3> QED BY <3>1, FewerEdges
    <2>4. CASE DependenciesNext
        BY <2>1, <2>4 DEF DependenciesNext, CreateWithDependencies, DeleteNode, DeleteDependency,
            AddDependency, LoadDependency, ReplaceDependencies, RecheckDependency,
            SaveDependencies, Check
    <2>5. CASE RelationsNext
        BY <2>1, <2>5 DEF RelationsNext, DeleteRelation, AddRelation, SaveRelation
    <2>6. CASE PointsNext
        BY <2>2, <2>3, <2>6 DEF PointsNext
    <2>7. CASE UNCHANGED linkVars
        BY <2>1, <2>7 DEF linkVars
    <2> QED BY <2>4, <2>5, <2>6, <2>7 DEF LinksNext
<1> QED BY <1>1, <1>2, PTL DEF LinksSpec

-----------------------------------------------------------------------------
(***************************************************************************)
(* Tasks: what a handler has in hand, and what it will save.               *)
(***************************************************************************)
Tables == UNION {[I -> Pair] : I \in SUBSET RowIds}

Handlers ==
    [phase : {"idle", "loaded", "checked", "related", "replacing"}, gone : SUBSET RowIds,
     new : Tables, pair : Pair \cup {<<>>}, fresh : BOOLEAN]

LinksType ==
    /\ live \subseteq Nodes
    /\ dependency \in Tables
    /\ related \subseteq Pair
    /\ linking \in [Linkers -> Handlers]
    /\ outrun \in BOOLEAN

\* One row is loaded, to be changed; a relation is between two tasks.
InHand(h) ==
    /\ h.phase = "loaded" => \E i \in RowIds : DOMAIN h.new = {i}
    /\ h.phase = "related" => h.pair \in Pair

\* What was checked still holds of the tables.
StillSafe(h, rows, pairs) ==
    h.fresh =>
        /\ h.phase \in {"checked", "replacing"} =>
              Acyclic(Edges(WithRows(rows, h.gone, h.new)), Nodes)
        /\ h.phase = "related" =>
              /\ h.pair[1] # h.pair[2]
              /\ <<h.pair[2], h.pair[1]>> \notin pairs

OneWay(pairs) == \A p \in pairs : p[1] # p[2] /\ <<p[2], p[1]>> \notin pairs

LinksInv ==
    /\ LinksType
    /\ \A c \in Linkers : InHand(linking[c])
    /\ ~outrun => /\ \A c \in Linkers : StillSafe(linking[c], dependency, related)
                  /\ Acyclic(Edges(dependency), Nodes)
                  /\ OneWay(related)

\* An empty table is a table.
LEMMA NoRows == <<>> \in Tables /\ DOMAIN <<>> = {}
<1>1. DOMAIN <<>> = {}
    OBVIOUS
<1>2. <<>> \in [{} -> Pair]
    OBVIOUS
<1> QED BY <1>1, <1>2 DEF Tables

\* A handler that has nothing to save has the type of one.
LEMMA UnlinkedType == Unlinked \in Handlers /\ InHand(Unlinked)
BY NoRows DEF Unlinked, Handlers, InHand

\* What is saved is a table again.
LEMMA RowsType ==
    ASSUME NEW rows \in Tables, NEW gone, NEW new \in Tables
    PROVE  WithRows(rows, gone, new) \in Tables
<1> DEFINE I == (DOMAIN rows \ gone) \cup DOMAIN new
<1>1. I \in SUBSET RowIds
    BY DEF Tables
<1>2. WithRows(rows, gone, new) \in [I -> Pair]
    BY DEF Tables, WithRows
<1> QED BY <1>1, <1>2 DEF Tables

\* The rows made for a task are a table, and their edges are the ones asked for.
LEMMA NewRowsType ==
    ASSUME NEW t \in Nodes, NEW S \in SUBSET Nodes, NEW new \in NewRows(t, S)
    PROVE  new \in Tables /\ Edges(new) = {t} \X S
<1>1. PICK I \in SUBSET FreeIds : new \in [I -> {t} \X S]
    BY DEF NewRows
<1>2. I \in SUBSET RowIds
    BY DEF FreeIds
<1>3. new \in [I -> Pair]
    BY <1>1 DEF Pair
<1> QED BY <1>2, <1>3 DEF Tables, NewRows

\* The handlers after one of them, or a delete, has changed the tables or not.
LEMMA OutdatedHandlers ==
    ASSUME linking \in [Linkers -> Handlers], \A c \in Linkers : InHand(linking[c]),
           NEW changed \in BOOLEAN
    PROVE  /\ Outdated(changed) \in [Linkers -> Handlers]
           /\ \A c \in Linkers : InHand(Outdated(changed)[c])
           /\ changed => \A c \in Linkers :
                  \A rows, pairs : StillSafe(Outdated(changed)[c], rows, pairs)
           /\ ~changed => Outdated(changed) = linking
<1> DEFINE h(c) == IF changed /\ linking[c].phase # "idle"
                   THEN [linking[c] EXCEPT !.fresh = FALSE] ELSE linking[c]
<1>1. ASSUME NEW c \in Linkers
      PROVE  /\ h(c) \in Handlers /\ h(c).phase = linking[c].phase /\ h(c).new = linking[c].new
             /\ h(c).pair = linking[c].pair
             /\ changed => ~h(c).fresh \/ h(c).phase = "idle"
    BY DEF Handlers
<1>2. \A c \in Linkers : Outdated(changed)[c] = h(c)
    BY DEF Outdated
<1>3. Outdated(changed) \in [Linkers -> Handlers]
    BY <1>1 DEF Outdated
<1>4. ASSUME NEW c \in Linkers
      PROVE  InHand(Outdated(changed)[c])
    <2>1. /\ Outdated(changed)[c].phase = linking[c].phase
          /\ Outdated(changed)[c].new = linking[c].new
          /\ Outdated(changed)[c].pair = linking[c].pair
        BY <1>1, <1>2
    <2>2. InHand(linking[c])
        OBVIOUS
    <2> QED BY <2>1, <2>2 DEF InHand
<1>5. changed => \A c \in Linkers : \A rows, pairs : StillSafe(Outdated(changed)[c], rows, pairs)
    BY <1>1, <1>2 DEF StillSafe
<1>6. ~changed => Outdated(changed) = linking
    BY DEF Outdated
<1> QED BY <1>3, <1>4, <1>5, <1>6

\* An idle handler has nothing to keep.
LEMMA UnlinkedIsSafe == \A rows, pairs : StillSafe(Unlinked, rows, pairs)
BY DEF StillSafe, Unlinked

\* A handler that is done, or that found nothing to do.
LEMMA Unlinks ==
    ASSUME LinksInv, NEW c \in Linkers, linking' = [linking EXCEPT ![c] = Unlinked],
           UNCHANGED <<live, dependency, related, outrun>>
    PROVE  LinksInv'
<1>1. linking' \in [Linkers -> Handlers] /\ \A d \in Linkers : InHand(linking'[d])
    BY UnlinkedType DEF LinksInv, LinksType
<1>2. ~outrun => \A d \in Linkers : StillSafe(linking'[d], dependency, related)
    BY UnlinkedIsSafe DEF LinksInv, LinksType
<1> QED BY <1>1, <1>2 DEF LinksInv, LinksType

\* A check that has found nothing against a change.
LEMMA Checks ==
    ASSUME LinksInv, NEW c \in Linkers, NEW phase \in {"idle", "loaded", "checked", "replacing"},
           NEW gone \in SUBSET RowIds, NEW new \in Tables,
           Check(c, phase, gone, new),
           phase = "loaded" => \E i \in RowIds : DOMAIN new = {i},
           ~outrun /\ phase \in {"checked", "replacing"} =>
               Acyclic(Edges(WithRows(dependency, gone, new)), Nodes)
    PROVE  LinksInv'
<1> DEFINE h == [Unlinked EXCEPT !.phase = phase, !.gone = gone, !.new = new]
<1>1. /\ h \in Handlers
      /\ h.phase = phase /\ h.gone = gone /\ h.new = new
    BY UnlinkedType DEF Handlers
<1>2. InHand(h) /\ (~outrun => StillSafe(h, dependency, related))
    BY <1>1 DEF InHand, StillSafe
<1>3. linking' = [linking EXCEPT ![c] = h] /\ UNCHANGED <<live, dependency, related, outrun>>
    BY DEF Check
<1> HIDE DEF h
<1> QED BY <1>1, <1>2, <1>3 DEF LinksInv, LinksType

-----------------------------------------------------------------------------
(***************************************************************************)
(* The actions.                                                            *)
(***************************************************************************)
\* createTask(): nothing depends on the new task, so it is reached from nowhere.
LEMMA CreateKeeps ==
    ASSUME LinksInv, NEW t \in Nodes, NEW S \in SUBSET Nodes, CreateWithDependencies(t, S)
    PROVE  LinksInv'
<1>1. PICK new \in NewRows(t, S) : dependency' = WithRows(dependency, {}, new)
    BY DEF CreateWithDependencies
<1>2. new \in Tables /\ Edges(new) = {t} \X S
    BY NewRowsType
<1>3. dependency' \in Tables
    BY <1>1, <1>2, RowsType DEF LinksInv, LinksType
<1>4. UNCHANGED <<related, linking, outrun>> /\ live' \subseteq Nodes
    BY DEF CreateWithDependencies, LinksInv, LinksType
<1>5. \A c \in Linkers : \A rows, pairs : StillSafe(linking[c], rows, pairs)
    BY DEF StillSafe, CreateWithDependencies
<1>6. ASSUME Acyclic(Edges(dependency), Nodes)
      PROVE  Acyclic(Edges(dependency'), Nodes)
    <2> DEFINE T == Nodes \ {t}
    <2>1. Edges(dependency) \subseteq Pair
        BY DEF LinksInv, LinksType, Tables, Edges
    <2>2. ClosedUnder(Edges(dependency), T)
        BY <2>1 DEF ClosedUnder, Pair, CreateWithDependencies
    <2>3. t \notin S
        BY DEF CreateWithDependencies
    <2>4. \A u \in S : ~Reaches(Edges(dependency), Nodes, u, t)
        BY <2>2, <2>3 DEF Reaches
    <2>5. Acyclic(Edges(dependency) \cup ({t} \X S), Nodes)
        BY <1>6, <2>3, <2>4, SafeEdges
    <2>6. Edges(WithRows(dependency, {}, new)) \subseteq Edges(dependency) \cup ({t} \X S)
        BY <1>2, EdgesSaved, EdgesKept
    <2>7. Acyclic(Edges(WithRows(dependency, {}, new)), Nodes)
        BY <2>5, <2>6, FewerEdges
    <2> QED BY <1>1, <2>7
<1> QED BY <1>3, <1>4, <1>5, <1>6 DEF LinksInv, LinksType

\* addDependency(): the check leaves a save that makes no cycle.
LEMMA AddKeeps ==
    ASSUME LinksInv, NEW c \in Linkers, NEW t \in Nodes, NEW u \in Nodes, AddDependency(c, t, u)
    PROVE  LinksInv'
<1>1. PICK new \in NewRows(t, {u}) : Check(c, "checked", {}, new)
    BY DEF AddDependency
<1>2. new \in Tables /\ Edges(new) = {t} \X {u}
    BY NewRowsType
<1>3. ASSUME ~outrun
      PROVE  Acyclic(Edges(WithRows(dependency, {}, new)), Nodes)
    <2>1. Acyclic(Edges(dependency) \cup ({t} \X {u}), Nodes)
        BY <1>3, SafeEdges DEF LinksInv, AddDependency
    <2>2. Edges(WithRows(dependency, {}, new)) \subseteq Edges(dependency) \cup ({t} \X {u})
        BY <1>2, EdgesSaved, EdgesKept
    <2> QED BY <2>1, <2>2, FewerEdges
<1> QED BY <1>1, <1>2, <1>3, Checks

\* updateDependency() without another task changes no edge.
LEMMA LoadKeeps ==
    ASSUME LinksInv, NEW c \in Linkers, NEW i \in RowIds, NEW u \in Nodes, LoadDependency(c, i, u)
    PROVE  LinksInv'
<1> DEFINE phase == IF u = dependency[i][2] THEN "checked" ELSE "loaded"
           new == [j \in {i} |-> <<dependency[i][1], u>>]
<1>1. Check(c, phase, {}, new) /\ i \in DOMAIN dependency
    BY DEF LoadDependency
<1>2. dependency[i] \in Pair
    BY <1>1 DEF LinksInv, LinksType, Tables
<1>3. new \in Tables /\ DOMAIN new = {i}
    <2>1. <<dependency[i][1], u>> \in Pair
        BY <1>2 DEF Pair
    <2>2. new \in [{i} -> Pair]
        BY <2>1
    <2>3. {i} \in SUBSET RowIds
        OBVIOUS
    <2> QED BY <2>2, <2>3 DEF Tables
<1>4. ASSUME ~outrun, phase \in {"checked", "replacing"}
      PROVE  Acyclic(Edges(WithRows(dependency, {}, new)), Nodes)
    <2>1. dependency[i] = <<dependency[i][1], u>>
        BY <1>2, <1>4 DEF Pair
    <2>2. Edges(new) \subseteq Edges(dependency)
        BY <1>1, <2>1 DEF Edges
    <2>3. Edges(WithRows(dependency, {}, new)) \subseteq Edges(dependency)
        BY <2>2, EdgesSaved, EdgesKept
    <2> QED BY <1>4, <2>3, FewerEdges DEF LinksInv
<1>5. phase \in {"checked", "loaded"}
    OBVIOUS
<1> HIDE DEF phase, new
<1> QED BY <1>1, <1>3, <1>4, <1>5, Checks

\* updateDependency() with another task: the old edge is still in the table it checks.
LEMMA RecheckKeeps ==
    ASSUME LinksInv, NEW c \in Linkers, RecheckDependency(c)
    PROVE  LinksInv'
<1> DEFINE new == linking[c].new
<1>1. PICK i \in DOMAIN new :
          IF /\ \A j \in DOMAIN dependency : dependency[j] = <<new[i][1], new[i][2]>> => j = i
             /\ new[i][1] # new[i][2] /\ ~Reaches(Edges(dependency), Nodes, new[i][2], new[i][1])
          THEN Check(c, "checked", {}, new)
          ELSE Check(c, "idle", {}, <<>>)
    BY DEF RecheckDependency
<1>2. new \in Tables /\ DOMAIN new = {i}
    BY DEF LinksInv, LinksType, InHand, Handlers, RecheckDependency
<1>3. new[i] \in Pair
    BY <1>2 DEF Tables
<1>4. CASE Check(c, "idle", {}, <<>>)
    BY <1>4, NoRows, Checks
<1>5. CASE /\ Check(c, "checked", {}, new) /\ new[i][1] # new[i][2]
           /\ ~Reaches(Edges(dependency), Nodes, new[i][2], new[i][1])
    <2>1. Edges(new) = {new[i][1]} \X {new[i][2]}
        BY <1>2, <1>3 DEF Edges, Pair
    <2>2. ASSUME ~outrun
          PROVE  Acyclic(Edges(WithRows(dependency, {}, new)), Nodes)
        <3>1. Acyclic(Edges(dependency) \cup ({new[i][1]} \X {new[i][2]}), Nodes)
            BY <1>5, <2>2, SafeEdges DEF LinksInv
        <3>2. Edges(WithRows(dependency, {}, new))
                  \subseteq Edges(dependency) \cup ({new[i][1]} \X {new[i][2]})
            BY <2>1, EdgesSaved, EdgesKept
        <3> QED BY <3>1, <3>2, FewerEdges
    <2> QED BY <1>2, <1>5, <2>2, Checks
<1> QED BY <1>1, <1>4, <1>5

\* updateTask(): the check is made without the edges that go.
LEMMA ReplaceKeeps ==
    ASSUME LinksInv, NEW c \in Linkers, NEW t \in Nodes, NEW S \in SUBSET Nodes,
           ReplaceDependencies(c, t, S)
    PROVE  LinksInv'
<1> DEFINE keep == {i \in DOMAIN dependency : dependency[i][1] = t /\ dependency[i][2] \in S}
           gone == {i \in DOMAIN dependency : dependency[i][1] = t} \ keep
           fresh == S \ {dependency[i][2] : i \in keep}
           E == Edges([i \in DOMAIN dependency \ gone |-> dependency[i]])
<1>1. PICK new \in NewRows(t, fresh) : Check(c, "replacing", gone, new)
    BY DEF ReplaceDependencies
<1>2. \A u \in fresh : t # u /\ ~Reaches(E, Nodes, u, t)
    BY DEF ReplaceDependencies
<1>3. gone \in SUBSET RowIds
    BY DEF LinksInv, LinksType, Tables
<1> HIDE DEF gone
<1>4. fresh \in SUBSET Nodes
    OBVIOUS
<1> HIDE DEF fresh
<1>5. new \in Tables /\ Edges(new) = {t} \X fresh
    BY <1>4, NewRowsType
<1>6. ASSUME ~outrun
      PROVE  Acyclic(Edges(WithRows(dependency, gone, new)), Nodes)
    <2>1. Acyclic(E, Nodes)
        BY <1>6, EdgesKept, FewerEdges DEF LinksInv
    <2>2. Edges(WithRows(dependency, gone, new)) \subseteq E \cup ({t} \X fresh)
        BY <1>5, EdgesSaved
    <2> HIDE DEF E
    <2>3. Acyclic(E \cup ({t} \X fresh), Nodes)
        BY <1>2, <2>1, SafeEdges
    <2> QED BY <2>2, <2>3, FewerEdges
<1> QED BY <1>1, <1>3, <1>5, <1>6, Checks

\* What is saved was checked against these tables, and outdates the other handlers.
LEMMA SaveKeeps ==
    ASSUME LinksInv, NEW c \in Linkers, SaveDependencies(c)
    PROVE  LinksInv'
<1> DEFINE rows == WithRows(dependency, linking[c].gone, linking[c].new)
           changed == rows # dependency
<1>1. CASE linking' = [linking EXCEPT ![c] = Unlinked] /\ UNCHANGED <<dependency, outrun>>
    BY <1>1, Unlinks DEF SaveDependencies
<1>2. CASE /\ dependency' = rows /\ linking' = Finished(c, changed)
           /\ outrun' = (outrun \/ ~linking[c].fresh)
    <2>1. linking[c] \in Handlers /\ linking[c].phase \in {"checked", "replacing"}
        BY DEF LinksInv, LinksType, SaveDependencies
    <2>2. rows \in Tables
        BY <2>1, RowsType DEF LinksInv, LinksType, Handlers
    <2>3. UNCHANGED <<live, related>>
        BY DEF SaveDependencies
    <2>4. changed \in BOOLEAN
        OBVIOUS
    <2>5. /\ Outdated(changed) \in [Linkers -> Handlers]
          /\ \A d \in Linkers : InHand(Outdated(changed)[d])
        BY <2>4, OutdatedHandlers DEF LinksInv, LinksType
    <2>6. ASSUME ~outrun, NEW d \in Linkers
          PROVE  StillSafe(Outdated(changed)[d], rows, related)
        <3>1. CASE changed
            BY <2>4, <3>1, OutdatedHandlers DEF LinksInv, LinksType
        <3>2. CASE ~changed
            <4>1. Outdated(changed) = linking
                BY <2>4, <3>2, OutdatedHandlers DEF LinksInv, LinksType
            <4> QED BY <2>6, <3>2, <4>1 DEF LinksInv
        <3> QED BY <3>1, <3>2
    <2>7. ~outrun' => Acyclic(Edges(rows), Nodes)
        BY <1>2, <2>1 DEF LinksInv, StillSafe
    <2>8. outrun' \in BOOLEAN /\ (~outrun' => ~outrun)
        BY <1>2, <2>1 DEF LinksInv, LinksType, Handlers
    <2> HIDE DEF changed, rows
    <2>9. /\ linking' \in [Linkers -> Handlers]
          /\ \A d \in Linkers : InHand(linking'[d])
          /\ ~outrun => \A d \in Linkers : StillSafe(linking'[d], rows, related)
        BY <1>2, <2>5, <2>6, UnlinkedType, UnlinkedIsSafe DEF Finished
    <2> QED BY <1>2, <2>2, <2>3, <2>7, <2>8, <2>9 DEF LinksInv, LinksType
<1> QED BY <1>1, <1>2 DEF SaveDependencies

\* A row less makes no cycle.
LEMMA DeleteKeeps ==
    ASSUME LinksInv, NEW i \in RowIds, DeleteDependency(i)
    PROVE  LinksInv'
<1>1. dependency' = WithRows(dependency, {i}, <<>>) /\ linking' = Outdated(TRUE)
          /\ UNCHANGED <<live, related, outrun>>
    BY DEF DeleteDependency
<1>2. dependency' \in Tables
    BY <1>1, NoRows, RowsType DEF LinksInv, LinksType
<1>3. /\ linking' \in [Linkers -> Handlers]
      /\ \A c \in Linkers : InHand(linking'[c])
      /\ \A c \in Linkers : \A rows, pairs : StillSafe(linking'[c], rows, pairs)
    BY <1>1, OutdatedHandlers DEF LinksInv, LinksType
<1>4. Edges(<<>>) = {}
    BY NoRows DEF Edges
<1>5. Edges(WithRows(dependency, {i}, <<>>)) \subseteq Edges(dependency)
    BY <1>4, EdgesSaved, EdgesKept
<1>6. Acyclic(Edges(dependency), Nodes) => Acyclic(Edges(dependency'), Nodes)
    BY <1>1, <1>5, FewerEdges
<1> QED BY <1>1, <1>2, <1>3, <1>6 DEF LinksInv, LinksType

\* addTaskRelation(): the check leaves a save of a pair that is related neither way.
LEMMA AddRelationKeeps ==
    ASSUME LinksInv, NEW c \in Linkers, NEW t \in Nodes, NEW u \in Nodes, AddRelation(c, t, u)
    PROVE  LinksInv'
<1> DEFINE h == [Unlinked EXCEPT !.phase = "related", !.pair = <<t, u>>]
<1>1. /\ h \in Handlers
      /\ h.phase = "related" /\ h.pair = <<t, u>>
    BY UnlinkedType DEF Handlers, Pair
<1>2. InHand(h)
    BY <1>1 DEF InHand, Pair
<1>3. StillSafe(h, dependency, related)
    BY <1>1 DEF StillSafe, AddRelation
<1>4. linking' = [linking EXCEPT ![c] = h] /\ UNCHANGED <<live, dependency, related, outrun>>
    BY DEF AddRelation
<1> HIDE DEF h
<1> QED BY <1>1, <1>2, <1>3, <1>4 DEF LinksInv, LinksType

\* The pair saved is related neither way, and outdates the other handlers.
LEMMA SaveRelationKeeps ==
    ASSUME LinksInv, NEW c \in Linkers, SaveRelation(c)
    PROVE  LinksInv'
<1> DEFINE new == linking[c].pair
<1>1. CASE linking' = [linking EXCEPT ![c] = Unlinked] /\ UNCHANGED <<related, outrun>>
    BY <1>1, Unlinks DEF SaveRelation
<1>2. CASE /\ related' = related \cup {new} /\ linking' = Finished(c, TRUE)
           /\ outrun' = (outrun \/ ~linking[c].fresh)
    <2>1. linking[c] \in Handlers /\ linking[c].phase = "related"
        BY DEF LinksInv, LinksType, SaveRelation
    <2>2. UNCHANGED <<live, dependency>>
        BY DEF SaveRelation
    <2>3. outrun' \in BOOLEAN /\ (~outrun' => ~outrun /\ linking[c].fresh)
        BY <1>2, <2>1 DEF LinksInv, LinksType, Handlers
    <2>4. /\ linking' \in [Linkers -> Handlers]
          /\ \A d \in Linkers : InHand(linking'[d])
          /\ \A d \in Linkers : \A rows, pairs : StillSafe(linking'[d], rows, pairs)
        BY <1>2, OutdatedHandlers, UnlinkedType, UnlinkedIsSafe DEF Finished, LinksInv, LinksType
    <2>5. new \in Pair
        BY <2>1 DEF LinksInv, InHand
    <2>6. ASSUME ~outrun, linking[c].fresh
          PROVE  OneWay(related \cup {new})
        <3>1. new[1] # new[2] /\ <<new[2], new[1]>> \notin related
            BY <2>1, <2>6 DEF LinksInv, StillSafe
        <3>2. OneWay(related) /\ related \subseteq Pair
            BY <2>6 DEF LinksInv, LinksType
        <3>3. PICK t \in Nodes, u \in Nodes : new = <<t, u>>
            BY <2>5 DEF Pair
        <3> HIDE DEF new
        <3>4. t # u /\ <<u, t>> \notin related
            BY <3>1, <3>3
        <3>5. ASSUME NEW p \in related
              PROVE  p[1] # p[2] /\ <<p[2], p[1]>> \notin related \cup {new}
            <4>1. PICK a \in Nodes, b \in Nodes : p = <<a, b>>
                BY <3>2 DEF Pair
            <4>2. a # b /\ <<b, a>> \notin related
                BY <3>2, <4>1 DEF OneWay
            <4>3. <<b, a>> # <<t, u>>
                BY <3>4, <4>1
            <4> QED BY <3>3, <4>1, <4>2, <4>3
        <3>6. new[1] # new[2] /\ <<new[2], new[1]>> \notin related \cup {new}
            BY <3>3, <3>4
        <3> QED BY <3>5, <3>6 DEF OneWay
    <2> QED BY <1>2, <2>2, <2>3, <2>4, <2>5, <2>6 DEF LinksInv, LinksType
<1> QED BY <1>1, <1>2 DEF SaveRelation

\* A relation less is none both ways.
LEMMA DeleteRelationKeeps ==
    ASSUME LinksInv, NEW p \in Pair, DeleteRelation(p)
    PROVE  LinksInv'
<1>1. related' = related \ {p} /\ linking' = Outdated(TRUE) /\ UNCHANGED <<live, dependency, outrun>>
    BY DEF DeleteRelation
<1>2. /\ linking' \in [Linkers -> Handlers]
      /\ \A c \in Linkers : InHand(linking'[c])
      /\ \A c \in Linkers : \A rows, pairs : StillSafe(linking'[c], rows, pairs)
    BY <1>1, OutdatedHandlers DEF LinksInv, LinksType
<1> QED BY <1>1, <1>2 DEF LinksInv, LinksType, OneWay

-----------------------------------------------------------------------------
(***************************************************************************)
(* What the run checks, for any number of tasks, items and requests.       *)
(***************************************************************************)
\* The invariant holds in every reachable state.
LEMMA LinksInvHolds == LinksSpec => []LinksInv
<1>1. LinksInit => LinksInv
    <2> SUFFICES ASSUME LinksInit PROVE LinksInv
        OBVIOUS
    <2>1. LinksType
        BY NoRows, UnlinkedType DEF LinksInit, LinksType
    <2>2. \A c \in Linkers : InHand(linking[c]) /\ StillSafe(linking[c], dependency, related)
        BY UnlinkedType, UnlinkedIsSafe DEF LinksInit
    <2>3. Edges(dependency) = {}
        BY NoRows DEF LinksInit, Edges
    <2>4. Acyclic(Edges(dependency), Nodes) /\ OneWay(related)
        BY <2>3 DEF LinksInit, Acyclic, OneWay
    <2> QED BY <2>1, <2>2, <2>4 DEF LinksInv
<1>2. LinksInv /\ [LinksNext]_linkVars => LinksInv'
    <2> SUFFICES ASSUME LinksInv, [LinksNext]_linkVars PROVE LinksInv'
        OBVIOUS
    <2>1. CASE UNCHANGED <<live, dependency, related, linking, outrun>>
        BY <2>1 DEF LinksInv, LinksType
    <2>2. ASSUME NEW t \in Nodes, DeleteNode(t)
          PROVE  LinksInv'
        BY <2>2 DEF DeleteNode, LinksInv, LinksType
    <2>3. CASE DependenciesNext
        BY <2>2, <2>3, CreateKeeps, AddKeeps, LoadKeeps, RecheckKeeps, ReplaceKeeps, SaveKeeps,
            DeleteKeeps DEF DependenciesNext
    <2>4. CASE RelationsNext
        BY <2>4, AddRelationKeeps, SaveRelationKeeps, DeleteRelationKeeps DEF RelationsNext
    <2>5. CASE PointsNext
        BY <2>1, <2>5 DEF PointsNext, ReplacePointLinks, DeletePoint
    <2>6. CASE UNCHANGED linkVars
        BY <2>1, <2>6 DEF linkVars
    <2> QED BY <2>3, <2>4, <2>5, <2>6 DEF LinksNext
<1> QED BY <1>1, <1>2, PTL DEF LinksSpec

(***************************************************************************)
(* No cycle of items ever, and none of tasks, nor a relation both ways,    *)
(* while no handler has saved after others changed what it checked.        *)
(***************************************************************************)
THEOREM LinksAreSoundAlways == LinksSpec => []LinksAreSound
<1>1. LinksInv /\ Acyclic(pointLinks, Points) => LinksAreSound
    BY DEF LinksInv, OneWay, LinksAreSound
<1> QED BY <1>1, LinksInvHolds, PointsAreAcyclicAlways, PTL

-----------------------------------------------------------------------------
(***************************************************************************)
(* The code of a task is reserved, and for this task; this also holds of   *)
(* tasks that are gone.                                                    *)
(***************************************************************************)
Reserved ==
    \A t \in DOMAIN node :
        node[t].code # NoCode
            => node[t].code \in DOMAIN reserved /\ reserved[node[t].code] = t

LEMMA ReservedInit == ImportInit => Reserved
  BY DEF ImportInit, Reserved

\* What neither adds tasks, nor changes their codes, nor reserves any.
LEMMA ReservedKept ==
    ASSUME Reserved, reserved' = reserved,
           DOMAIN node' = DOMAIN node, \A t \in DOMAIN node : node'[t].code = node[t].code
    PROVE  Reserved'
  BY DEF Reserved

\* ~Fails(): no code of the sheet is another task's.  A task that has one keeps
\* it or is not among those that are saved.
LEMMA ReservedSave ==
    ASSUME Reserved, NEW i \in Importers, SaveSheet(i)
    PROVE  Reserved'
<1> DEFINE s == importer[i].sheet
           id == Assigned(s, importer[i].found)
           saved == {id[c] : c \in CodesOf(s)}
<1>1. \A c \in CodesOf(s) : ~Taken(c, id[c])
  BY DEF SaveSheet, Fails
<1>2. node' = Upserted(s, id)
  BY DEF SaveSheet, Imports
<1>3. reserved' = [c \in DOMAIN reserved \cup CodesOf(s) |->
                      IF c \in CodesOf(s) THEN id[c] ELSE reserved[c]]
  BY DEF SaveSheet, Imports, Updated
<1>4. DOMAIN node' = DOMAIN node \cup saved
  BY <1>2 DEF Upserted, Updated
<1>5. ASSUME NEW t \in saved
      PROVE  node'[t].code \in CodesOf(s) /\ id[node'[t].code] = t
  <2> DEFINE codeAt == CHOOSE c \in CodesOf(s) : id[c] = t
  <2>1. codeAt \in CodesOf(s) /\ id[codeAt] = t
    OBVIOUS
  <2>2. node'[t].code = codeAt
    BY <1>2 DEF Upserted, Updated
  <2>3. QED
    BY <2>1, <2>2
<1>6. ASSUME NEW t \in DOMAIN node, t \notin saved
      PROVE  node'[t] = node[t]
  BY <1>2, <1>6 DEF Upserted, Updated
<1>7. ASSUME NEW t \in DOMAIN node', node'[t].code # NoCode
      PROVE  node'[t].code \in DOMAIN reserved' /\ reserved'[node'[t].code] = t
  <2>1. CASE t \in saved
    BY <1>3, <1>5, <2>1
  <2>2. CASE t \notin saved
    <3>1. t \in DOMAIN node /\ node'[t] = node[t]
      BY <1>4, <1>6, <2>2
    <3>2. node[t].code \in DOMAIN reserved /\ reserved[node[t].code] = t
      BY <1>7, <3>1 DEF Reserved
    <3>3. node[t].code \notin CodesOf(s)
      BY <1>1, <2>2, <3>2 DEF Taken
    <3>4. QED
      BY <1>3, <3>1, <3>2, <3>3
  <2>3. QED
    BY <2>1, <2>2
<1>8. QED
  BY <1>7 DEF Reserved

LEMMA ReservedCreate ==
    ASSUME Reserved, NEW t \in Nodules, NEW parent, NEW c \in Codes \cup {NoCode},
           CreateCoded(t, parent, c)
    PROVE  Reserved'
<1>1. t \notin DOMAIN node /\ (c # NoCode => c \notin DOMAIN reserved)
  BY DEF CreateCoded, FreshNode
<1>2. node' = [x \in DOMAIN node \cup {t} |->
                  IF x \in {t} THEN [code |-> c, parent |-> parent, gone |-> FALSE] ELSE node[x]]
  BY DEF CreateCoded, Updated
<1>3. reserved' = [x \in DOMAIN reserved \cup ({c} \ {NoCode}) |->
                      IF x \in {c} \ {NoCode} THEN t ELSE reserved[x]]
  BY DEF CreateCoded, Updated
<1>4. QED
  BY <1>1, <1>2, <1>3 DEF Reserved

LEMMA ReservedUpdate ==
    ASSUME Reserved, FinishUpdate
    PROVE  Reserved'
<1> DEFINE t == pending.of
           c == pending.code
<1>1. ~Taken(c, t)
  BY DEF FinishUpdate
<1>2. /\ DOMAIN node' = DOMAIN node
      /\ \A u \in DOMAIN node : u # t => node'[u].code = node[u].code
      /\ t \in DOMAIN node => node'[t].code = c
  BY DEF FinishUpdate
<1>3. reserved' = [x \in DOMAIN reserved \cup ({c} \ {NoCode}) |->
                      IF x \in {c} \ {NoCode} THEN t ELSE reserved[x]]
  BY DEF FinishUpdate, Updated
<1>4. QED
  BY <1>1, <1>2, <1>3 DEF Reserved, Taken

LEMMA ReservedNext == Reserved /\ [ImportNext]_importVars => Reserved'
<1> SUFFICES ASSUME Reserved, [ImportNext]_importVars
             PROVE  Reserved'
  OBVIOUS
<1>1. CASE UNCHANGED importVars
  BY <1>1 DEF importVars, tables, Reserved
<1>2. ASSUME NEW i \in Importers, NEW s \in Sheets, LoadSheet(i, s)
      PROVE  Reserved'
  BY <1>2 DEF LoadSheet, tables, Reserved
<1>3. ASSUME NEW i \in Importers, SaveSheet(i)
      PROVE  Reserved'
  BY <1>3, ReservedSave
<1>4. ASSUME NEW i \in Importers, AbandonSheet(i)
      PROVE  Reserved'
  BY <1>4 DEF AbandonSheet, tables, Reserved
<1>5. ASSUME NEW t \in Nodules, NEW parent, NEW c \in Codes \cup {NoCode},
             CreateCoded(t, parent, c)
      PROVE  Reserved'
  BY <1>5, ReservedCreate
<1>6. ASSUME NEW t \in Nodules, NEW parent, NEW c, BeginUpdate(t, parent, c)
      PROVE  Reserved'
  BY <1>6 DEF BeginUpdate, tables, Reserved
<1>7. ASSUME NEW t \in Nodules, BeginDelete(t)
      PROVE  Reserved'
  BY <1>7 DEF BeginDelete, tables, Reserved
<1>8. CASE FinishUpdate
  BY <1>8, ReservedUpdate
<1>9. CASE AbandonUpdate
  BY <1>9 DEF AbandonUpdate, tables, Reserved
<1>10. CASE FinishDelete
  <2>1. /\ reserved' = reserved /\ DOMAIN node' = DOMAIN node
        /\ \A t \in DOMAIN node : node'[t].code = node[t].code
    BY <1>10 DEF FinishDelete
  <2>2. QED
    BY <2>1, ReservedKept
<1>11. QED
  BY <1>1, <1>2, <1>3, <1>4, <1>5, <1>6, <1>7, <1>8, <1>9, <1>10 DEF ImportNext

(***************************************************************************)
(* "Permanent once assigned": whatever sheets are imported at one time and *)
(* whatever users do meanwhile, the code of a task is its own, and was not *)
(* given to another (task-wbs.service.ts).                                 *)
(***************************************************************************)
THEOREM CodesArePermanentAlways == ImportSpec => []CodesArePermanent
<1>1. Reserved => CodesArePermanent
  BY DEF Reserved, CodesArePermanent
<1>2. QED
  BY <1>1, ReservedInit, ReservedNext, PTL DEF ImportSpec

(***************************************************************************)
(* "has already been assigned and cannot be reused": no import or edit     *)
(* takes a code from the task it was given to, not even when that task is  *)
(* gone (reserveCode()).                                                   *)
(***************************************************************************)
THEOREM ReservationsStayAlways == ImportSpec => ReservationsStay
<1> DEFINE Stay == \A c \in DOMAIN reserved : c \in DOMAIN reserved' /\ reserved'[c] = reserved[c]
<1>1. ASSUME [ImportNext]_importVars
      PROVE  Stay
  <2>1. CASE reserved' = reserved
    BY <2>1
  <2>2. ASSUME NEW i \in Importers, SaveSheet(i)
        PROVE  Stay
    <3> DEFINE s == importer[i].sheet
               id == Assigned(s, importer[i].found)
    <3>1. \A c \in CodesOf(s) : ~Taken(c, id[c])
      BY <2>2 DEF SaveSheet, Fails
    <3>2. reserved' = [c \in DOMAIN reserved \cup CodesOf(s) |->
                          IF c \in CodesOf(s) THEN id[c] ELSE reserved[c]]
      BY <2>2 DEF SaveSheet, Imports, Updated
    <3>3. QED
      BY <3>1, <3>2 DEF Taken
  <2>3. ASSUME NEW t \in Nodules, NEW parent, NEW c \in Codes \cup {NoCode},
               CreateCoded(t, parent, c)
        PROVE  Stay
    BY <2>3 DEF CreateCoded, Updated
  <2>4. CASE FinishUpdate
    BY <2>4 DEF FinishUpdate, Updated, Taken
  <2>5. QED
    BY <1>1, <2>1, <2>2, <2>3, <2>4
       DEF ImportNext, importVars, tables, LoadSheet, AbandonSheet, BeginUpdate, BeginDelete,
           AbandonUpdate, FinishDelete
<1>2. QED
  BY <1>1, PTL DEF ImportSpec, ReservationsStay

-----------------------------------------------------------------------------
(***************************************************************************)
(* Finite orders.  R is a strict order of the finite set S; the place of   *)
(* one of S is the number of those before it.  The places of n are the     *)
(* numbers below n, since no two are the same.                             *)
(***************************************************************************)
StrictOrder(R, S) ==
    /\ \A c \in S : <<c, c>> \notin R
    /\ \A c, d, e \in S : <<c, d>> \in R /\ <<d, e>> \in R => <<c, e>> \in R
    /\ \A c, d \in S : c # d => <<c, d>> \in R \/ <<d, c>> \in R

BeforeIt(R, S, c) == {d \in S : <<d, c>> \in R}

PlaceOf(R, S, c) == Cardinality(BeforeIt(R, S, c))

LEMMA PlacesAreOrdered ==
    ASSUME NEW R, NEW S, IsFiniteSet(S), StrictOrder(R, S)
    PROVE  /\ \A c \in S : PlaceOf(R, S, c) \in Nat /\ PlaceOf(R, S, c) < Cardinality(S)
           /\ \A c, d \in S : <<c, d>> \in R => PlaceOf(R, S, c) < PlaceOf(R, S, d)
<1>1. Cardinality(S) \in Nat
  BY FS_CardinalityType
<1>2. ASSUME NEW c \in S
      PROVE  /\ IsFiniteSet(BeforeIt(R, S, c)) /\ BeforeIt(R, S, c) \subseteq S
             /\ PlaceOf(R, S, c) \in Nat
  <2>1. BeforeIt(R, S, c) \subseteq S
    BY DEF BeforeIt
  <2>2. IsFiniteSet(BeforeIt(R, S, c))
    BY <2>1, FS_Subset
  <2> QED
    BY <2>1, <2>2, FS_CardinalityType DEF PlaceOf
<1>3. ASSUME NEW A \in SUBSET S, NEW B \in SUBSET A, NEW x \in A, x \notin B
      PROVE  Cardinality(B) < Cardinality(A)
  <2>1. IsFiniteSet(A)
    BY FS_Subset
  <2>2. /\ IsFiniteSet(B) /\ Cardinality(B) \leq Cardinality(A)
        /\ Cardinality(B) = Cardinality(A) => A = B
    BY <2>1, FS_Subset
  <2>3. Cardinality(A) \in Nat /\ Cardinality(B) \in Nat
    BY <2>1, <2>2, FS_CardinalityType
  <2> QED
    BY <1>3, <2>2, <2>3
<1>4. ASSUME NEW c \in S PROVE PlaceOf(R, S, c) < Cardinality(S)
  <2>1. c \notin BeforeIt(R, S, c)
    BY DEF StrictOrder, BeforeIt
  <2> QED
    BY <1>2, <1>3, <2>1 DEF PlaceOf
<1>5. ASSUME NEW c \in S, NEW d \in S, <<c, d>> \in R
      PROVE  PlaceOf(R, S, c) < PlaceOf(R, S, d)
  <2>1. BeforeIt(R, S, c) \subseteq BeforeIt(R, S, d)
    BY <1>5 DEF StrictOrder, BeforeIt
  <2>2. c \in BeforeIt(R, S, d) /\ c \notin BeforeIt(R, S, c)
    BY <1>5 DEF StrictOrder, BeforeIt
  <2> QED
    BY <1>2, <1>3, <2>1, <2>2 DEF PlaceOf
<1> QED
  BY <1>2, <1>4, <1>5

LEMMA PlacesDiffer ==
    ASSUME NEW R, NEW S, IsFiniteSet(S), StrictOrder(R, S),
           NEW c \in S, NEW d \in S, c # d
    PROVE  PlaceOf(R, S, c) # PlaceOf(R, S, d)
<1>1. <<c, d>> \in R \/ <<d, c>> \in R
  BY DEF StrictOrder
<1>2. PlaceOf(R, S, c) \in Nat /\ PlaceOf(R, S, d) \in Nat
  BY PlacesAreOrdered
<1>3. PlaceOf(R, S, c) < PlaceOf(R, S, d) \/ PlaceOf(R, S, d) < PlaceOf(R, S, c)
  BY <1>1, PlacesAreOrdered
<1> QED
  BY <1>2, <1>3

LEMMA PlacesAreFilled ==
    ASSUME NEW R, NEW S, IsFiniteSet(S), StrictOrder(R, S)
    PROVE  \A n \in Nat : n < Cardinality(S) => \E c \in S : PlaceOf(R, S, c) = n
<1> DEFINE N == Cardinality(S)
           T == 0 .. (N - 1)
           f == [c \in S |-> PlaceOf(R, S, c)]
<1>1. N \in Nat
  BY FS_CardinalityType
<1>2. IsFiniteSet(T) /\ Cardinality(T) = N
  <2>1. IsFiniteSet(T) /\ Cardinality(T) = IF 0 > N - 1 THEN 0 ELSE (N - 1) - 0 + 1
    BY <1>1, FS_Interval
  <2> QED
    BY <1>1, <2>1
<1>3. f \in [S -> T] /\ \A c, d \in S : c # d => f[c] # f[d]
  <2>1. \A c \in S : PlaceOf(R, S, c) \in T
    BY <1>1, PlacesAreOrdered
  <2>2. \A c, d \in S : c # d => PlaceOf(R, S, c) # PlaceOf(R, S, d)
    BY PlacesDiffer
  <2> QED
    BY <2>1, <2>2
<1> HIDE DEF f, T, N
<1>4. f \in Injection(S, T)
  BY <1>3 DEF Injection, IsInjective
<1>5. f \in Surjection(S, T)
  BY <1>2, <1>4, FS_Injection DEF N
<1>6. \A n \in T : \E c \in S : f[c] = n
  BY <1>5 DEF Surjection
<1> QED
  BY <1>1, <1>6 DEF f, T, N

LEMMA PlacesAreCounted ==
    ASSUME NEW R, NEW S, IsFiniteSet(S), StrictOrder(R, S), NEW n \in Nat, n <= Cardinality(S)
    PROVE  Cardinality({c \in S : PlaceOf(R, S, c) < n}) = n
<1> DEFINE D == {c \in S : PlaceOf(R, S, c) < n}
           T == 0 .. (n - 1)
           f == [c \in D |-> PlaceOf(R, S, c)]
<1>1. IsFiniteSet(T) /\ Cardinality(T) = n
  <2>1. IsFiniteSet(T) /\ Cardinality(T) = IF 0 > n - 1 THEN 0 ELSE (n - 1) - 0 + 1
    BY FS_Interval
  <2> QED
    BY <2>1
<1>2. f \in [D -> T] /\ \A c, d \in D : c # d => f[c] # f[d]
  <2>1. \A c \in D : PlaceOf(R, S, c) \in T
    BY PlacesAreOrdered
  <2>2. \A c, d \in S : c # d => PlaceOf(R, S, c) # PlaceOf(R, S, d)
    BY PlacesDiffer
  <2> QED
    BY <2>1, <2>2
<1>3. \A m \in T : \E c \in D : f[c] = m
  <2> SUFFICES ASSUME NEW m \in T PROVE \E c \in D : f[c] = m
    OBVIOUS
  <2>1. m \in Nat /\ m < n /\ Cardinality(S) \in Nat
    BY FS_CardinalityType
  <2>2. PICK c \in S : PlaceOf(R, S, c) = m
    BY <2>1, PlacesAreFilled
  <2> QED
    BY <2>1, <2>2
<1>4. IsFiniteSet(D)
  BY FS_Subset
<1> HIDE DEF f, T, D
<1>5. f \in Bijection(D, T)
  BY <1>2, <1>3 DEF Bijection, Injection, IsInjective, Surjection
<1>6. Cardinality(D) = Cardinality(T)
  <2>1. ExistsBijection(D, T)
    BY <1>5 DEF ExistsBijection
  <2> QED
    BY <1>1, <1>4, <2>1, FS_Bijection
<1> QED
  BY <1>1, <1>6 DEF D


-----------------------------------------------------------------------------
(***************************************************************************)
(* The ranks of a column put its cards in such an order, since no two of   *)
(* the cards were created at the same time.                                *)
(***************************************************************************)
BoardInv ==
    /\ BoardTypeOK
    /\ \A c \in DOMAIN created :
          created[c] \in Nat /\ created[c] < Cardinality(DOMAIN created)
    /\ \A c, d \in DOMAIN created : c # d => created[c] # created[d]
    /\ \A c \in DOMAIN column :
          /\ c \in Items => column[c] \in Columns
          /\ c \in Tasks => column[c] \in Siblinghoods

RanksOK(r) == \A c \in DOMAIN column : r[c] \in Nat /\ r[c] <= RankLimit

RankOrder(r, S) == {p \in S \X S : Precedes(r, p[1], p[2])}

LEMMA CardsAreFinite ==
    /\ IsFiniteSet(Cards)
    /\ RankStep \in Nat /\ RankStep > 1 /\ RankLimit \in Nat /\ RankLimit > 0
<1>1. IsFiniteSet(Cards)
  <2>1. IsFiniteSet(Items) /\ IsFiniteSet(Tasks)
    BY BoardAssumption
  <2> QED
    BY <2>1, FS_Union DEF Cards
<1>2. /\ RankStep \in Nat /\ RankStep # 0 /\ RankStep # 1
      /\ RankLimit \in Nat /\ RankLimit # 0
  BY BoardAssumption
<1> QED
  BY <1>1, <1>2

LEMMA ColumnsAreFinite ==
    ASSUME BoardInv, NEW k, NEW S \in SUBSET InColumn(k)
    PROVE  /\ S \subseteq DOMAIN column
           /\ IsFiniteSet(S) /\ Cardinality(S) \in Nat
           /\ RankStep * Cardinality(S) < RankLimit
<1>1. S \subseteq DOMAIN column /\ DOMAIN column \subseteq Cards
  BY DEF InColumn, BoardInv, BoardTypeOK
<1>2. IsFiniteSet(S)
  BY <1>1, CardsAreFinite, FS_Subset
<1>3. S \subseteq Items \/ S \subseteq Tasks
  BY <1>1, BoardAssumption DEF InColumn, BoardInv, Cards
<1>4. /\ Cardinality(S) \in Nat /\ Cardinality(Items) \in Nat /\ Cardinality(Tasks) \in Nat
      /\ Cardinality(S) <= Cardinality(Items) \/ Cardinality(S) <= Cardinality(Tasks)
  BY <1>2, <1>3, BoardAssumption, FS_Subset, FS_CardinalityType
<1>5. \A n, m \in Nat : n <= m => RankStep * n <= RankStep * m
  BY CardsAreFinite
<1>6. /\ RankStep * Cardinality(S) \in Nat /\ RankStep * Cardinality(Items) \in Nat
      /\ RankStep * Cardinality(Tasks) \in Nat
  BY <1>4, CardsAreFinite
<1>7. \/ RankStep * Cardinality(S) <= RankStep * Cardinality(Items)
      \/ RankStep * Cardinality(S) <= RankStep * Cardinality(Tasks)
  BY <1>4, <1>5
<1> QED
  BY <1>1, <1>2, <1>4, <1>6, <1>7, CardsAreFinite, BoardAssumption

LEMMA CardsAreOrdered ==
    ASSUME BoardInv, NEW r, RanksOK(r), NEW S \in SUBSET DOMAIN column
    PROVE  StrictOrder(RankOrder(r, S), S)
<1>1. \A c \in S : r[c] \in Int /\ created[c] \in Int
  BY DEF BoardInv, BoardTypeOK, RanksOK
<1>2. \A c, d \in S : c # d => created[c] # created[d]
  BY DEF BoardInv, BoardTypeOK
<1>3. \A c, d \in S : <<c, d>> \in RankOrder(r, S) <=>
          r[c] < r[d] \/ (r[c] = r[d] /\ created[c] < created[d])
  BY DEF RankOrder, Precedes
<1>4. \A c \in S : <<c, c>> \notin RankOrder(r, S)
  BY <1>1, <1>3
<1>5. ASSUME NEW c \in S, NEW d \in S, NEW e \in S,
             <<c, d>> \in RankOrder(r, S), <<d, e>> \in RankOrder(r, S)
      PROVE  <<c, e>> \in RankOrder(r, S)
  <2>1. /\ r[c] < r[d] \/ (r[c] = r[d] /\ created[c] < created[d])
        /\ r[d] < r[e] \/ (r[d] = r[e] /\ created[d] < created[e])
    BY <1>3, <1>5
  <2>2. r[c] < r[e] \/ (r[c] = r[e] /\ created[c] < created[e])
    BY <1>1, <2>1
  <2> QED
    BY <1>3, <2>2
<1>6. ASSUME NEW c \in S, NEW d \in S, c # d
      PROVE  <<c, d>> \in RankOrder(r, S) \/ <<d, c>> \in RankOrder(r, S)
  <2>1. \/ r[c] < r[d] \/ (r[c] = r[d] /\ created[c] < created[d])
        \/ r[d] < r[c] \/ (r[d] = r[c] /\ created[d] < created[c])
    BY <1>1, <1>2, <1>6
  <2> QED
    BY <1>3, <2>1
<1> QED
  BY <1>4, <1>5, <1>6 DEF StrictOrder

\* A rebalance gives the card in place n the rank of n + 1 steps.
LEMMA RebalancedIs ==
    ASSUME BoardInv, RanksOK(rank), NEW k, NEW S \in SUBSET InColumn(k), NEW c \in S
    PROVE  /\ PlaceOf(RankOrder(rank, S), S, c) \in Nat
           /\ Rebalanced(rank, S)[c] = RankStep * (PlaceOf(RankOrder(rank, S), S, c) + 1)
           /\ Rebalanced(rank, S)[c] \in Nat
           /\ Rebalanced(rank, S)[c] < RankLimit
           /\ RankStep <= Rebalanced(rank, S)[c]
<1> DEFINE R == RankOrder(rank, S)
           B == BeforeIt(R, S, c)
           n == PlaceOf(R, S, c)
<1>1. /\ S \subseteq DOMAIN column /\ IsFiniteSet(S) /\ Cardinality(S) \in Nat
      /\ RankStep * Cardinality(S) < RankLimit
  BY ColumnsAreFinite
<1>2. StrictOrder(R, S)
  BY <1>1, CardsAreOrdered
<1>3. n \in Nat /\ n < Cardinality(S)
  BY <1>1, <1>2, PlacesAreOrdered
<1>4. {d \in S : ~Precedes(rank, c, d)} = B \cup {c}
  <2>1. \A d \in S : <<c, d>> \in R <=> Precedes(rank, c, d)
    BY DEF RankOrder
  <2>2. \A d \in S : <<c, d>> \notin R <=> d = c \/ <<d, c>> \in R
    BY <1>2 DEF StrictOrder
  <2> QED
    BY <2>1, <2>2 DEF BeforeIt
<1>5. Cardinality(B \cup {c}) = n + 1
  <2>1. B \subseteq S /\ c \notin B
    BY <1>2 DEF BeforeIt, StrictOrder
  <2>2. IsFiniteSet(B)
    BY <1>1, <2>1, FS_Subset
  <2> QED
    BY <2>1, <2>2, FS_AddElement DEF PlaceOf
<1>6. Rebalanced(rank, S)[c] = (RankStep * (n + 1)) % RankLimit
  <2>1. c \in DOMAIN rank
    BY <1>1 DEF BoardInv, BoardTypeOK
  <2> QED
    BY <1>4, <1>5, <2>1 DEF Rebalanced, RankFormat
<1>7. RankStep * (n + 1) \in Nat /\ RankStep <= RankStep * (n + 1) /\ RankStep * (n + 1) < RankLimit
  <2> HIDE DEF n, R, B
  <2>1. \A a, b \in Nat : a <= b => RankStep * a <= RankStep * b
    BY CardsAreFinite
  <2>2. n + 1 \in Nat /\ 1 \in Nat /\ 1 <= n + 1 /\ n + 1 <= Cardinality(S)
    BY <1>1, <1>3
  <2>3. RankStep * 1 <= RankStep * (n + 1) /\ RankStep * (n + 1) <= RankStep * Cardinality(S)
    BY <1>1, <2>1, <2>2
  <2>4. RankStep * (n + 1) \in Nat /\ RankStep * Cardinality(S) \in Nat /\ RankStep * 1 = RankStep
    BY <1>1, <2>2, CardsAreFinite
  <2> QED
    BY <1>1, <2>3, <2>4, CardsAreFinite
<1>8. (RankStep * (n + 1)) % RankLimit = RankStep * (n + 1)
  <2>1. \A x, m \in Nat : x < m => x % m = x
    OBVIOUS
  <2> QED
    BY <1>7, <2>1, CardsAreFinite
<1> QED
  BY <1>3, <1>6, <1>7, <1>8

LEMMA RebalancedIsSpaced ==
    ASSUME BoardInv, RanksOK(rank), NEW k, NEW S \in SUBSET InColumn(k),
           NEW c \in S, NEW d \in S, Precedes(rank, c, d)
    PROVE  Rebalanced(rank, S)[c] + RankStep <= Rebalanced(rank, S)[d]
<1> DEFINE n == PlaceOf(RankOrder(rank, S), S, c)
           m == PlaceOf(RankOrder(rank, S), S, d)
<1>1. n < m
  <2>1. /\ S \subseteq DOMAIN column /\ IsFiniteSet(S)
    BY ColumnsAreFinite
  <2>2. StrictOrder(RankOrder(rank, S), S)
    BY <2>1, CardsAreOrdered
  <2>3. <<c, d>> \in RankOrder(rank, S)
    BY DEF RankOrder
  <2> QED
    BY <2>1, <2>2, <2>3, PlacesAreOrdered
<1>2. /\ n \in Nat /\ Rebalanced(rank, S)[c] = RankStep * (n + 1)
      /\ m \in Nat /\ Rebalanced(rank, S)[d] = RankStep * (m + 1)
  BY RebalancedIs
<1> HIDE DEF n, m
<1>3. \A a, b \in Nat : a < b => RankStep * (a + 1) + RankStep <= RankStep * (b + 1)
  BY CardsAreFinite
<1> QED
  BY <1>1, <1>2, <1>3

\* So it keeps the order of the cards.
LEMMA RebalancedKeepsOrder ==
    ASSUME BoardInv, RanksOK(rank), NEW k, NEW S \in SUBSET InColumn(k)
    PROVE  KeepsOrder(S, Rebalanced(rank, S))
<1> SUFFICES ASSUME NEW c \in S, NEW d \in S, c # d
             PROVE  Precedes(rank, c, d) <=> Precedes(Rebalanced(rank, S), c, d)
  BY DEF KeepsOrder
<1> DEFINE r == Rebalanced(rank, S)
<1>1. r[c] \in Nat /\ r[d] \in Nat /\ RankStep \in Nat /\ RankStep > 1
  BY RebalancedIs, CardsAreFinite
<1>2. Precedes(rank, c, d) => r[c] + RankStep <= r[d]
  BY RebalancedIsSpaced
<1>3. Precedes(rank, d, c) => r[d] + RankStep <= r[c]
  BY RebalancedIsSpaced
<1>4. Precedes(rank, c, d) \/ Precedes(rank, d, c)
  <2>1. S \subseteq DOMAIN column
    BY ColumnsAreFinite
  <2>2. StrictOrder(RankOrder(rank, S), S)
    BY <2>1, CardsAreOrdered
  <2>3. <<c, d>> \in RankOrder(rank, S) \/ <<d, c>> \in RankOrder(rank, S)
    BY <2>2 DEF StrictOrder
  <2> QED
    BY <2>3 DEF RankOrder
<1> HIDE DEF r
<1>5. Precedes(rank, c, d) => r[c] < r[d]
  BY <1>1, <1>2
<1>6. ~Precedes(rank, c, d) => r[d] < r[c]
  BY <1>1, <1>3, <1>4
<1>7. Precedes(r, c, d) <=> r[c] < r[d] \/ (r[c] = r[d] /\ created[c] < created[d])
  BY DEF Precedes
<1> QED
  BY <1>1, <1>5, <1>6, <1>7 DEF r

-----------------------------------------------------------------------------
(***************************************************************************)
(* Cards that are moved.  Between two neighbours there is a rank, or the   *)
(* column is rebalanced and there is one then; a card at the end has the   *)
(* rank of the last one and a step.                                        *)
(***************************************************************************)
LEMMA RanksAreOK ==
    ASSUME BoardInv
    PROVE  /\ RanksOK(rank)
           /\ DOMAIN rank = DOMAIN column
           /\ DOMAIN column \subseteq Cards /\ DOMAIN entry = DOMAIN column \cap Items
           /\ Nobody \notin DOMAIN column
BY CardsAreFinite, BoardAssumption
   DEF BoardInv, BoardTypeOK, RanksOK, Ranks, NoRank, Cards

LEMMA RemainderIsLess ==
    ASSUME NEW n \in Nat
    PROVE  /\ RankFormat(n) \in Ranks
           /\ n < RankLimit => RankFormat(n) = n
BY CardsAreFinite DEF RankFormat, Ranks

\* The last of a column that has cards is one card.
LEMMA LastIsThere ==
    ASSUME BoardInv, NEW S \in SUBSET DOMAIN column, S # {}
    PROVE  \E m \in S :
              /\ {c \in S : \A d \in S \ {c} : Precedes(rank, d, c)} = {m}
              /\ \A c \in S : c # m => Precedes(rank, c, m)
<1> DEFINE R == RankOrder(rank, S)
           N == Cardinality(S)
<1>1. RanksOK(rank) /\ IsFiniteSet(S)
  BY RanksAreOK, CardsAreFinite, FS_Subset
<1>2. StrictOrder(R, S)
  BY <1>1, CardsAreOrdered
<1>3. N \in Nat /\ N # 0
  BY <1>1, FS_CardinalityType, FS_EmptySet
<1>4. PICK m \in S : PlaceOf(R, S, m) = N - 1
  <2>1. N - 1 \in Nat /\ N - 1 < N
    BY <1>3
  <2> QED
    BY <1>1, <1>2, <2>1, PlacesAreFilled
<1>5. ASSUME NEW c \in S PROVE <<m, c>> \notin R
  <2>1. PlaceOf(R, S, c) \in Nat /\ PlaceOf(R, S, c) < N
    BY <1>1, <1>2, PlacesAreOrdered
  <2>2. <<m, c>> \in R => PlaceOf(R, S, m) < PlaceOf(R, S, c)
    BY <1>1, <1>2, PlacesAreOrdered
  <2> HIDE DEF R, N
  <2> QED
    BY <1>3, <1>4, <2>1, <2>2
<1>6. \A c \in S : c # m => Precedes(rank, c, m)
  <2>1. \A c \in S : c # m => <<c, m>> \in R
    BY <1>2, <1>5 DEF StrictOrder
  <2> QED
    BY <2>1 DEF RankOrder
<1>7. ASSUME NEW c \in S, c # m PROVE ~Precedes(rank, m, c)
  BY <1>5 DEF RankOrder
<1> QED
  BY <1>6, <1>7

LEMMA AtEndIsARank ==
    ASSUME BoardInv, NEW S \in SUBSET DOMAIN column
    PROVE  AtEnd(rank, S) \in Ranks
<1> DEFINE last == {c \in S : \A d \in S \ {c} : Precedes(rank, d, c)}
           top  == IF \E c \in last : Ranked(rank, c) THEN rank[CHOOSE c \in last : TRUE] ELSE 0
<1>1. top \in Nat
  <2>1. CASE \E c \in last : Ranked(rank, c)
    <3>1. (CHOOSE c \in last : TRUE) \in S
      BY <2>1
    <3> QED
      BY <2>1, <3>1, RanksAreOK DEF RanksOK
  <2> QED
    BY <2>1
<1>2. top + RankStep \in Nat
  BY <1>1, CardsAreFinite
<1> QED
  BY <1>2, RemainderIsLess DEF AtEnd

LEMMA BetweenIsARank ==
    ASSUME BoardInv, NEW r, RanksOK(r), NEW S \in SUBSET DOMAIN column,
           NEW before, NEW after, {before, after} \subseteq S \cup {Nobody},
           Ranked(r, before) \/ Ranked(r, after) \/ r = rank
    PROVE  Between(r, S, before, after) \in Ranks
<1>1. \A c \in {before, after} : Ranked(r, c) => r[c] \in Nat /\ r[c] < RankLimit
  <2>1. \A c \in {before, after} : Ranked(r, c) => c \in DOMAIN column /\ r[c] # RankLimit
    BY DEF Ranked, NoRank
  <2> QED
    BY <2>1, CardsAreFinite DEF RanksOK
<1>2. ASSUME NEW n \in Nat, n < RankLimit PROVE n \in Ranks
  BY <1>2, CardsAreFinite DEF Ranks
<1>3. CASE Ranked(r, before) /\ Ranked(r, after)
  <2>1. (r[before] + r[after]) \div 2 \in Nat /\ (r[before] + r[after]) \div 2 < RankLimit
    BY <1>1, <1>3, CardsAreFinite
  <2> QED
    BY <1>2, <1>3, <2>1 DEF Between
<1>4. CASE Ranked(r, before) /\ ~Ranked(r, after)
  <2>1. r[before] \div 2 \in Nat /\ r[before] \div 2 < RankLimit
    BY <1>1, <1>4, CardsAreFinite
  <2> QED
    BY <1>2, <1>4, <2>1 DEF Between
<1>5. CASE ~Ranked(r, before) /\ Ranked(r, after)
  <2>1. r[after] + RankStep \in Nat
    BY <1>1, <1>5, CardsAreFinite
  <2> QED
    BY <1>5, <2>1, RemainderIsLess DEF Between
<1>6. CASE ~Ranked(r, before) /\ ~Ranked(r, after)
  BY <1>6, AtEndIsARank DEF Between
<1> QED
  BY <1>3, <1>4, <1>5, <1>6

\* What a rebalance leaves: ranks, and ranked cards where it was.
LEMMA RebalancedIsOK ==
    ASSUME BoardInv, NEW k, NEW S \in SUBSET InColumn(k)
    PROVE  /\ RanksOK(Rebalanced(rank, S))
           /\ DOMAIN Rebalanced(rank, S) = DOMAIN column
           /\ \A c \in S : Ranked(Rebalanced(rank, S), c)
<1> DEFINE r == Rebalanced(rank, S)
<1>1. DOMAIN r = DOMAIN column /\ S \subseteq DOMAIN column
  BY RanksAreOK DEF Rebalanced, InColumn
<1>2. \A c \in S : r[c] \in Nat /\ r[c] < RankLimit
  BY RanksAreOK, RebalancedIs
<1>3. \A c \in DOMAIN column \ S : r[c] = rank[c]
  BY <1>1, RanksAreOK DEF Rebalanced
<1>4. \A c \in S : c # Nobody
  BY <1>1, RanksAreOK
<1> HIDE DEF r
<1>5. RanksOK(r)
  BY <1>2, <1>3, RanksAreOK, CardsAreFinite DEF RanksOK
<1>6. \A c \in S : Ranked(r, c)
  BY <1>2, <1>4, CardsAreFinite DEF Ranked, NoRank
<1> QED
  BY <1>1, <1>5, <1>6 DEF r

\* The ranks that Between() reads.
Roomy(all, before, after) ==
    IF NeedsRoom(rank, before, after) THEN Rebalanced(rank, all) ELSE rank

LEMMA PlacedIs ==
    ASSUME BoardInv, NEW i \in DOMAIN column, NEW k,
           NEW S, S = InColumn(k) \ {i}, NEW all, S \subseteq all, all \subseteq InColumn(k),
           NEW before, NEW after, CanPlace(S, before, after),
           NEW r, r = Roomy(all, before, after)
    PROVE  /\ RanksOK(r) /\ DOMAIN r = DOMAIN column
           /\ Between(r, S, before, after) \in Ranks
           /\ Placed(i, S, all, before, after) = [r EXCEPT ![i] = Between(r, S, before, after)]
           /\ Placed(i, S, all, before, after) \in [DOMAIN column -> Ranks \cup {NoRank}]
<1>1. S \subseteq DOMAIN column
  BY DEF InColumn
<1>2. {before, after} \subseteq S \cup {Nobody}
  BY DEF CanPlace
<1>3. RanksOK(r) /\ DOMAIN r = DOMAIN column
  BY <1>1, RanksAreOK, RebalancedIsOK DEF Roomy
<1>4. r = rank \/ (before # Nobody /\ Ranked(r, before))
  <2>1. CASE NeedsRoom(rank, before, after)
    <3>1. before \in S
      BY <1>2, <2>1 DEF NeedsRoom, Ranked
    <3> QED
      BY <1>1, <2>1, <3>1, RebalancedIsOK DEF Ranked, Roomy
  <2> QED
    BY <2>1 DEF Roomy
<1>5. Between(r, S, before, after) \in Ranks
  BY <1>1, <1>2, <1>3, <1>4, BetweenIsARank
<1>6. r \in [DOMAIN column -> Ranks \cup {NoRank}]
  <2>1. \A n \in Nat : n <= RankLimit => n \in Ranks \cup {NoRank}
    BY CardsAreFinite DEF Ranks, NoRank
  <2>2. r = [c \in DOMAIN column |-> r[c]]
    BY <1>3, RanksAreOK DEF Roomy, Rebalanced, BoardInv, BoardTypeOK
  <2> QED
    BY <1>3, <2>1, <2>2 DEF RanksOK
<1>7. Placed(i, S, all, before, after) = [r EXCEPT ![i] = Between(r, S, before, after)]
  BY DEF Placed, Roomy
<1> QED
  BY <1>3, <1>5, <1>6, <1>7

-----------------------------------------------------------------------------
LEMMA OrderIsKeptBy ==
    ASSUME NEW S, NEW r, NEW q, KeepsOrder(S, r), \A c \in S : q[c] = r[c]
    PROVE  KeepsOrder(S, q)
BY DEF KeepsOrder, Precedes

LEMMA MovesAreAsAsked ==
    ASSUME BoardInv
    PROVE  MovedAsAsked
<1> SUFFICES ASSUME NEW i \in DOMAIN entry, NEW k \in Columns,
                    NEW before \in DOMAIN entry \cup {Nobody},
                    NEW after \in DOMAIN entry \cup {Nobody},
                    NEW S, S = InColumn(k) \ {i}, NEW q,
                    q = Placed(i, S, InColumn(k), before, after),
                    CanPlace(S, before, after)
             PROVE  /\ before # Nobody => Precedes(q, i, before)
                    /\ Ranked(rank, after) /\ rank[after] + RankStep < RankLimit
                         => Precedes(q, after, i)
                    /\ KeepsOrder(S, q)
  BY DEF MovedAsAsked
<1>1. i \in DOMAIN column /\ S \subseteq InColumn(k) /\ S \subseteq DOMAIN column /\ i \notin S
  BY RanksAreOK DEF InColumn
<1> DEFINE r == Roomy(InColumn(k), before, after)
<1>2. /\ \/ r = rank /\ ~NeedsRoom(rank, before, after)
         \/ r = Rebalanced(rank, InColumn(k)) /\ NeedsRoom(rank, before, after)
      /\ RanksOK(r) /\ DOMAIN r = DOMAIN column
      /\ Between(r, S, before, after) \in Ranks
      /\ q = [r EXCEPT ![i] = Between(r, S, before, after)]
  <2>1. /\ RanksOK(r) /\ DOMAIN r = DOMAIN column
        /\ Between(r, S, before, after) \in Ranks
        /\ q = [r EXCEPT ![i] = Between(r, S, before, after)]
    BY <1>1, PlacedIs
  <2> QED
    BY <2>1 DEF Roomy
<1> HIDE DEF r
<1>3. q[i] = Between(r, S, before, after) /\ \A c \in S : q[c] = r[c]
  BY <1>1, <1>2
<1>4. \A c \in S : c # Nobody /\ r[c] \in Nat /\ r[c] <= RankLimit
  BY <1>1, <1>2, RanksAreOK DEF RanksOK
<1>5. /\ before # Nobody => before \in S
      /\ after # Nobody => after \in S
  BY DEF CanPlace
<1>6. q[i] \in Nat /\ q[i] < RankLimit
  BY <1>2, <1>3, CardsAreFinite DEF Ranks
<1>7. \A c \in S : Ranked(r, c) <=> r[c] < RankLimit
  BY <1>4, CardsAreFinite DEF Ranked, NoRank
<1>8. KeepsOrder(S, q)
  <2>1. KeepsOrder(S, r)
    <3>1. CASE r = rank
      BY <3>1 DEF KeepsOrder
    <3>2. CASE r = Rebalanced(rank, InColumn(k))
      <4>1. KeepsOrder(InColumn(k), r)
        BY <3>2, RanksAreOK, RebalancedKeepsOrder
      <4> QED
        BY <1>1, <4>1 DEF KeepsOrder
    <3> QED
      BY <1>2, <3>1, <3>2
  <2> QED
    BY <1>3, <2>1, OrderIsKeptBy
<1>9. ASSUME NEW c \in S, NEW d \in S, r[c] < q[i], q[i] < r[d]
      PROVE  Precedes(q, c, i) /\ Precedes(q, i, d)
  BY <1>3, <1>9 DEF Precedes
<1>10. ASSUME NEW d \in S, q[i] < r[d] PROVE Precedes(q, i, d)
  BY <1>3, <1>10 DEF Precedes
<1>11. ASSUME NEW c \in S, r[c] < q[i] PROVE Precedes(q, c, i)
  BY <1>3, <1>11 DEF Precedes
\* Where the column has been rebalanced, a neighbour is a step away.
<1>12. CASE NeedsRoom(rank, before, after)
  <2>1. before \in S /\ Ranked(rank, before) /\ r = Rebalanced(rank, InColumn(k))
    BY <1>2, <1>5, <1>12 DEF NeedsRoom, Ranked
  <2>2. Ranked(r, before) /\ RankStep <= r[before]
    BY <1>1, <2>1, RanksAreOK, RebalancedIsOK, RebalancedIs
  <2>3. CASE after = Nobody
    <3>1. q[i] = r[before] \div 2
      BY <1>3, <2>2, <2>3 DEF Between, Ranked
    <3>2. q[i] < r[before]
      BY <1>4, <2>1, <2>2, <3>1, CardsAreFinite
    <3> QED
      BY <1>8, <1>10, <2>1, <2>3, <3>2 DEF Ranked
  <2>4. CASE after # Nobody
    <3>1. after \in S /\ Precedes(rank, after, before)
      BY <1>4, <1>5, <2>1, <2>4 DEF CanPlace
    <3>2. r[after] + RankStep <= r[before]
      BY <1>1, <2>1, <3>1, RanksAreOK, RebalancedIsSpaced
    <3>3. Ranked(r, after)
      BY <1>1, <2>1, <3>1, RebalancedIsOK
    <3>4. q[i] = (r[before] + r[after]) \div 2
      BY <1>3, <2>2, <3>3 DEF Between
    <3>5. q[i] < r[before] /\ r[after] < q[i]
      BY <1>4, <2>1, <3>1, <3>2, <3>4, CardsAreFinite
    <3> QED
      BY <1>8, <1>9, <2>1, <3>1, <3>5
  <2> QED
    BY <2>3, <2>4
\* Where it has not, there is a rank between the neighbours.
<1>13. CASE ~NeedsRoom(rank, before, after)
  <2>1. r = rank
    BY <1>2, <1>13
  <2>2. CASE Ranked(r, before) /\ Ranked(r, after)
    <3>1. r[before] - r[after] > 1 /\ before \in S /\ after \in S
      <4>1. ~(r[before] - r[after] <= 1) /\ before \in S /\ after \in S
        BY <1>5, <1>13, <2>1, <2>2 DEF NeedsRoom, Ranked
      <4> QED
        BY <1>4, <4>1
    <3>2. q[i] = (r[before] + r[after]) \div 2
      BY <1>3, <2>2 DEF Between
    <3>3. q[i] < r[before] /\ r[after] < q[i]
      BY <1>4, <3>1, <3>2
    <3> QED
      BY <1>8, <1>9, <3>1, <3>3
  <2>3. CASE Ranked(r, before) /\ ~Ranked(r, after)
    <3>1. r[before] > 1 /\ before \in S
      <4>1. ~(r[before] <= 1) /\ before \in S
        BY <1>5, <1>13, <2>1, <2>3 DEF NeedsRoom, Ranked
      <4> QED
        BY <1>4, <4>1
    <3>2. q[i] = r[before] \div 2
      BY <1>3, <2>3 DEF Between
    <3>3. q[i] < r[before]
      BY <1>4, <3>1, <3>2
    <3> QED
      BY <1>8, <1>10, <2>1, <2>3, <3>1, <3>3
  <2>4. CASE ~Ranked(r, before)
    <3>1. before # Nobody => Precedes(q, i, before)
      <4> SUFFICES ASSUME before # Nobody PROVE Precedes(q, i, before)
        OBVIOUS
      <4>1. before \in S /\ r[before] = RankLimit
        BY <1>5, <2>4 DEF Ranked, NoRank
      <4>2. q[i] < r[before]
        BY <1>6, <4>1
      <4> QED
        BY <1>10, <4>1, <4>2
    <3>2. ASSUME Ranked(rank, after), rank[after] + RankStep < RankLimit
          PROVE  Precedes(q, after, i)
      <4>1. after \in S
        BY <1>5, <3>2 DEF Ranked
      <4>2. q[i] = RankFormat(r[after] + RankStep)
        BY <1>3, <2>1, <2>4, <3>2 DEF Between
      <4>3. r[after] + RankStep \in Nat /\ r[after] + RankStep < RankLimit /\ r[after] < r[after] + RankStep
        BY <1>4, <2>1, <3>2, <4>1, CardsAreFinite
      <4>4. r[after] < q[i]
        BY <4>2, <4>3, RemainderIsLess
      <4> QED
        BY <1>11, <4>1, <4>4
    <3> QED
      BY <1>8, <3>1, <3>2
  <2> QED
    BY <2>2, <2>3, <2>4
<1> QED
  BY <1>12, <1>13

LEMMA LastsAreAsAsked ==
    ASSUME BoardInv
    PROVE  LastAsAsked
<1> SUFFICES ASSUME NEW t \in DOMAIN column \cap Tasks, NEW k \in Siblinghoods,
                    NEW S, S = InColumn(k) \ {t}, NEW q,
                    q = Placed(t, S, S, Nobody, Nobody)
             PROVE  /\ (\A c \in S : rank[c] + RankStep < RankLimit)
                          => \A c \in S : Precedes(q, c, t)
                    /\ KeepsOrder(S, q)
                    /\ KeepsOrder(S, Rebalanced(rank, S))
  BY DEF LastAsAsked
<1>1. S \subseteq InColumn(k) /\ S \subseteq DOMAIN column /\ t \notin S
  BY DEF InColumn
<1>2. KeepsOrder(S, Rebalanced(rank, S))
  BY <1>1, RanksAreOK, RebalancedKeepsOrder
<1>3. q = [rank EXCEPT ![t] = AtEnd(rank, S)]
  BY DEF Placed, NeedsRoom, Between, Ranked
<1>4. q[t] = AtEnd(rank, S) /\ \A c \in S : q[c] = rank[c]
  BY <1>1, <1>3, RanksAreOK
<1>5. KeepsOrder(S, q)
  <2>1. KeepsOrder(S, rank)
    BY DEF KeepsOrder
  <2> QED
    BY <1>4, <2>1, OrderIsKeptBy
<1>6. ASSUME \A c \in S : rank[c] + RankStep < RankLimit, NEW c \in S
      PROVE  Precedes(q, c, t)
  <2>1. PICK m \in S :
           /\ {x \in S : \A d \in S \ {x} : Precedes(rank, d, x)} = {m}
           /\ \A x \in S : x # m => Precedes(rank, x, m)
    <3>1. S # {} /\ S \in SUBSET DOMAIN column
      BY <1>1, <1>6
    <3> QED
      BY <3>1, LastIsThere
  <2>2. rank[m] \in Nat /\ rank[m] + RankStep < RankLimit /\ rank[c] \in Nat
    BY <1>1, <1>6, <2>1, RanksAreOK DEF RanksOK
  <2>3. Ranked(rank, m)
    <3>1. rank[m] # RankLimit
      BY <2>2, CardsAreFinite
    <3> QED
      BY <1>1, <2>1, <3>1, RanksAreOK DEF Ranked, NoRank
  <2>4. AtEnd(rank, S) = RankFormat(rank[m] + RankStep)
    <3>1. (CHOOSE x \in {m} : TRUE) = m
      OBVIOUS
    <3> QED
      BY <2>1, <2>3, <3>1 DEF AtEnd
  <2>5. q[t] = rank[m] + RankStep
    BY <1>4, <2>2, <2>4, CardsAreFinite, RemainderIsLess
  <2>6. rank[c] <= rank[m]
    BY <2>1, <2>2 DEF Precedes
  <2>7. q[c] < q[t]
    BY <1>4, <2>2, <2>5, <2>6, CardsAreFinite
  <2> QED
    BY <2>7 DEF Precedes
<1> QED
  BY <1>2, <1>5, <1>6

-----------------------------------------------------------------------------
(***************************************************************************)
(* Lists.  reorderItems() gives every other item its place, or the place   *)
(* after it from the one asked for on: so as many come before the moved    *)
(* one as have a smaller place.                                            *)
(***************************************************************************)
ListOrder(S) == {p \in S \X S : Earlier(entry, p[1], p[2])}

LEMMA ItemsAreOrdered ==
    ASSUME BoardInv, NEW S \in SUBSET DOMAIN entry
    PROVE  IsFiniteSet(S) /\ StrictOrder(ListOrder(S), S)
<1>1. S \subseteq Items /\ \A i \in S : entry[i].index \in Nat /\ i \in Nat
  BY BoardAssumption DEF BoardInv, BoardTypeOK
<1>2. \A i, j \in S : <<i, j>> \in ListOrder(S) <=>
          entry[i].index < entry[j].index \/ (entry[i].index = entry[j].index /\ i < j)
  BY DEF ListOrder, Earlier
<1>3. \A i \in S : <<i, i>> \notin ListOrder(S)
  BY <1>1, <1>2
<1>4. \A i, j, k \in S : <<i, j>> \in ListOrder(S) /\ <<j, k>> \in ListOrder(S)
          => <<i, k>> \in ListOrder(S)
  BY <1>1, <1>2
<1>5. \A i, j \in S : i # j => <<i, j>> \in ListOrder(S) \/ <<j, i>> \in ListOrder(S)
  BY <1>1, <1>2
<1>6. IsFiniteSet(S)
  BY <1>1, BoardAssumption, FS_Subset
<1> QED
  BY <1>3, <1>4, <1>5, <1>6 DEF StrictOrder

LEMMA ListsAreAsAsked ==
    ASSUME BoardInv
    PROVE  ListedAsAsked
<1> SUFFICES ASSUME NEW i \in DOMAIN entry, NEW index \in 0 .. MaxIndex
             PROVE  LET S == InList(entry, entry[i].list) \ {i}
                        e == Reordered(entry, entry[i].list, i, index)
                    IN  /\ e[i].index \in {index, Cardinality(S)}
                        /\ e[i].index = Cardinality({j \in S : Earlier(e, j, i)})
                        /\ \A j \in S : e[j].index # e[i].index
                        /\ \A j, k \in S : Earlier(entry, j, k) => e[j].index < e[k].index
  BY DEF ListedAsAsked
<1> DEFINE S == InList(entry, entry[i].list) \ {i}
           e == Reordered(entry, entry[i].list, i, index)
           R == ListOrder(S)
           N == Cardinality(S)
           at == IF index <= N THEN index ELSE N
           p(j) == PlaceOf(R, S, j)
<1>1. S \subseteq DOMAIN entry /\ i \notin S /\ S = InList(entry, entry[i].list) \ {i}
  BY DEF InList
<1>2. IsFiniteSet(S) /\ StrictOrder(R, S)
  BY <1>1, ItemsAreOrdered
<1>3. N \in Nat /\ at \in Nat /\ at <= N /\ at \in {index, N}
  BY <1>2, FS_CardinalityType, BoardAssumption
<1>4. \A j \in S : p(j) \in Nat
  BY <1>2, PlacesAreOrdered
<1>5. \A j \in S : p(j) = Cardinality({k \in S : Earlier(entry, k, j)})
  <2>1. ASSUME NEW j \in S
        PROVE  BeforeIt(R, S, j) = {k \in S : Earlier(entry, k, j)}
    BY DEF BeforeIt, ListOrder
  <2> QED
    BY <2>1 DEF PlaceOf
<1>6. i # Nobody
  BY RanksAreOK
<1>7. e[i].index = at
  <2>1. e[i] = [entry[i] EXCEPT !.index = at]
    BY DEF Reordered
  <2>2. entry[i] \in [list : Lists, index : Nat]
    BY DEF BoardInv, BoardTypeOK
  <2> QED
    BY <2>1, <2>2
<1>8. ASSUME NEW j \in S
      PROVE  e[j].index = p(j) + (IF p(j) >= at THEN 1 ELSE 0)
  <2>1. e[j] = [entry[j] EXCEPT !.index = p(j) + (IF p(j) >= at THEN 1 ELSE 0)]
    BY <1>1, <1>5, <1>6 DEF Reordered
  <2>2. entry[j] \in [list : Lists, index : Nat]
    BY <1>1 DEF BoardInv, BoardTypeOK
  <2> QED
    BY <2>1, <2>2
<1>9. \A j, k \in S : Earlier(entry, j, k) => p(j) < p(k)
  <2>1. \A j, k \in S : Earlier(entry, j, k) => <<j, k>> \in R
    BY DEF ListOrder
  <2> QED
    BY <1>2, <2>1, PlacesAreOrdered
<1>10. Cardinality({j \in S : p(j) < at}) = at
  BY <1>2, <1>3, PlacesAreCounted
<1> HIDE DEF R, N, at, p, S, e
<1>11. ASSUME NEW j \in S
       PROVE  e[j].index # at /\ (e[j].index < at <=> p(j) < at)
  BY <1>3, <1>4, <1>8
<1>12. {j \in S : Earlier(e, j, i)} = {j \in S : p(j) < at}
  BY <1>7, <1>11 DEF Earlier
<1>13. ASSUME NEW j \in S, NEW k \in S, Earlier(entry, j, k)
       PROVE  e[j].index < e[k].index
  <2>1. p(j) < p(k) /\ p(j) \in Nat /\ p(k) \in Nat
    BY <1>4, <1>9, <1>13
  <2>2. /\ e[j].index = p(j) + (IF p(j) >= at THEN 1 ELSE 0)
        /\ e[k].index = p(k) + (IF p(k) >= at THEN 1 ELSE 0)
    BY <1>8
  <2> QED
    BY <1>3, <2>1, <2>2
<1>14. e[i].index \in {index, Cardinality(S)}
  BY <1>3, <1>7 DEF N
<1>15. e[i].index = Cardinality({j \in S : Earlier(e, j, i)})
  BY <1>7, <1>10, <1>12
<1>16. \A j \in S : e[j].index # e[i].index
  BY <1>7, <1>11
<1> QED
  BY <1>13, <1>14, <1>15, <1>16 DEF S, e

\* What is listed stays listed, with an index.
LEMMA ReorderedIsOK ==
    ASSUME NEW e, NEW D \in SUBSET Items, e \in [D -> [list : Lists, index : Nat]],
           NEW l, NEW moving, NEW index \in Nat
    PROVE  Reordered(e, l, moving, index) \in [D -> [list : Lists, index : Nat]]
<1> DEFINE rest == InList(e, l) \ {moving}
           place(i) == Cardinality({j \in rest : Earlier(e, j, i)})
           n == Cardinality(rest)
           at == IF index <= n THEN index ELSE n
           q == Reordered(e, l, moving, index)
<1>1. rest \subseteq D /\ DOMAIN e = D
  BY DEF InList
<1>2. IsFiniteSet(rest)
  BY <1>1, BoardAssumption, FS_Subset
<1>3. at \in Nat
  BY <1>2, FS_CardinalityType
<1>4. \A i \in D : place(i) \in Nat
  <2>1. \A i \in D : IsFiniteSet({j \in rest : Earlier(e, j, i)})
    BY <1>2, FS_Subset
  <2> QED
    BY <2>1, FS_CardinalityType
<1>5. q = [i \in D |->
             CASE i = moving -> [e[i] EXCEPT !.index = at]
               [] i \in rest ->
                    [e[i] EXCEPT !.index =
                        place(i) + (IF moving # Nobody /\ place(i) >= at THEN 1 ELSE 0)]
               [] OTHER -> e[i]]
  BY <1>1 DEF Reordered
<1>6. moving \notin rest
  OBVIOUS
<1> HIDE DEF rest, place, n, at, q
<1>7. ASSUME NEW i \in D PROVE q[i] \in [list : Lists, index : Nat]
  <2>1. e[i] \in [list : Lists, index : Nat]
    OBVIOUS
  <2>2. ASSUME NEW x \in Nat PROVE [e[i] EXCEPT !.index = x] \in [list : Lists, index : Nat]
    BY <2>1
  <2>3. place(i) + (IF moving # Nobody /\ place(i) >= at THEN 1 ELSE 0) \in Nat
    BY <1>4
  <2>4. CASE i = moving
    <3>1. q[i] = [e[i] EXCEPT !.index = at]
      BY <1>5, <1>6, <2>4
    <3> QED
      BY <1>3, <2>2, <3>1
  <2>5. CASE i # moving /\ i \in rest
    <3>1. q[i] = [e[i] EXCEPT !.index =
                     place(i) + (IF moving # Nobody /\ place(i) >= at THEN 1 ELSE 0)]
      BY <1>5, <2>5
    <3> QED
      BY <2>2, <2>3, <3>1
  <2>6. CASE i # moving /\ i \notin rest
    BY <1>5, <2>1, <2>6
  <2> QED
    BY <2>4, <2>5, <2>6
<1> QED
  BY <1>5, <1>7 DEF q

-----------------------------------------------------------------------------
(***************************************************************************)
(* The invariant.  What a handler does to the cards and what it does to    *)
(* the lists are told apart.                                               *)
(***************************************************************************)
CardsOK ==
    /\ DOMAIN column \subseteq Cards
    /\ column \in [DOMAIN column -> Columns \cup Siblinghoods]
    /\ rank \in [DOMAIN column -> Ranks \cup {NoRank}]
    /\ DOMAIN created \subseteq Cards /\ DOMAIN column \subseteq DOMAIN created
    /\ \A c \in DOMAIN created :
          created[c] \in Nat /\ created[c] < Cardinality(DOMAIN created)
    /\ \A c, d \in DOMAIN created : c # d => created[c] # created[d]
    /\ \A c \in DOMAIN column :
          /\ c \in Items => column[c] \in Columns
          /\ c \in Tasks => column[c] \in Siblinghoods

EntriesOK == entry \in [DOMAIN column \cap Items -> [list : Lists, index : Nat]]

LEMMA InvariantIsParted == BoardInv <=> CardsOK /\ EntriesOK
BY DEF BoardInv, BoardTypeOK, CardsOK, EntriesOK

LEMMA InvariantIsPartedNext == BoardInv' <=> CardsOK' /\ EntriesOK'
BY DEF BoardInv, BoardTypeOK, CardsOK, EntriesOK, Cards, Ranks, NoRank

LEMMA InsertKeeps ==
    ASSUME CardsOK, NEW c \in Cards, NEW k,
           c \in Items => k \in Columns, c \in Tasks => k \in Siblinghoods,
           NEW n \in Ranks \cup {NoRank}, Insert(c, k, n)
    PROVE  CardsOK' /\ DOMAIN column' = DOMAIN column \cup {c}
<1> DEFINE N == Cardinality(DOMAIN created)
<1>1. /\ c \notin DOMAIN created
      /\ DOMAIN column' = DOMAIN column \cup {c} /\ DOMAIN rank' = DOMAIN column \cup {c}
      /\ DOMAIN created' = DOMAIN created \cup {c}
      /\ \A d \in DOMAIN column : column'[d] = column[d] /\ rank'[d] = rank[d]
      /\ \A d \in DOMAIN created : created'[d] = created[d]
      /\ column'[c] = k /\ rank'[c] = n /\ created'[c] = N
      /\ column' = [d \in DOMAIN column \cup {c} |-> column'[d]]
      /\ rank' = [d \in DOMAIN column \cup {c} |-> rank'[d]]
  BY DEF Insert, CardsOK
<1>2. Cardinality(DOMAIN created') = N + 1 /\ N \in Nat
  <2>1. IsFiniteSet(DOMAIN created)
    BY CardsAreFinite, FS_Subset DEF CardsOK
  <2> QED
    BY <1>1, <2>1, FS_AddElement, FS_CardinalityType
<1> HIDE DEF N
<1>3. /\ DOMAIN column' \subseteq Cards
      /\ DOMAIN created' \subseteq Cards /\ DOMAIN column' \subseteq DOMAIN created'
  BY <1>1 DEF CardsOK
<1>4. column' \in [DOMAIN column' -> Columns \cup Siblinghoods]
  BY <1>1 DEF CardsOK, Cards
<1>5. rank' \in [DOMAIN column' -> Ranks \cup {NoRank}]
  BY <1>1 DEF CardsOK
<1>6. \A d \in DOMAIN created' :
         created'[d] \in Nat /\ created'[d] < Cardinality(DOMAIN created')
  BY <1>1, <1>2 DEF CardsOK, N
<1>7. \A d, e \in DOMAIN created' : d # e => created'[d] # created'[e]
  <2>1. \A d \in DOMAIN created : created'[d] # created'[c]
    BY <1>1, <1>2 DEF CardsOK, N
  <2> QED
    BY <1>1, <2>1 DEF CardsOK
<1>8. \A d \in DOMAIN column' :
          /\ d \in Items => column'[d] \in Columns
          /\ d \in Tasks => column'[d] \in Siblinghoods
  BY <1>1 DEF CardsOK
<1> QED
  BY <1>1, <1>3, <1>4, <1>5, <1>6, <1>7, <1>8 DEF CardsOK, Cards, Ranks, NoRank

\* Cards that stay, in one of the columns they may be in.
LEMMA CardsStayOK ==
    ASSUME CardsOK, UNCHANGED created, DOMAIN column' \subseteq DOMAIN column,
           column' \in [DOMAIN column' -> Columns \cup Siblinghoods],
           rank' \in [DOMAIN column' -> Ranks \cup {NoRank}],
           \A c \in DOMAIN column' : \/ column'[c] = column[c]
                                     \/ c \in Items /\ column'[c] \in Columns
                                     \/ c \in Tasks /\ column'[c] \in Siblinghoods
    PROVE  CardsOK'
<1>1. \A c : ~(c \in Items /\ c \in Tasks)
  BY BoardAssumption
<1>2. \A c \in DOMAIN column' :
          /\ c \in Items => column'[c] \in Columns
          /\ c \in Tasks => column'[c] \in Siblinghoods
  BY <1>1 DEF CardsOK
<1> QED
  BY <1>2 DEF CardsOK, Cards, Ranks, NoRank

LEMMA RemoveKeeps ==
    ASSUME CardsOK, NEW S, NEW r, Remove(S, r),
           \A c \in DOMAIN column \ S : r[c] \in Ranks \cup {NoRank}
    PROVE  CardsOK' /\ DOMAIN column' = DOMAIN column \ S
<1>1. /\ DOMAIN column' = DOMAIN column \ S
      /\ \A c \in DOMAIN column' : column'[c] = column[c] /\ rank'[c] = r[c]
      /\ column' \in [DOMAIN column' -> Columns \cup Siblinghoods]
      /\ rank' \in [DOMAIN column' -> Ranks \cup {NoRank}]
      /\ UNCHANGED created
  BY DEF Remove, CardsOK
<1> QED
  BY <1>1, CardsStayOK

LEMMA WithIsOK ==
    ASSUME NEW i \in Items, NEW D, NEW E, E = (D \cup {i}) \cap Items,
           entry \in [D \cap Items -> [list : Lists, index : Nat]],
           NEW l \in Lists, NEW n \in Nat
    PROVE  With(i, l, n) \in [E -> [list : Lists, index : Nat]]
BY DEF With

LEMMA BoardInvInit == BoardInit => BoardInv
<1> SUFFICES ASSUME BoardInit PROVE CardsOK /\ EntriesOK
  BY InvariantIsParted
<1>1. PICK S \in SUBSET Items :
        /\ column \in [S -> Columns]
        /\ rank \in [S -> GivenRanks \cup {NoRank}]
        /\ created \in [S -> 0 .. Cardinality(S) - 1]
        /\ \A i, j \in S : i # j => created[i] # created[j]
        /\ entry \in [S -> [list : Lists, index : 0 .. MaxIndex]]
  BY DEF BoardInit
<1>2. DOMAIN column = S /\ DOMAIN created = S /\ S \cap Items = S /\ S \subseteq Cards
  BY <1>1 DEF Cards
<1>3. Cardinality(S) \in Nat
  BY <1>1, BoardAssumption, FS_Subset, FS_CardinalityType
<1>4. \A c \in S : created[c] \in Nat /\ created[c] < Cardinality(S)
  BY <1>1, <1>3
<1>5. rank \in [S -> Ranks \cup {NoRank}] /\ column \in [S -> Columns \cup Siblinghoods]
  BY <1>1, BoardAssumption DEF Ranks
<1>6. \A c \in S : c \in Items /\ column[c] \in Columns /\ c \notin Tasks
  BY <1>1, BoardAssumption
<1>7. CardsOK
  BY <1>1, <1>2, <1>4, <1>5, <1>6 DEF CardsOK
<1>8. entry \in [S -> [list : Lists, index : Nat]]
  <2>1. \A i \in S : entry[i] \in [list : Lists, index : Nat]
    BY <1>1, BoardAssumption
  <2> QED
    BY <1>1, <2>1
<1> QED
  BY <1>2, <1>7, <1>8 DEF EntriesOK

LEMMA AddItemKeeps ==
    ASSUME BoardInv, NEW i \in Items, NEW k \in Columns, NEW l \in Lists,
           NEW index \in 0 .. MaxIndex, NEW n \in GivenRanks \cup {NoRank},
           AddItem(i, l, k, index, n)
    PROVE  BoardInv'
<1>1. CardsOK /\ EntriesOK
  BY InvariantIsParted
<1>2. /\ i \in Cards /\ i \notin Tasks /\ n \in Ranks \cup {NoRank} /\ index \in Nat
      /\ Insert(i, k, n)
  BY BoardAssumption DEF AddItem, Cards, Ranks
<1>3. CardsOK' /\ DOMAIN column' = DOMAIN column \cup {i}
  BY <1>1, <1>2, InsertKeeps
<1> DEFINE D == DOMAIN column' \cap Items
<1>4. With(i, l, 0) \in [D -> [list : Lists, index : Nat]]
  BY <1>1, <1>3, WithIsOK DEF EntriesOK
<1>5. entry' \in [D -> [list : Lists, index : Nat]]
  <2>1. entry' = Reordered(With(i, l, 0), l, i, index) /\ D \in SUBSET Items
    BY DEF AddItem
  <2> HIDE DEF D
  <2> QED
    BY <1>2, <1>4, <2>1, ReorderedIsOK
<1> QED
  BY <1>3, <1>5, InvariantIsPartedNext DEF EntriesOK

LEMMA AppendItemKeeps ==
    ASSUME BoardInv, NEW i \in Items, NEW k \in Columns, NEW l \in Lists, AppendItem(i, l, k)
    PROVE  BoardInv'
<1>1. CardsOK /\ EntriesOK
  BY InvariantIsParted
<1>2. i \in Cards /\ i \notin Tasks /\ Insert(i, k, NoRank)
  BY BoardAssumption DEF AppendItem, Cards
<1>3. CardsOK' /\ DOMAIN column' = DOMAIN column \cup {i}
  BY <1>1, <1>2, InsertKeeps
<1> DEFINE D == DOMAIN column' \cap Items
           n == Cardinality(InList(entry, l))
<1>4. n \in Nat
  <2>1. InList(entry, l) \subseteq Items
    BY <1>1 DEF InList, EntriesOK
  <2> QED
    BY <2>1, BoardAssumption, FS_Subset, FS_CardinalityType
<1>5. entry' \in [D -> [list : Lists, index : Nat]]
  <2>1. entry' = With(i, l, n)
    BY DEF AppendItem
  <2> HIDE DEF n
  <2> QED
    BY <1>1, <1>3, <1>4, <2>1, WithIsOK DEF EntriesOK
<1> QED
  BY <1>3, <1>5, InvariantIsPartedNext DEF EntriesOK

\* The lists and the cards in them are as they were.
LEMMA ListsStayOK ==
    ASSUME EntriesOK, DOMAIN column' \cap Items = DOMAIN column \cap Items, UNCHANGED entry
    PROVE  EntriesOK'
BY DEF EntriesOK

LEMMA MoveItemKeeps ==
    ASSUME BoardInv, NEW i \in Items, NEW k \in Columns,
           NEW before, NEW after, MoveItem(i, k, before, after)
    PROVE  BoardInv'
<1>1. CardsOK /\ EntriesOK
  BY InvariantIsParted
<1>2. /\ i \in DOMAIN column /\ DOMAIN column' = DOMAIN column
      /\ column' = [column EXCEPT ![i] = k]
      /\ UNCHANGED <<created, entry>>
  BY DEF MoveItem
<1>3. rank' \in [DOMAIN column -> Ranks \cup {NoRank}]
  <2>1. CASE UNCHANGED rank
    BY <1>1, <2>1 DEF CardsOK
  <2>2. CASE rank' # rank
    <3> DEFINE S == InColumn(k) \ {i}
    <3>1. /\ CanPlace(S, before, after)
          /\ rank' = Placed(i, S, InColumn(k), before, after)
      BY <2>2 DEF MoveItem
    <3>2. S \subseteq InColumn(k) /\ S = InColumn(k) \ {i}
      OBVIOUS
    <3> HIDE DEF S
    <3> QED
      BY <1>2, <3>1, <3>2, PlacedIs
  <2> QED
    BY <2>1, <2>2
<1>4. /\ column' \in [DOMAIN column' -> Columns \cup Siblinghoods]
      /\ \A c \in DOMAIN column' : column'[c] = column[c] \/ (c \in Items /\ column'[c] \in Columns)
  BY <1>1, <1>2 DEF CardsOK
<1>5. CardsOK'
  BY <1>1, <1>2, <1>3, <1>4, CardsStayOK
<1>6. EntriesOK'
  BY <1>1, <1>2, ListsStayOK
<1> QED
  BY <1>5, <1>6, InvariantIsPartedNext

LEMMA UpdateIndexKeeps ==
    ASSUME BoardInv, NEW i \in Items, NEW index \in 0 .. MaxIndex, UpdateIndex(i, index)
    PROVE  BoardInv'
<1>1. CardsOK /\ EntriesOK
  BY InvariantIsParted
<1>2. /\ i \in DOMAIN entry /\ UNCHANGED <<column, rank, created>> /\ index \in Nat
      /\ entry' = Reordered(With(i, entry[i].list, index), entry[i].list, i, index)
  BY BoardAssumption DEF UpdateIndex
<1>3. CardsOK'
  BY <1>1, <1>2, CardsStayOK DEF CardsOK
<1> DEFINE D == DOMAIN column \cap Items
<1>4. /\ entry[i].list \in Lists /\ D = (DOMAIN column \cup {i}) \cap Items /\ D \in SUBSET Items
  BY <1>1, <1>2 DEF EntriesOK
<1>5. With(i, entry[i].list, index) \in [D -> [list : Lists, index : Nat]]
  BY <1>1, <1>2, <1>4, WithIsOK DEF EntriesOK
<1> HIDE DEF D
<1>6. entry' \in [D -> [list : Lists, index : Nat]]
  BY <1>2, <1>4, <1>5, ReorderedIsOK
<1>7. EntriesOK'
  BY <1>2, <1>6 DEF EntriesOK, D
<1> QED
  BY <1>3, <1>7, InvariantIsPartedNext

LEMMA UpdateRankKeeps ==
    ASSUME BoardInv, NEW i \in Items, NEW n \in GivenRanks \cup {NoRank}, UpdateRank(i, n)
    PROVE  BoardInv'
<1>1. CardsOK /\ EntriesOK
  BY InvariantIsParted
<1>2. /\ rank' = [rank EXCEPT ![i] = n] /\ UNCHANGED <<column, created, entry>>
      /\ n \in Ranks \cup {NoRank}
  BY BoardAssumption DEF UpdateRank, Ranks
<1>3. /\ rank' \in [DOMAIN column' -> Ranks \cup {NoRank}]
      /\ column' \in [DOMAIN column' -> Columns \cup Siblinghoods]
  BY <1>1, <1>2 DEF CardsOK
<1>4. CardsOK'
  BY <1>1, <1>2, <1>3, CardsStayOK
<1>5. EntriesOK'
  BY <1>1, <1>2, ListsStayOK
<1> QED
  BY <1>4, <1>5, InvariantIsPartedNext

LEMMA DeleteItemKeeps ==
    ASSUME BoardInv, NEW i \in Items, DeleteItem(i)
    PROVE  BoardInv'
<1>1. CardsOK /\ EntriesOK
  BY InvariantIsParted
<1>2. /\ i \in DOMAIN entry /\ Remove({i}, rank)
      /\ entry' = Reordered([j \in DOMAIN entry \ {i} |-> entry[j]], entry[i].list, Nobody, 0)
  BY DEF DeleteItem
<1>3. CardsOK' /\ DOMAIN column' = DOMAIN column \ {i}
  BY <1>1, <1>2, RemoveKeeps DEF CardsOK
<1> DEFINE D == DOMAIN column' \cap Items
           e == [j \in DOMAIN entry \ {i} |-> entry[j]]
<1>4. e \in [D -> [list : Lists, index : Nat]] /\ D \in SUBSET Items
  BY <1>1, <1>3 DEF EntriesOK
<1>5. entry' = Reordered(e, entry[i].list, Nobody, 0)
  BY <1>2
<1> HIDE DEF D, e
<1>6. entry' \in [D -> [list : Lists, index : Nat]]
  BY <1>4, <1>5, ReorderedIsOK
<1> QED
  BY <1>3, <1>6, InvariantIsPartedNext DEF EntriesOK, D

LEMMA RollUpKeeps ==
    ASSUME BoardInv, NEW c, NEW k, RollUp(c, k),
           (c \in Items /\ k \in Columns) \/ (c \in Tasks /\ k \in Siblinghoods)
    PROVE  BoardInv'
<1>1. CardsOK /\ EntriesOK
  BY InvariantIsParted
<1>2. /\ column' = [column EXCEPT ![c] = k] /\ UNCHANGED <<rank, created, entry>>
  BY DEF RollUp
<1>3. /\ DOMAIN column' = DOMAIN column
      /\ rank' \in [DOMAIN column' -> Ranks \cup {NoRank}]
      /\ column' \in [DOMAIN column' -> Columns \cup Siblinghoods]
      /\ \A d \in DOMAIN column' : \/ column'[d] = column[d]
                                   \/ d \in Items /\ column'[d] \in Columns
                                   \/ d \in Tasks /\ column'[d] \in Siblinghoods
  BY <1>1, <1>2 DEF CardsOK
<1>4. CardsOK'
  BY <1>1, <1>2, <1>3, CardsStayOK
<1>5. EntriesOK'
  BY <1>1, <1>2, <1>3, ListsStayOK
<1> QED
  BY <1>4, <1>5, InvariantIsPartedNext

LEMMA CreateTaskKeeps ==
    ASSUME BoardInv, NEW t \in Tasks, NEW k \in Siblinghoods,
           CreateTask(t, k) \/ ImportTask(t, k)
    PROVE  BoardInv'
<1>1. CardsOK /\ EntriesOK
  BY InvariantIsParted
<1>2. t \in Cards /\ t \notin Items /\ UNCHANGED entry
  BY BoardAssumption DEF CreateTask, ImportTask, Cards
<1>3. CardsOK' /\ DOMAIN column' = DOMAIN column \cup {t}
  <2>1. CASE CreateTask(t, k)
    <3>1. AtEnd(rank, InColumn(k)) \in Ranks \cup {NoRank}
      BY AtEndIsARank DEF InColumn
    <3> QED
      BY <1>1, <1>2, <2>1, <3>1, InsertKeeps DEF CreateTask
  <2>2. CASE ImportTask(t, k)
    <3>1. NoRank \in Ranks \cup {NoRank}
      OBVIOUS
    <3> QED
      BY <1>1, <1>2, <2>2, <3>1, InsertKeeps DEF ImportTask
  <2> QED
    BY <2>1, <2>2
<1>4. EntriesOK'
  BY <1>1, <1>2, <1>3, ListsStayOK
<1> QED
  BY <1>3, <1>4, InvariantIsPartedNext

LEMMA ReparentTaskKeeps ==
    ASSUME BoardInv, NEW t \in Tasks, NEW k \in Siblinghoods, ReparentTask(t, k)
    PROVE  BoardInv'
<1>1. CardsOK /\ EntriesOK
  BY InvariantIsParted
<1> DEFINE S == InColumn(k) \ {t}
<1>2. /\ t \in DOMAIN column /\ rank' = Placed(t, S, S, Nobody, Nobody)
      /\ column' = [column EXCEPT ![t] = k] /\ UNCHANGED <<created, entry>>
  BY DEF ReparentTask
<1>3. CanPlace(S, Nobody, Nobody)
  BY DEF CanPlace
<1>4. S \subseteq InColumn(k) /\ S = InColumn(k) \ {t}
  OBVIOUS
<1> HIDE DEF S
<1>5. rank' \in [DOMAIN column -> Ranks \cup {NoRank}]
  BY <1>2, <1>3, <1>4, PlacedIs
<1>6. /\ DOMAIN column' = DOMAIN column
      /\ column' \in [DOMAIN column' -> Columns \cup Siblinghoods]
      /\ \A c \in DOMAIN column' :
            column'[c] = column[c] \/ (c \in Tasks /\ column'[c] \in Siblinghoods)
  BY <1>1, <1>2 DEF CardsOK
<1>7. CardsOK'
  BY <1>1, <1>2, <1>5, <1>6, CardsStayOK
<1>8. EntriesOK'
  BY <1>1, <1>2, <1>6, ListsStayOK
<1> QED
  BY <1>7, <1>8, InvariantIsPartedNext

LEMMA DeleteTaskKeeps ==
    ASSUME BoardInv, NEW t \in Tasks, NEW S \in SUBSET (Tasks \ {t}), DeleteTask(t, S)
    PROVE  BoardInv'
<1>1. CardsOK /\ EntriesOK
  BY InvariantIsParted
<1> DEFINE T == InColumn(column[t]) \ {t}
           r == Rebalanced(rank, T)
<1>2. Remove(S \cup {t}, r) /\ UNCHANGED entry
  BY DEF DeleteTask
<1>3. \A c \in DOMAIN column \ (S \cup {t}) : r[c] \in Ranks \cup {NoRank}
  <2>1. RanksOK(r)
    BY RebalancedIsOK
  <2>2. \A n \in Nat : n <= RankLimit => n \in Ranks \cup {NoRank}
    BY CardsAreFinite DEF Ranks, NoRank
  <2> HIDE DEF r
  <2> QED
    BY <2>1, <2>2 DEF RanksOK
<1> HIDE DEF r
<1>4. CardsOK' /\ DOMAIN column' = DOMAIN column \ (S \cup {t})
  BY <1>1, <1>2, <1>3, RemoveKeeps
<1>5. DOMAIN column' \cap Items = DOMAIN column \cap Items
  BY <1>4, BoardAssumption
<1>6. EntriesOK'
  BY <1>1, <1>2, <1>5, ListsStayOK
<1> QED
  BY <1>4, <1>6, InvariantIsPartedNext

LEMMA BoardInvNext == BoardInv /\ [BoardNext]_boardVars => BoardInv'
<1> SUFFICES ASSUME BoardInv, [BoardNext]_boardVars PROVE BoardInv'
  OBVIOUS
<1>1. CASE UNCHANGED boardVars
  BY <1>1 DEF boardVars, BoardInv, BoardTypeOK, Cards, Ranks, NoRank
<1>2. CASE ItemsNext
  <2>1. PICK i \in Items, k \in Columns :
          \/ \E l \in Lists, index \in 0 .. MaxIndex, n \in GivenRanks \cup {NoRank} :
                 AddItem(i, l, k, index, n)
          \/ \E l \in Lists : AppendItem(i, l, k)
          \/ \E before, after \in Items \cup {Nobody} : MoveItem(i, k, before, after)
          \/ \E index \in 0 .. MaxIndex : UpdateIndex(i, index)
          \/ \E n \in GivenRanks \cup {NoRank} : UpdateRank(i, n)
          \/ DeleteItem(i)
          \/ RollUp(i, k)
    BY <1>2 DEF ItemsNext
  <2>2. CASE \E l \in Lists, index \in 0 .. MaxIndex, n \in GivenRanks \cup {NoRank} :
                 AddItem(i, l, k, index, n)
    BY <2>2, AddItemKeeps
  <2>3. CASE \E l \in Lists : AppendItem(i, l, k)
    BY <2>3, AppendItemKeeps
  <2>4. CASE \E before, after \in Items \cup {Nobody} : MoveItem(i, k, before, after)
    BY <2>4, MoveItemKeeps
  <2>5. CASE \E index \in 0 .. MaxIndex : UpdateIndex(i, index)
    BY <2>5, UpdateIndexKeeps
  <2>6. CASE \E n \in GivenRanks \cup {NoRank} : UpdateRank(i, n)
    BY <2>6, UpdateRankKeeps
  <2>7. CASE DeleteItem(i)
    BY <2>7, DeleteItemKeeps
  <2>8. CASE RollUp(i, k)
    BY <2>8, RollUpKeeps
  <2> QED
    BY <2>1, <2>2, <2>3, <2>4, <2>5, <2>6, <2>7, <2>8
<1>3. CASE TasksNext
  <2>1. PICK t \in Tasks, k \in Siblinghoods :
          \/ CreateTask(t, k)
          \/ ImportTask(t, k)
          \/ ReparentTask(t, k)
          \/ \E S \in SUBSET (Tasks \ {t}) : DeleteTask(t, S)
          \/ RollUp(t, k)
    BY <1>3 DEF TasksNext
  <2>2. CASE CreateTask(t, k) \/ ImportTask(t, k)
    BY <2>2, CreateTaskKeeps
  <2>3. CASE ReparentTask(t, k)
    BY <2>3, ReparentTaskKeeps
  <2>4. CASE \E S \in SUBSET (Tasks \ {t}) : DeleteTask(t, S)
    BY <2>4, DeleteTaskKeeps
  <2>5. CASE RollUp(t, k)
    BY <2>5, RollUpKeeps
  <2> QED
    BY <2>1, <2>2, <2>3, <2>4, <2>5
<1> QED
  BY <1>1, <1>2, <1>3 DEF BoardNext

\* A card goes where it was asked to be, and the others keep their order,
\* whatever has been moved, renumbered, rolled up or deleted before
\* (TaskRankingService, reorderItems()).
THEOREM CardsAreAlwaysPlacedAsAsked == BoardSpec => []PlacedAsAsked
<1>1. BoardInit => BoardInv
  BY BoardInvInit
<1>2. BoardInv /\ [BoardNext]_boardVars => BoardInv'
  BY BoardInvNext
<1>3. BoardInv => PlacedAsAsked
  BY MovesAreAsAsked, LastsAreAsAsked, ListsAreAsAsked DEF PlacedAsAsked
<1> QED
  BY <1>1, <1>2, <1>3, PTL DEF BoardSpec
-----------------------------------------------------------------------------
(***************************************************************************)
(* Who may do what.  The walk to the root and the recursive query of the   *)
(* lists are least closed sets, the same ones; the tables of routes and of *)
(* services are taken row by row.                                          *)
(***************************************************************************)
\* Of some sets, one holds no other.
LEMMA MinimalSubset ==
    ASSUME NEW D, IsFiniteSet(D), NEW F, F \subseteq SUBSET D, F # {}
    PROVE  \E A \in F : \A B \in F : B \subseteq A => B = A
<1>1. F \subseteq FiniteSubsetsOf(D)
  BY FS_FiniteSubsetsOfFinite
<1>2. \E A \in F : \A B \in F : ~(<<B, A>> \in StrictSubsetOrdering(D))
  BY <1>1, FS_StrictSubsetOrderingWellFounded, WFMin
<1>3. PICK A \in F : \A B \in F : ~(<<B, A>> \in StrictSubsetOrdering(D))
  BY <1>2
<1>4. ASSUME NEW B \in F, B \subseteq A PROVE B = A
  <2>1. A \in SUBSET D /\ B \in SUBSET D
    OBVIOUS
  <2>2. B # A => <<B, A>> \in StrictSubsetOrdering(D)
    BY <1>4, <2>1 DEF StrictSubsetOrdering
  <2> QED
    BY <1>3, <2>2
<1> QED
  BY <1>4

-----------------------------------------------------------------------------
(***************************************************************************)
(* The walk to the root and the recursive query, both by what every set    *)
(* that is closed under live parents must hold.                            *)
(***************************************************************************)
JobsAreKnown == DOMAIN job \subseteq Jobs

\* S holds the live parents of its tasks, but for what was seen.
Joined(seen, S) == \A x \in S : job[x].parent \in LiveJobs \ seen => job[x].parent \in S

Upward(seen, A) == {b \in Jobs : \A S \in SUBSET Jobs : A \subseteq S /\ Joined(seen, S) => b \in S}

LEMMA LiveAreJobs ==
    ASSUME JobsAreKnown
    PROVE  LiveJobs \subseteq Jobs
BY DEF JobsAreKnown, LiveJobs

LEMMA AboveGoesOn ==
    ASSUME JobsAreKnown, NEW seen \in SUBSET Jobs, NEW a \in Jobs, NEW p, p = job[a].parent
    PROVE  /\ p \in LiveJobs \ seen => Upward(seen, {a}) = {a} \cup Upward(seen \cup {p}, {p})
           /\ p \notin LiveJobs \ seen => Upward(seen, {a}) = {a}
<1>1. a \in Upward(seen, {a})
  BY DEF Upward
<1>2. CASE p \in LiveJobs \ seen
  <2>1. p \in Jobs
    BY <1>2, LiveAreJobs
  <2>2. ASSUME NEW b \in Upward(seen \cup {p}, {p}) PROVE b \in Upward(seen, {a})
    <3>1. b \in Jobs
      BY DEF Upward
    <3>2. ASSUME NEW S \in SUBSET Jobs, a \in S, Joined(seen, S) PROVE b \in S
      <4>1. p \in S /\ Joined(seen \cup {p}, S)
        BY <1>2, <3>2 DEF Joined
      <4> QED
        BY <2>2, <4>1 DEF Upward
    <3> QED
      BY <3>1, <3>2 DEF Upward
  <2>3. ASSUME NEW b \in Upward(seen, {a}), b # a PROVE b \in Upward(seen \cup {p}, {p})
    <3>1. b \in Jobs
      BY DEF Upward
    <3>2. ASSUME NEW T \in SUBSET Jobs, p \in T, Joined(seen \cup {p}, T) PROVE b \in T
      <4>1. T \cup {a} \in SUBSET Jobs /\ a \in T \cup {a}
        OBVIOUS
      <4>2. Joined(seen, T \cup {a})
        BY <3>2 DEF Joined
      <4>3. b \in T \cup {a}
        BY <4>1, <4>2 DEF Upward
      <4> QED
        BY <2>3, <4>3
    <3> QED
      BY <3>1, <3>2 DEF Upward
  <2> QED
    BY <1>1, <1>2, <2>2, <2>3
<1>3. CASE p \notin LiveJobs \ seen
  <2>1. {a} \in SUBSET Jobs /\ Joined(seen, {a})
    BY <1>3 DEF Joined
  <2>2. Upward(seen, {a}) \subseteq {a}
    BY <2>1 DEF Upward
  <2> QED
    BY <1>1, <1>3, <2>2
<1> QED
  BY <1>2, <1>3

LEMMA WalkReachesAbove ==
    ASSUME JobsAreKnown, NEW u, NEW j \in Jobs
    PROVE  IsTaskOrAncestorReportee(u, j) <=> \E b \in Upward({j}, {j}) : job[b].reportee = u
<1> DEFINE Finds(seen, a) == \E b \in Upward(seen, {a}) : job[b].reportee = u
           At(seen, a) == [seen |-> seen, at |-> a]
           Step(f, seen, a) ==
               \/ job[a].reportee = u
               \/ LET p == job[a].parent
                  IN  p \in LiveJobs /\ p \notin seen /\ f[At(seen \cup {p}, p)]
           Walk(f) == [v \in Visit |-> Step(f, v.seen, v.at)]
           found == [v \in Visit |-> Finds(v.seen, v.at)]
           walk == CHOOSE f : f = Walk(f)
<1>1. IsTaskOrAncestorReportee(u, j) = walk[At({j}, j)]
  BY DEF IsTaskOrAncestorReportee
<1>a. \A seen \in SUBSET Jobs, a \in Jobs :
         At(seen, a) \in Visit /\ At(seen, a).seen = seen /\ At(seen, a).at = a
  BY DEF Visit
<1>b. \A v \in Visit : v.seen \in SUBSET Jobs /\ v.at \in Jobs /\ v = At(v.seen, v.at)
  BY DEF Visit
<1>c. \A seen \in SUBSET Jobs, a \in Jobs : found[At(seen, a)] = Finds(seen, a)
  <2> HIDE DEF At, Finds
  <2> QED
    BY <1>a
<1> HIDE DEF At
<1>2. ASSUME NEW seen \in SUBSET Jobs, NEW a \in Jobs
      PROVE  Finds(seen, a) = Step(found, seen, a)
  <2> DEFINE p == job[a].parent
  <2>1. CASE p \in LiveJobs \ seen
    <3>1. p \in Jobs /\ seen \cup {p} \in SUBSET Jobs
      BY <2>1, LiveAreJobs
    <3>2. found[At(seen \cup {p}, p)] = Finds(seen \cup {p}, p)
      BY <3>1, <1>c
    <3>3. Upward(seen, {a}) = {a} \cup Upward(seen \cup {p}, {p})
      BY <2>1, AboveGoesOn
    <3> HIDE DEF found
    <3> QED
      BY <2>1, <3>2, <3>3
  <2>2. CASE p \notin LiveJobs \ seen
    <3>1. Upward(seen, {a}) = {a}
      <4> HIDE DEF found, Finds, Step
      <4> QED
        BY <2>2, AboveGoesOn
    <3> HIDE DEF found
    <3> QED
      BY <2>2, <3>1
  <2> QED
    BY <2>1, <2>2
<1>3. found = Walk(found)
  <2>1. \A v \in Visit : Finds(v.seen, v.at) = Step(found, v.seen, v.at)
    <3> HIDE DEF Finds, Step, found
    <3> QED
      BY <1>b, <1>2
  <2> HIDE DEF Finds, Step
  <2> QED
    BY <2>1
<1>4. walk = Walk(walk)
  <2> HIDE DEF found, Walk
  <2> QED
    BY <1>3
<1> HIDE DEF walk
<1>5. \A seen \in SUBSET Jobs, a \in Jobs : walk[At(seen, a)] = Step(walk, seen, a)
  <2> HIDE DEF Step
  <2>1. \A v \in Visit : walk[v] = Step(walk, v.seen, v.at)
    BY <1>4
  <2> QED
    BY <1>a, <2>1
<1> DEFINE Left == {S \in SUBSET Jobs : \E a \in Jobs : walk[At(Jobs \ S, a)] # Finds(Jobs \ S, a)}
<1>6. Left = {}
  <2> SUFFICES ASSUME Left # {} PROVE FALSE
    OBVIOUS
  <2>1. PICK S \in Left : \A T \in Left : T \subseteq S => T = S
    <3>1. Left \subseteq SUBSET Jobs
      OBVIOUS
    <3> HIDE DEF Left
    <3>2. IsFiniteSet(Jobs)
      BY AccessAssumption
    <3> QED
      BY <3>1, <3>2, MinimalSubset
  <2> DEFINE seen == Jobs \ S
  <2>2. PICK a \in Jobs : walk[At(seen, a)] # Finds(seen, a)
    BY <2>1
  <2> DEFINE p == job[a].parent
  <2>3. seen \in SUBSET Jobs
    OBVIOUS
  <2>4. ASSUME p \in LiveJobs \ seen PROVE walk[At(seen \cup {p}, p)] = Finds(seen \cup {p}, p)
    <3>1. p \in Jobs /\ p \in S
      BY <2>4, LiveAreJobs
    <3>2. S \ {p} \notin Left
      BY <2>1, <3>1
    <3>3. Jobs \ (S \ {p}) = seen \cup {p} /\ S \ {p} \in SUBSET Jobs
      BY <2>1, <3>1
    <3> HIDE DEF Finds, seen
    <3> QED
      BY <3>1, <3>2, <3>3
  <2>5. ASSUME p \in LiveJobs \ seen PROVE found[At(seen \cup {p}, p)] = Finds(seen \cup {p}, p)
    <3>1. p \in Jobs /\ seen \cup {p} \in SUBSET Jobs
      BY <2>3, <2>5, LiveAreJobs
    <3> HIDE DEF Finds, seen, found
    <3> QED
      BY <3>1, <1>c
  <2> HIDE DEF Finds, seen, found, Left
  <2>6. Step(walk, seen, a) = Step(found, seen, a)
    BY <2>4, <2>5
  <2>7. walk[At(seen, a)] = Step(walk, seen, a)
    BY <1>5, <2>3
  <2>8. Finds(seen, a) = Step(found, seen, a)
    BY <1>2, <2>3
  <2> QED
    BY <2>2, <2>6, <2>7, <2>8
<1>7. walk[At({j}, j)] = Finds({j}, j)
  <2>1. Jobs \ (Jobs \ {j}) = {j}
    OBVIOUS
  <2>2. Jobs \ {j} \notin Left
    BY <1>6
  <2> HIDE DEF Finds
  <2> QED
    BY <2>1, <2>2
<1> QED
  BY <1>1, <1>7

LEMMA QueryFindsAbove ==
    ASSUME JobsAreKnown, NEW j \in LiveJobs
    PROVE  Ancestors(j) = Upward({}, {j})
<1> DEFINE Next1(S) == S \cup ({job[c].parent : c \in S} \cap LiveJobs)
           Step(f, S) == IF Next1(S) = S THEN S ELSE f[Next1(S)]
           Rounds(f) == [S \in SUBSET Jobs |-> Step(f, S)]
           found == [S \in SUBSET Jobs |-> Upward({}, S)]
           rounds == CHOOSE f : f = Rounds(f)
<1>1. Ancestors(j) = rounds[{j}]
  <2>1. {j} \cap LiveJobs = {j}
    OBVIOUS
  <2>2. Ancestors(j) = rounds[{j} \cap LiveJobs]
    BY DEF Ancestors
  <2> QED
    BY <2>1, <2>2
<1>2. ASSUME NEW S \in SUBSET Jobs
      PROVE  Next1(S) \in SUBSET Jobs /\ Upward({}, S) = Step(found, S)
  <2>1. Next1(S) \in SUBSET Jobs
    BY LiveAreJobs
  <2>2. CASE Next1(S) = S
    <3>1. Joined({}, S)
      BY <2>2 DEF Joined
    <3>2. Upward({}, S) = S
      BY <3>1 DEF Upward
    <3> QED
      BY <2>1, <2>2, <3>2
  <2>3. CASE Next1(S) # S
    <3>1. \A T \in SUBSET Jobs : Joined({}, T) => (S \subseteq T <=> Next1(S) \subseteq T)
      BY DEF Joined
    <3>2. Upward({}, S) = Upward({}, Next1(S))
      <4> HIDE DEF Next1
      <4> QED
        BY <3>1 DEF Upward
    <3> HIDE DEF Next1
    <3> QED
      BY <2>1, <2>3, <3>2
  <2> QED
    BY <2>1, <2>2, <2>3
<1> HIDE DEF Next1
<1>3. found = Rounds(found)
  <2> HIDE DEF Step
  <2> QED
    BY <1>2
<1>4. rounds = Rounds(rounds)
  <2> HIDE DEF found, Rounds
  <2> QED
    BY <1>3
<1> HIDE DEF rounds
<1>5. \A S \in SUBSET Jobs : rounds[S] = Step(rounds, S)
  <2> HIDE DEF Step
  <2> QED
    BY <1>4
<1> DEFINE Left == {S \in SUBSET Jobs : rounds[Jobs \ S] # Upward({}, Jobs \ S)}
<1>6. Left = {}
  <2> SUFFICES ASSUME Left # {} PROVE FALSE
    OBVIOUS
  <2>1. PICK S \in Left : \A T \in Left : T \subseteq S => T = S
    <3>1. Left \subseteq SUBSET Jobs
      OBVIOUS
    <3> HIDE DEF Left
    <3>2. IsFiniteSet(Jobs)
      BY AccessAssumption
    <3> QED
      BY <3>1, <3>2, MinimalSubset
  <2> DEFINE seen == Jobs \ S
  <2>2. rounds[seen] # Upward({}, seen)
    BY <2>1
  <2>3. seen \in SUBSET Jobs /\ seen \subseteq Next1(seen) /\ Next1(seen) \in SUBSET Jobs
    BY <1>2 DEF Next1
  <2>4. Next1(seen) # seen => rounds[Next1(seen)] = Upward({}, Next1(seen))
    <3> DEFINE T == Jobs \ Next1(seen)
    <3>1. T \in SUBSET Jobs /\ T \subseteq S /\ Jobs \ T = Next1(seen)
      BY <2>1, <2>3
    <3>2. T = S => Next1(seen) = seen
      BY <3>1
    <3>3. T \notin Left => rounds[Next1(seen)] = Upward({}, Next1(seen))
      BY <3>1
    <3> HIDE DEF T, Left
    <3> QED
      BY <2>1, <3>1, <3>2, <3>3
  <2> HIDE DEF Left, seen
  <2>5. found[Next1(seen)] = Upward({}, Next1(seen))
    BY <2>3
  <2> HIDE DEF found
  <2>6. Step(rounds, seen) = Step(found, seen)
    BY <2>4, <2>5
  <2> HIDE DEF Step
  <2> QED
    BY <1>2, <1>5, <2>2, <2>3, <2>6
<1>7. rounds[{j}] = Upward({}, {j})
  <2>1. {j} \in SUBSET Jobs
    BY LiveAreJobs
  <2>2. Jobs \ (Jobs \ {j}) = {j}
    BY <2>1
  <2>3. Jobs \ {j} \notin Left
    BY <1>6
  <2> QED
    BY <2>2, <2>3
<1> QED
  BY <1>1, <1>7

LEMMA SeenIsHeld ==
    ASSUME NEW j
    PROVE  Upward({j}, {j}) = Upward({}, {j})
<1>1. \A S \in SUBSET Jobs : {j} \subseteq S => (Joined({j}, S) <=> Joined({}, S))
  BY DEF Joined
<1> QED
  BY <1>1 DEF Upward

LEMMA ReporteeAbove ==
    ASSUME JobsAreKnown, NEW u, NEW j \in LiveJobs
    PROVE  IsTaskOrAncestorReportee(u, j) <=> \E b \in Ancestors(j) : job[b].reportee = u
<1>1. j \in Jobs
  BY LiveAreJobs
<1>2. IsTaskOrAncestorReportee(u, j) <=> \E b \in Upward({j}, {j}) : job[b].reportee = u
  BY <1>1, WalkReachesAbove
<1>3. Upward({j}, {j}) = Upward({}, {j})
  BY SeenIsHeld
<1>4. Ancestors(j) = Upward({}, {j})
  BY QueryFindsAbove
<1> QED
  BY <1>2, <1>3, <1>4

\* What is above a task above is above.
LEMMA AncestorsReachUp ==
    ASSUME JobsAreKnown, NEW d \in LiveJobs, NEW j \in LiveJobs, j \in Ancestors(d)
    PROVE  Ancestors(j) \subseteq Ancestors(d)
<1>1. Ancestors(j) = Upward({}, {j}) /\ Ancestors(d) = Upward({}, {d})
  BY QueryFindsAbove
<1>2. ASSUME NEW b \in Upward({}, {j}) PROVE b \in Upward({}, {d})
  <2>1. b \in Jobs
    BY DEF Upward
  <2>2. ASSUME NEW S \in SUBSET Jobs, {d} \subseteq S, Joined({}, S) PROVE b \in S
    <3>1. j \in S
      BY <1>1, <2>2 DEF Upward
    <3>2. {j} \subseteq S
      BY <3>1
    <3> QED
      BY <2>2, <3>2 DEF Upward
  <2> QED
    BY <2>1, <2>2 DEF Upward
<1> QED
  BY <1>1, <1>2

LEMMA ParentIsAbove ==
    ASSUME JobsAreKnown, NEW j \in LiveJobs, job[j].parent \in LiveJobs
    PROVE  job[j].parent \in Ancestors(j)
<1>1. job[j].parent \in Jobs
  BY LiveAreJobs
<1>2. job[j].parent \in Upward({}, {j})
  BY <1>1 DEF Upward, Joined
<1> QED
  BY <1>2, QueryFindsAbove

-----------------------------------------------------------------------------
(***************************************************************************)
(* What does not depend on the tables of routes.                           *)
(***************************************************************************)
LEMMA ListsShowWhatOpens ==
    ASSUME JobsAreKnown
    PROVE  ListedIsOpen
<1> SUFFICES ASSUME NEW u \in DOMAIN role, NEW j \in LiveJobs
             PROVE  InScope(u, j) <=> CanView(u, j)
  BY DEF ListedIsOpen
<1>1. IsTaskOrAncestorReportee(u, j) <=> \E b \in Ancestors(j) : job[b].reportee = u
  BY ReporteeAbove
<1>2. job[j].reportee = u => \E b \in Ancestors(j) : job[b].reportee = u
  <2>1. j \in Ancestors(j)
    BY LiveAreJobs, QueryFindsAbove DEF Upward
  <2> QED
    BY <2>1
<1> QED
  BY <1>1, <1>2 DEF InScope, CanView

LEMMA ManagersReachDown ==
    ASSUME JobsAreKnown, NEW u, NEW j \in LiveJobs, Manages(u, j), NEW d \in Branch(j)
    PROVE  Manages(u, d)
<1>1. d \in LiveJobs /\ j \in Ancestors(d)
  BY DEF Branch
<1>2. PICK b \in Ancestors(j) : job[b].reportee = u
  BY ReporteeAbove DEF Manages
<1>3. b \in Ancestors(d)
  BY <1>1, <1>2, AncestorsReachUp
<1>4. IsTaskOrAncestorReportee(u, d)
  BY <1>1, <1>2, <1>3, ReporteeAbove
<1> QED
  BY <1>1, <1>4 DEF Manages

LEMMA ManagersSee ==
    ASSUME NEW u, NEW j, Manages(u, j) \/ Branches(u, j)
    PROVE  CanView(u, j)
BY DEF Manages, Branches, CanView, May

-----------------------------------------------------------------------------
(***************************************************************************)
(* The tables, group by group: for a permission that a service asks for,   *)
(* its route asks for no other.                                            *)
(***************************************************************************)
ForCreate == {"create_task", "comment", "create_package"}

ForUpdate == {"save_layout", "sync", "import_resources", "import_quantities", "edit_calendar",
    "recalculate", "import_schedule", "edit_dates", "edit_allocations", "edit_materials",
    "edit_comment", "edit_locations", "edit_dependencies", "edit_relations", "edit_labels",
    "edit_watchers"}

ForDelete == {"delete_task", "delete_comment"}

NoPermission == {"signed in", "member", "view"}

RightRoute(op, asked) ==
    /\ op \in ForCreate => asked \in NoPermission \cup {"create"}
    /\ op \in ForUpdate => asked \in NoPermission \cup {"update"}
    /\ op \in ForDelete => asked \in NoPermission \cup {"delete"}
    /\ op = "update_task" => asked = "member"
    /\ op \in {"branch_item", "remove_reportee"} => asked = "signed in"

RightGate(op, gate) ==
    /\ gate.may \in {"view", "create", "update", "delete"}
    /\ gate.may = "create" => op \in ForCreate
    /\ gate.may = "update" => op \in ForUpdate
    /\ gate.may = "delete" => op \in ForDelete
    /\ gate.rights # {} => \E r \in gate.rights : r \in {"view", "scope", "manage", "branch"}
    /\ op = "update_task" => gate.may = "view" /\ gate.rights = {"manage"}
    /\ op = "branch_item" => gate.may = "view" /\ gate.rights = {"branch"}
    /\ op = "remove_reportee" => gate.may = "view" /\ gate.rights = {"view", "parent"}

LEMMA RowsOfTables ==
    ASSUME NEW parts, NEW op \in DOMAIN OneTable(parts)
    PROVE  \E t \in parts : op \in DOMAIN t /\ OneTable(parts)[op] = t[op]
<1>1. \E t \in parts : op \in DOMAIN t
  BY DEF OneTable
<1>2. OneTable(parts)[op] = (CHOOSE t \in parts : op \in DOMAIN t)[op]
  BY DEF OneTable
<1> QED
  BY <1>1, <1>2

LEMMA TablesHoldRows ==
    ASSUME NEW parts, NEW t \in parts
    PROVE  DOMAIN t \subseteq DOMAIN OneTable(parts)
BY DEF OneTable

RightRoutes(t) == \A op \in DOMAIN t : RightRoute(op, t[op])

RightGates(t) == \A op \in DOMAIN t : RightGate(op, t[op])

LEMMA RoutesAreRight ==
    RightRoutes(Routes)
<1>1. RightRoutes(AttachmentRoutes)
  <2> DEFINE free == "signed in"
  <2>1. /\ RightRoute("use_attachment", free)
    BY DEF RightRoute, ForCreate, ForUpdate, ForDelete, NoPermission
  <2>2. AttachmentRoutes = [use_attachment |-> free]
    BY DEF AttachmentRoutes
  <2> HIDE DEF free
  <2> QED
    BY <2>1, <2>2 DEF RightRoutes
<1>2. RightRoutes(WorkflowRoutes)
  <2> DEFINE free == "signed in"
  <2>1. /\ RightRoute("remove_reportee", free)
        /\ RightRoute("execute_checklist", free)
    BY DEF RightRoute, ForCreate, ForUpdate, ForDelete, NoPermission
  <2>2. WorkflowRoutes = [remove_reportee |-> free, execute_checklist |-> free]
    BY DEF WorkflowRoutes
  <2> HIDE DEF free
  <2> QED
    BY <2>1, <2>2 DEF RightRoutes
<1>3. RightRoutes(PackageRoutes)
  <2>1. /\ RightRoute("create_package", "member")
        /\ RightRoute("branch_package", "member")
    BY DEF RightRoute, ForCreate, ForUpdate, ForDelete, NoPermission
  <2> QED
    BY <2>1 DEF RightRoutes, PackageRoutes
<1>4. RightRoutes(ListRoutes)
  <2>1. /\ RightRoute("list", "view")
        /\ RightRoute("kanban", "member")
        /\ RightRoute("sync", "update")
    BY DEF RightRoute, ForCreate, ForUpdate, ForDelete, NoPermission
  <2> QED
    BY <2>1 DEF RightRoutes, ListRoutes
<1>5. RightRoutes(CreateRoutes)
  <2>1. /\ RightRoute("create_task", "create")
        /\ RightRoute("bulk_update", "update")
        /\ RightRoute("save_layout", "update")
    BY DEF RightRoute, ForCreate, ForUpdate, ForDelete, NoPermission
  <2> QED
    BY <2>1 DEF RightRoutes, CreateRoutes
<1>6. RightRoutes(ResourceReportRoutes)
  <2>1. /\ RightRoute("read_resources", "view")
        /\ RightRoute("import_resources", "update")
    BY DEF RightRoute, ForCreate, ForUpdate, ForDelete, NoPermission
  <2> QED
    BY <2>1 DEF RightRoutes, ResourceReportRoutes
<1>7. RightRoutes(MaterialsReportRoutes)
  <2>1. /\ RightRoute("read_quantities", "view")
        /\ RightRoute("import_quantities", "update")
    BY DEF RightRoute, ForCreate, ForUpdate, ForDelete, NoPermission
  <2> QED
    BY <2>1 DEF RightRoutes, MaterialsReportRoutes
<1>8. RightRoutes(ScheduleRoutes)
  <2>1. /\ RightRoute("read_schedule", "view")
        /\ RightRoute("read_critical_path", "view")
    BY DEF RightRoute, ForCreate, ForUpdate, ForDelete, NoPermission
  <2> QED
    BY <2>1 DEF RightRoutes, ScheduleRoutes
<1>9. RightRoutes(ScheduleViewRoutes)
  <2>1. /\ RightRoute("read_project_gantt", "view")
        /\ RightRoute("explain", "view")
    BY DEF RightRoute, ForCreate, ForUpdate, ForDelete, NoPermission
  <2> QED
    BY <2>1 DEF RightRoutes, ScheduleViewRoutes
<1>10. RightRoutes(CalendarRoutes)
  <2>1. /\ RightRoute("read_calendar", "view")
        /\ RightRoute("edit_calendar", "update")
    BY DEF RightRoute, ForCreate, ForUpdate, ForDelete, NoPermission
  <2> QED
    BY <2>1 DEF RightRoutes, CalendarRoutes
<1>11. RightRoutes(CalculationRoutes)
  <2>1. /\ RightRoute("recalculate", "update")
        /\ RightRoute("import_schedule", "update")
    BY DEF RightRoute, ForCreate, ForUpdate, ForDelete, NoPermission
  <2> QED
    BY <2>1 DEF RightRoutes, CalculationRoutes
<1>12. RightRoutes(SubtreeRoutes)
  <2>1. /\ RightRoute("tree", "view")
        /\ RightRoute("gantt", "view")
    BY DEF RightRoute, ForCreate, ForUpdate, ForDelete, NoPermission
  <2> QED
    BY <2>1 DEF RightRoutes, SubtreeRoutes
<1>13. RightRoutes(TaskRoutes)
  <2>1. /\ RightRoute("mindmap", "view")
        /\ RightRoute("dashboard", "view")
        /\ RightRoute("open", "member")
    BY DEF RightRoute, ForCreate, ForUpdate, ForDelete, NoPermission
  <2> QED
    BY <2>1 DEF RightRoutes, TaskRoutes
<1>14. RightRoutes(TaskScheduleRoutes)
  <2>1. /\ RightRoute("read_dates", "view")
        /\ RightRoute("edit_dates", "update")
    BY DEF RightRoute, ForCreate, ForUpdate, ForDelete, NoPermission
  <2> QED
    BY <2>1 DEF RightRoutes, TaskScheduleRoutes
<1>15. RightRoutes(AllocationRoutes)
  <2>1. /\ RightRoute("read_allocations", "view")
        /\ RightRoute("edit_allocations", "update")
    BY DEF RightRoute, ForCreate, ForUpdate, ForDelete, NoPermission
  <2> QED
    BY <2>1 DEF RightRoutes, AllocationRoutes
<1>16. RightRoutes(MaterialRoutes)
  <2>1. /\ RightRoute("read_materials", "view")
        /\ RightRoute("edit_materials", "update")
    BY DEF RightRoute, ForCreate, ForUpdate, ForDelete, NoPermission
  <2> QED
    BY <2>1 DEF RightRoutes, MaterialRoutes
<1>17. RightRoutes(RequestReadRoutes)
  <2>1. /\ RightRoute("impact_map", "requests")
        /\ RightRoute("read_requests", "member")
        /\ RightRoute("read_evidence", "requests")
    BY DEF RightRoute, ForCreate, ForUpdate, ForDelete, NoPermission
  <2> QED
    BY <2>1 DEF RightRoutes, RequestReadRoutes
<1>18. RightRoutes(RequestRoutes)
  <2>1. /\ RightRoute("create_request", "member")
        /\ RightRoute("answer_request", "member")
    BY DEF RightRoute, ForCreate, ForUpdate, ForDelete, NoPermission
  <2> QED
    BY <2>1 DEF RightRoutes, RequestRoutes
<1>19. RightRoutes(ReviewRoutes)
  <2>1. /\ RightRoute("ask_review", "member")
        /\ RightRoute("decide_review", "requests")
    BY DEF RightRoute, ForCreate, ForUpdate, ForDelete, NoPermission
  <2> QED
    BY <2>1 DEF RightRoutes, ReviewRoutes
<1>20. RightRoutes(RevisionRoutes)
  <2>1. /\ RightRoute("revise_request", "member")
        /\ RightRoute("reopen_request", "member")
    BY DEF RightRoute, ForCreate, ForUpdate, ForDelete, NoPermission
  <2> QED
    BY <2>1 DEF RightRoutes, RevisionRoutes
<1>21. RightRoutes(ResolutionRoutes)
  <2>1. /\ RightRoute("escalate_request", "member")
        /\ RightRoute("resolve_request", "member")
    BY DEF RightRoute, ForCreate, ForUpdate, ForDelete, NoPermission
  <2> QED
    BY <2>1 DEF RightRoutes, ResolutionRoutes
<1>22. RightRoutes(DocumentReadRoutes)
  <2>1. /\ RightRoute("read_documents", "member")
        /\ RightRoute("download_document", "view")
    BY DEF RightRoute, ForCreate, ForUpdate, ForDelete, NoPermission
  <2> QED
    BY <2>1 DEF RightRoutes, DocumentReadRoutes
<1>23. RightRoutes(DocumentWriteRoutes)
  <2>1. /\ RightRoute("edit_documents", "member")
    BY DEF RightRoute, ForCreate, ForUpdate, ForDelete, NoPermission
  <2> QED
    BY <2>1 DEF RightRoutes, DocumentWriteRoutes
<1>24. RightRoutes(CommentRoutes)
  <2>1. /\ RightRoute("read_comments", "view")
        /\ RightRoute("comment", "create")
        /\ RightRoute("edit_comment", "update")
        /\ RightRoute("delete_comment", "delete")
    BY DEF RightRoute, ForCreate, ForUpdate, ForDelete, NoPermission
  <2> QED
    BY <2>1 DEF RightRoutes, CommentRoutes
<1>25. RightRoutes(UpdateRoutes)
  <2>1. /\ RightRoute("update_task", "member")
        /\ RightRoute("progress", "update")
        /\ RightRoute("supersede", "update")
        /\ RightRoute("delete_task", "member")
    BY DEF RightRoute, ForCreate, ForUpdate, ForDelete, NoPermission
  <2> QED
    BY <2>1 DEF RightRoutes, UpdateRoutes
<1>26. RightRoutes(ChecklistRoutes)
  <2>1. /\ RightRoute("read_checklist", "member")
        /\ RightRoute("add_item", "member")
    BY DEF RightRoute, ForCreate, ForUpdate, ForDelete, NoPermission
  <2> QED
    BY <2>1 DEF RightRoutes, ChecklistRoutes
<1>27. RightRoutes(ItemRoutes)
  <2> DEFINE free == "signed in"
  <2>1. /\ RightRoute("update_item", free)
        /\ RightRoute("branch_item", free)
        /\ RightRoute("delete_item", "member")
    BY DEF RightRoute, ForCreate, ForUpdate, ForDelete, NoPermission
  <2>2. ItemRoutes = [update_item |-> free, branch_item |-> free, delete_item |-> "member"]
    BY DEF ItemRoutes
  <2> HIDE DEF free
  <2> QED
    BY <2>1, <2>2 DEF RightRoutes
<1>28. RightRoutes(LocationRoutes)
  <2>1. /\ RightRoute("read_locations", "view")
        /\ RightRoute("edit_locations", "update")
    BY DEF RightRoute, ForCreate, ForUpdate, ForDelete, NoPermission
  <2> QED
    BY <2>1 DEF RightRoutes, LocationRoutes
<1>29. RightRoutes(DependencyRoutes)
  <2>1. /\ RightRoute("read_dependencies", "view")
        /\ RightRoute("edit_dependencies", "update")
    BY DEF RightRoute, ForCreate, ForUpdate, ForDelete, NoPermission
  <2> QED
    BY <2>1 DEF RightRoutes, DependencyRoutes
<1>30. RightRoutes(GroupRoutes)
  <2>1. /\ RightRoute("read_groups", "member")
        /\ RightRoute("edit_groups", "member")
    BY DEF RightRoute, ForCreate, ForUpdate, ForDelete, NoPermission
  <2> QED
    BY <2>1 DEF RightRoutes, GroupRoutes
<1>31. RightRoutes(LabelRoutes)
  <2>1. /\ RightRoute("read_labels", "view")
        /\ RightRoute("edit_labels", "update")
    BY DEF RightRoute, ForCreate, ForUpdate, ForDelete, NoPermission
  <2> QED
    BY <2>1 DEF RightRoutes, LabelRoutes
<1>32. RightRoutes(WatcherRoutes)
  <2>1. /\ RightRoute("read_watchers", "view")
        /\ RightRoute("edit_watchers", "update")
    BY DEF RightRoute, ForCreate, ForUpdate, ForDelete, NoPermission
  <2> QED
    BY <2>1 DEF RightRoutes, WatcherRoutes
<1>33. RightRoutes(RelationRoutes)
  <2>1. /\ RightRoute("read_relations", "view")
        /\ RightRoute("edit_relations", "update")
    BY DEF RightRoute, ForCreate, ForUpdate, ForDelete, NoPermission
  <2> QED
    BY <2>1 DEF RightRoutes, RelationRoutes
<1>34. RightRoutes(ActivityRoutes)
  <2>1. /\ RightRoute("read_activity", "view")
        /\ RightRoute("read_timeline", "view")
    BY DEF RightRoute, ForCreate, ForUpdate, ForDelete, NoPermission
  <2> QED
    BY <2>1 DEF RightRoutes, ActivityRoutes
<1> DEFINE parts == {AttachmentRoutes, WorkflowRoutes, PackageRoutes, ListRoutes,
                      CreateRoutes, ResourceReportRoutes,
                      MaterialsReportRoutes, ScheduleRoutes,
                      ScheduleViewRoutes, CalendarRoutes,
                      CalculationRoutes, SubtreeRoutes, TaskRoutes,
                      TaskScheduleRoutes, AllocationRoutes,
                      MaterialRoutes, RequestReadRoutes,
                      RequestRoutes, ReviewRoutes, RevisionRoutes,
                      ResolutionRoutes, DocumentReadRoutes,
                      DocumentWriteRoutes, CommentRoutes,
                      UpdateRoutes, ChecklistRoutes, ItemRoutes,
                      LocationRoutes, DependencyRoutes, GroupRoutes,
                      LabelRoutes, WatcherRoutes, RelationRoutes,
                      ActivityRoutes}
<1>35. \A t \in parts : RightRoutes(t)
  BY <1>1, <1>2, <1>3, <1>4, <1>5, <1>6, <1>7, <1>8, <1>9, <1>10, <1>11, <1>12, <1>13, <1>14,
     <1>15, <1>16, <1>17, <1>18, <1>19, <1>20, <1>21, <1>22, <1>23, <1>24, <1>25, <1>26,
     <1>27, <1>28, <1>29, <1>30, <1>31, <1>32, <1>33, <1>34
<1>36. Routes = OneTable(parts)
  BY DEF Routes
<1> HIDE DEF parts
<1> QED
  BY <1>35, <1>36, RowsOfTables DEF RightRoutes

LEMMA GatesAreRight ==
    RightGates(Gates)
<1>1. RightGates(CoreGates)
  <2>1. /\ RightGate("create_task", Asks("create", {}))
        /\ RightGate("update_task", Asks("view", {"manage"}))
        /\ RightGate("progress", Asks("view", {"manage"}))
        /\ RightGate("supersede", Asks("view", {"manage"}))
        /\ RightGate("bulk_update", Asks("view", {"manage"}))
        /\ RightGate("delete_task", Asks("delete", {"manage"}))
        /\ RightGate("save_layout", Asks("update", {"scope"}))
    BY DEF RightGate, Asks, ForCreate, ForUpdate, ForDelete
  <2> QED
    BY <2>1 DEF RightGates, CoreGates
<1>2. RightGates(RetrievalGates)
  <2>1. /\ RightGate("open", Reads)
        /\ RightGate("tree", Reads)
        /\ RightGate("gantt", Reads)
        /\ RightGate("mindmap", Reads)
        /\ RightGate("dashboard", Reads)
        /\ RightGate("list", Asks("view", {"scope"}))
        /\ RightGate("kanban", Asks("view", {"scope"}))
    BY DEF RightGate, Asks, Reads, ForCreate, ForUpdate, ForDelete
  <2> QED
    BY <2>1 DEF RightGates, RetrievalGates
<1>3. RightGates(SyncGates)
  <2>1. /\ RightGate("sync", Asks("update", {"view", "branch"}))
    BY DEF RightGate, Asks, ForCreate, ForUpdate, ForDelete
  <2> QED
    BY <2>1 DEF RightGates, SyncGates
<1>4. RightGates(ScheduleGates)
  <2>1. /\ RightGate("read_schedule", Asks("view", {"scope"}))
        /\ RightGate("read_critical_path", Asks("view", {"scope"}))
    BY DEF RightGate, Asks, ForCreate, ForUpdate, ForDelete
  <2> QED
    BY <2>1 DEF RightGates, ScheduleGates
<1>5. RightGates(ReportGates)
  <2>1. /\ RightGate("read_resources", Asks("view", {}))
        /\ RightGate("import_resources", Asks("update", {}))
        /\ RightGate("read_quantities", Asks("view", {}))
        /\ RightGate("import_quantities", Asks("update", {}))
    BY DEF RightGate, Asks, ForCreate, ForUpdate, ForDelete
  <2> QED
    BY <2>1 DEF RightGates, ReportGates
<1>6. RightGates(GanttGates)
  <2>1. /\ RightGate("read_project_gantt", Asks("view", {"scope"}))
        /\ RightGate("explain", Reads)
    BY DEF RightGate, Asks, Reads, ForCreate, ForUpdate, ForDelete
  <2> QED
    BY <2>1 DEF RightGates, GanttGates
<1>7. RightGates(CalendarGates)
  <2>1. /\ RightGate("read_calendar", Asks("view", {}))
        /\ RightGate("edit_calendar", Asks("update", {}))
    BY DEF RightGate, Asks, ForCreate, ForUpdate, ForDelete
  <2> QED
    BY <2>1 DEF RightGates, CalendarGates
<1>8. RightGates(CalculationGates)
  <2>1. /\ RightGate("recalculate", Asks("update", {}))
        /\ RightGate("import_schedule", Asks("update", {}))
    BY DEF RightGate, Asks, ForCreate, ForUpdate, ForDelete
  <2> QED
    BY <2>1 DEF RightGates, CalculationGates
<1>9. RightGates(TaskScheduleGates)
  <2>1. /\ RightGate("read_dates", Reads)
        /\ RightGate("edit_dates", Asks("update", {"manage", "view"}))
    BY DEF RightGate, Asks, Reads, ForCreate, ForUpdate, ForDelete
  <2> QED
    BY <2>1 DEF RightGates, TaskScheduleGates
<1>10. RightGates(AllocationGates)
  <2>1. /\ RightGate("read_allocations", Reads)
        /\ RightGate("edit_allocations", Edits)
    BY DEF RightGate, Asks, Reads, Edits, ForCreate, ForUpdate, ForDelete
  <2> QED
    BY <2>1 DEF RightGates, AllocationGates
<1>11. RightGates(MaterialGates)
  <2>1. /\ RightGate("read_materials", Reads)
        /\ RightGate("edit_materials", Edits)
    BY DEF RightGate, Asks, Reads, Edits, ForCreate, ForUpdate, ForDelete
  <2> QED
    BY <2>1 DEF RightGates, MaterialGates
<1>12. RightGates(DocumentReadGates)
  <2>1. /\ RightGate("read_documents", Reads)
        /\ RightGate("download_document", Reads)
        /\ RightGate("use_attachment", Reads)
    BY DEF RightGate, Asks, Reads, ForCreate, ForUpdate, ForDelete
  <2> QED
    BY <2>1 DEF RightGates, DocumentReadGates
<1>13. RightGates(DocumentWriteGates)
  <2>1. /\ RightGate("edit_documents", Reads)
    BY DEF RightGate, Asks, Reads, ForCreate, ForUpdate, ForDelete
  <2> QED
    BY <2>1 DEF RightGates, DocumentWriteGates
<1>14. RightGates(RequestReadGates)
  <2>1. /\ RightGate("impact_map", Reads)
        /\ RightGate("read_requests", Reads)
        /\ RightGate("read_evidence", Reads)
    BY DEF RightGate, Asks, Reads, ForCreate, ForUpdate, ForDelete
  <2> QED
    BY <2>1 DEF RightGates, RequestReadGates
<1>15. RightGates(RequestGates)
  <2>1. /\ RightGate("create_request", Reads)
        /\ RightGate("answer_request", Reads)
    BY DEF RightGate, Asks, Reads, ForCreate, ForUpdate, ForDelete
  <2> QED
    BY <2>1 DEF RightGates, RequestGates
<1>16. RightGates(ReviewGates)
  <2>1. /\ RightGate("ask_review", Reads)
        /\ RightGate("decide_review", Reads)
        /\ RightGate("revise_request", Reads)
        /\ RightGate("reopen_request", Reads)
    BY DEF RightGate, Asks, Reads, ForCreate, ForUpdate, ForDelete
  <2> QED
    BY <2>1 DEF RightGates, ReviewGates
<1>17. RightGates(ResolutionGates)
  <2>1. /\ RightGate("escalate_request", Reads)
        /\ RightGate("resolve_request", Reads)
    BY DEF RightGate, Asks, Reads, ForCreate, ForUpdate, ForDelete
  <2> QED
    BY <2>1 DEF RightGates, ResolutionGates
<1>18. RightGates(CommentGates)
  <2>1. /\ RightGate("read_comments", Reads)
        /\ RightGate("comment", Asks("create", {"view"}))
        /\ RightGate("edit_comment", Edits)
        /\ RightGate("delete_comment", Asks("delete", {"view"}))
    BY DEF RightGate, Asks, Reads, Edits, ForCreate, ForUpdate, ForDelete
  <2> QED
    BY <2>1 DEF RightGates, CommentGates
<1>19. RightGates(ChecklistGates)
  <2>1. /\ RightGate("read_checklist", Reads)
        /\ RightGate("add_item", Asks("view", {"manage", "view"}))
        /\ RightGate("update_item", Asks("view", {"manage"}))
        /\ RightGate("branch_item", Asks("view", {"branch"}))
        /\ RightGate("delete_item", Asks("view", {"manage", "view"}))
    BY DEF RightGate, Asks, Reads, ForCreate, ForUpdate, ForDelete
  <2> QED
    BY <2>1 DEF RightGates, ChecklistGates
<1>20. RightGates(LocationGates)
  <2>1. /\ RightGate("read_locations", Reads)
        /\ RightGate("edit_locations", Edits)
    BY DEF RightGate, Asks, Reads, Edits, ForCreate, ForUpdate, ForDelete
  <2> QED
    BY <2>1 DEF RightGates, LocationGates
<1>21. RightGates(GroupGates)
  <2>1. /\ RightGate("read_groups", Reads)
        /\ RightGate("edit_groups", Asks("view", {"manage", "view"}))
    BY DEF RightGate, Asks, Reads, ForCreate, ForUpdate, ForDelete
  <2> QED
    BY <2>1 DEF RightGates, GroupGates
<1>22. RightGates(DependencyGates)
  <2>1. /\ RightGate("read_dependencies", Reads)
        /\ RightGate("edit_dependencies", Edits)
    BY DEF RightGate, Asks, Reads, Edits, ForCreate, ForUpdate, ForDelete
  <2> QED
    BY <2>1 DEF RightGates, DependencyGates
<1>23. RightGates(RelationGates)
  <2>1. /\ RightGate("read_relations", Reads)
        /\ RightGate("edit_relations", Edits)
    BY DEF RightGate, Asks, Reads, Edits, ForCreate, ForUpdate, ForDelete
  <2> QED
    BY <2>1 DEF RightGates, RelationGates
<1>24. RightGates(LabelGates)
  <2>1. /\ RightGate("read_labels", Reads)
        /\ RightGate("edit_labels", Edits)
    BY DEF RightGate, Asks, Reads, Edits, ForCreate, ForUpdate, ForDelete
  <2> QED
    BY <2>1 DEF RightGates, LabelGates
<1>25. RightGates(WatcherGates)
  <2>1. /\ RightGate("read_watchers", Reads)
        /\ RightGate("edit_watchers", Edits)
    BY DEF RightGate, Asks, Reads, Edits, ForCreate, ForUpdate, ForDelete
  <2> QED
    BY <2>1 DEF RightGates, WatcherGates
<1>26. RightGates(ActivityGates)
  <2>1. /\ RightGate("read_activity", Reads)
        /\ RightGate("read_timeline", Reads)
    BY DEF RightGate, Asks, Reads, ForCreate, ForUpdate, ForDelete
  <2> QED
    BY <2>1 DEF RightGates, ActivityGates
<1>27. RightGates(WorkflowGates)
  <2>1. /\ RightGate("execute_checklist", Reads)
        /\ RightGate("remove_reportee", Asks("view", {"view", "parent"}))
    BY DEF RightGate, Asks, Reads, ForCreate, ForUpdate, ForDelete
  <2> QED
    BY <2>1 DEF RightGates, WorkflowGates
<1>28. RightGates(PackageGates)
  <2>1. /\ RightGate("create_package", Asks("create", {}))
        /\ RightGate("branch_package", Asks("view", {"branch", "view"}))
    BY DEF RightGate, Asks, ForCreate, ForUpdate, ForDelete
  <2> QED
    BY <2>1 DEF RightGates, PackageGates
<1> DEFINE parts == {CoreGates, RetrievalGates, SyncGates, ScheduleGates, ReportGates,
                      GanttGates, CalendarGates, CalculationGates,
                      TaskScheduleGates, AllocationGates,
                      MaterialGates, DocumentReadGates,
                      DocumentWriteGates, RequestReadGates,
                      RequestGates, ReviewGates, ResolutionGates,
                      CommentGates, ChecklistGates, LocationGates,
                      GroupGates, DependencyGates, RelationGates,
                      LabelGates, WatcherGates, ActivityGates,
                      WorkflowGates, PackageGates}
<1>29. \A t \in parts : RightGates(t)
  BY <1>1, <1>2, <1>3, <1>4, <1>5, <1>6, <1>7, <1>8, <1>9, <1>10, <1>11, <1>12, <1>13, <1>14,
     <1>15, <1>16, <1>17, <1>18, <1>19, <1>20, <1>21, <1>22, <1>23, <1>24, <1>25, <1>26,
     <1>27, <1>28
<1>30. Gates = OneTable(parts)
  BY DEF Gates
<1> HIDE DEF parts
<1> QED
  BY <1>29, <1>30, RowsOfTables DEF RightGates

LEMMA RoutesAreThere ==
    ForCreate \cup ForUpdate \cup ForDelete \cup {"update_task", "branch_item", "remove_reportee"}
        \subseteq DOMAIN Routes
<1>1. DOMAIN CreateRoutes \subseteq DOMAIN Routes
  BY TablesHoldRows DEF Routes
<1>2. DOMAIN CommentRoutes \subseteq DOMAIN Routes
  BY TablesHoldRows DEF Routes
<1>3. DOMAIN PackageRoutes \subseteq DOMAIN Routes
  BY TablesHoldRows DEF Routes
<1>4. DOMAIN ListRoutes \subseteq DOMAIN Routes
  BY TablesHoldRows DEF Routes
<1>5. DOMAIN ResourceReportRoutes \subseteq DOMAIN Routes
  BY TablesHoldRows DEF Routes
<1>6. DOMAIN MaterialsReportRoutes \subseteq DOMAIN Routes
  BY TablesHoldRows DEF Routes
<1>7. DOMAIN CalendarRoutes \subseteq DOMAIN Routes
  BY TablesHoldRows DEF Routes
<1>8. DOMAIN CalculationRoutes \subseteq DOMAIN Routes
  BY TablesHoldRows DEF Routes
<1>9. DOMAIN TaskScheduleRoutes \subseteq DOMAIN Routes
  BY TablesHoldRows DEF Routes
<1>10. DOMAIN AllocationRoutes \subseteq DOMAIN Routes
  BY TablesHoldRows DEF Routes
<1>11. DOMAIN MaterialRoutes \subseteq DOMAIN Routes
  BY TablesHoldRows DEF Routes
<1>12. DOMAIN LocationRoutes \subseteq DOMAIN Routes
  BY TablesHoldRows DEF Routes
<1>13. DOMAIN DependencyRoutes \subseteq DOMAIN Routes
  BY TablesHoldRows DEF Routes
<1>14. DOMAIN RelationRoutes \subseteq DOMAIN Routes
  BY TablesHoldRows DEF Routes
<1>15. DOMAIN LabelRoutes \subseteq DOMAIN Routes
  BY TablesHoldRows DEF Routes
<1>16. DOMAIN WatcherRoutes \subseteq DOMAIN Routes
  BY TablesHoldRows DEF Routes
<1>17. DOMAIN UpdateRoutes \subseteq DOMAIN Routes
  BY TablesHoldRows DEF Routes
<1>18. DOMAIN ItemRoutes \subseteq DOMAIN Routes
  BY TablesHoldRows DEF Routes
<1>19. DOMAIN WorkflowRoutes \subseteq DOMAIN Routes
  BY TablesHoldRows DEF Routes
<1>20. "create_task" \in DOMAIN Routes
  BY <1>1 DEF CreateRoutes
<1>21. "comment" \in DOMAIN Routes
  BY <1>2 DEF CommentRoutes
<1>22. "create_package" \in DOMAIN Routes
  BY <1>3 DEF PackageRoutes
<1>23. "save_layout" \in DOMAIN Routes
  BY <1>1 DEF CreateRoutes
<1>24. "sync" \in DOMAIN Routes
  BY <1>4 DEF ListRoutes
<1>25. "import_resources" \in DOMAIN Routes
  BY <1>5 DEF ResourceReportRoutes
<1>26. "import_quantities" \in DOMAIN Routes
  BY <1>6 DEF MaterialsReportRoutes
<1>27. "edit_calendar" \in DOMAIN Routes
  BY <1>7 DEF CalendarRoutes
<1>28. "recalculate" \in DOMAIN Routes
  BY <1>8 DEF CalculationRoutes
<1>29. "import_schedule" \in DOMAIN Routes
  BY <1>8 DEF CalculationRoutes
<1>30. "edit_dates" \in DOMAIN Routes
  BY <1>9 DEF TaskScheduleRoutes
<1>31. "edit_allocations" \in DOMAIN Routes
  BY <1>10 DEF AllocationRoutes
<1>32. "edit_materials" \in DOMAIN Routes
  BY <1>11 DEF MaterialRoutes
<1>33. "edit_comment" \in DOMAIN Routes
  BY <1>2 DEF CommentRoutes
<1>34. "edit_locations" \in DOMAIN Routes
  BY <1>12 DEF LocationRoutes
<1>35. "edit_dependencies" \in DOMAIN Routes
  BY <1>13 DEF DependencyRoutes
<1>36. "edit_relations" \in DOMAIN Routes
  BY <1>14 DEF RelationRoutes
<1>37. "edit_labels" \in DOMAIN Routes
  BY <1>15 DEF LabelRoutes
<1>38. "edit_watchers" \in DOMAIN Routes
  BY <1>16 DEF WatcherRoutes
<1>39. "delete_task" \in DOMAIN Routes
  BY <1>17 DEF UpdateRoutes
<1>40. "delete_comment" \in DOMAIN Routes
  BY <1>2 DEF CommentRoutes
<1>41. "update_task" \in DOMAIN Routes
  BY <1>17 DEF UpdateRoutes
<1>42. "branch_item" \in DOMAIN Routes
  BY <1>18 DEF ItemRoutes
<1>43. "remove_reportee" \in DOMAIN Routes
  BY <1>19 DEF WorkflowRoutes
<1> QED
  BY <1>20, <1>21, <1>22, <1>23, <1>24, <1>25, <1>26, <1>27, <1>28, <1>29, <1>30, <1>31, <1>32,
     <1>33, <1>34, <1>35, <1>36, <1>37, <1>38, <1>39, <1>40, <1>41, <1>42, <1>43
     DEF ForCreate, ForUpdate, ForDelete

LEMMA GatesAreThere ==
    {"update_task", "branch_item", "remove_reportee"} \subseteq DOMAIN Gates
<1>1. DOMAIN CoreGates \subseteq DOMAIN Gates /\ "update_task" \in DOMAIN CoreGates
  BY TablesHoldRows DEF Gates, CoreGates
<1>2. DOMAIN ChecklistGates \subseteq DOMAIN Gates /\ "branch_item" \in DOMAIN ChecklistGates
  BY TablesHoldRows DEF Gates, ChecklistGates
<1>3. DOMAIN WorkflowGates \subseteq DOMAIN Gates /\ "remove_reportee" \in DOMAIN WorkflowGates
  BY TablesHoldRows DEF Gates, WorkflowGates
<1> QED
  BY <1>1, <1>2, <1>3

-----------------------------------------------------------------------------
(***************************************************************************)
(* What the tables say of the two layers.                                  *)
(***************************************************************************)
LEMMA AskedBehindIsAskedInFront ==
    GuardsAgree
<1> SUFFICES ASSUME NEW u \in People, NEW layer \in OfPermissions, NEW j \in LiveJobs,
                    GatePasses(u, layer[2], j)
             PROVE  GuardPasses(u, layer[1])
  BY DEF GuardsAgree
<1>1. PICK op \in DOMAIN Gates : layer = <<Routes[op], Gates[op]>>
  BY DEF OfPermissions, Layers
<1>2. layer[1] = Routes[op] /\ layer[2] = Gates[op]
  BY <1>1
<1>3. RightGate(op, Gates[op])
  BY GatesAreRight DEF RightGates
<1>4. Gates[op].may \in {"create", "update", "delete"}
  <2>1. Gates[op].may # "view"
    BY <1>2 DEF OfPermissions
  <2> QED
    BY <1>3, <2>1 DEF RightGate
<1>5. op \in DOMAIN Routes /\ Routes[op] \in NoPermission \cup {Gates[op].may}
  <2>1. op \in ForCreate \cup ForUpdate \cup ForDelete
    BY <1>3, <1>4 DEF RightGate
  <2>2. op \in DOMAIN Routes
    BY <2>1, RoutesAreThere
  <2>3. RightRoute(op, Routes[op])
    BY <2>2, RoutesAreRight DEF RightRoutes
  <2> QED
    BY <1>3, <1>4, <2>2, <2>3 DEF RightRoute, RightGate
<1>6. u \in DOMAIN role /\ Gates[op].may \in role[u].may
  BY <1>2, <1>4 DEF GatePasses, May
<1> QED
  BY <1>2, <1>5, <1>6 DEF GuardPasses, NoPermission

LEMMA WhatIsServedOpens ==
    ASSUME JobsAreKnown
    PROVE  ServedOpens
<1> SUFFICES ASSUME NEW u \in People, NEW j \in LiveJobs, NEW layer \in OfTasks,
                    GatePasses(u, layer[2], j)
             PROVE  CanView(u, j)
  BY DEF ServedOpens
<1>1. PICK op \in DOMAIN Gates : layer = <<Routes[op], Gates[op]>>
  BY DEF OfTasks, Layers
<1>2. layer[2] = Gates[op] /\ Gates[op].rights # {}
  BY <1>1 DEF OfTasks
<1>3. RightGate(op, Gates[op])
  BY GatesAreRight DEF RightGates
<1>4. PICK r \in Gates[op].rights : r \in {"view", "scope", "manage", "branch"}
  BY <1>2, <1>3 DEF RightGate
<1>5. HasRight(u, r, j) /\ u \in DOMAIN role
  BY <1>2 DEF GatePasses, May
<1>6. InScope(u, j) => CanView(u, j)
  BY <1>5, ListsShowWhatOpens DEF ListedIsOpen
<1>7. Manages(u, j) \/ Branches(u, j) => CanView(u, j)
  BY ManagersSee
<1> QED
  BY <1>4, <1>5, <1>6, <1>7 DEF HasRight

LEMMA ReadersAreToldWhatTheyMayDo ==
    ASSUME JobsAreKnown
    PROVE  CapabilitiesAreKept
<1> SUFFICES ASSUME NEW u \in DOMAIN role, NEW j \in LiveJobs
             PROVE  /\ Manages(u, j) <=> Served(u, "update_task", j)
                    /\ job[j].parent \in LiveJobs =>
                          (Manages(u, job[j].parent) <=> Served(u, "remove_reportee", j))
                    /\ Branches(u, j) <=> Served(u, "branch_item", j)
  BY DEF CapabilitiesAreKept
<1>1. RightRoute("update_task", Routes["update_task"])
      /\ RightRoute("branch_item", Routes["branch_item"])
      /\ RightRoute("remove_reportee", Routes["remove_reportee"])
  BY RoutesAreThere, RoutesAreRight DEF RightRoutes
<1>2. RightGate("update_task", Gates["update_task"])
      /\ RightGate("branch_item", Gates["branch_item"])
      /\ RightGate("remove_reportee", Gates["remove_reportee"])
  BY GatesAreThere, GatesAreRight DEF RightGates
<1>3. GuardPasses(u, Routes["update_task"]) /\ GuardPasses(u, Routes["branch_item"])
      /\ GuardPasses(u, Routes["remove_reportee"])
  BY <1>1 DEF RightRoute, GuardPasses
<1>4. May(u, "view")
  BY DEF May
<1>5. Served(u, "update_task", j) <=> Manages(u, j)
  <2>1. Gates["update_task"].may = "view" /\ Gates["update_task"].rights = {"manage"}
    BY <1>2 DEF RightGate
  <2>2. HasRight(u, "manage", j) <=> Manages(u, j)
    BY DEF HasRight
  <2> QED
    BY <1>3, <1>4, <2>1, <2>2 DEF Served, GatePasses
<1>6. Served(u, "branch_item", j) <=> Branches(u, j)
  <2>1. Gates["branch_item"].may = "view" /\ Gates["branch_item"].rights = {"branch"}
    BY <1>2 DEF RightGate
  <2>2. HasRight(u, "branch", j) <=> Branches(u, j)
    BY DEF HasRight
  <2> QED
    BY <1>3, <1>4, <2>1, <2>2 DEF Served, GatePasses
<1>7. ASSUME job[j].parent \in LiveJobs
      PROVE  Manages(u, job[j].parent) <=> Served(u, "remove_reportee", j)
  <2> DEFINE p == job[j].parent
  <2>1. Gates["remove_reportee"].may = "view"
        /\ Gates["remove_reportee"].rights = {"view", "parent"}
    BY <1>2 DEF RightGate
  <2>2. p # NoOne
    BY <1>7, LiveAreJobs, AccessAssumption
  <2>3. HasRight(u, "parent", j) <=> Manages(u, p)
    BY <2>2 DEF HasRight
  <2>4. HasRight(u, "view", j) <=> CanView(u, j)
    BY DEF HasRight
  <2>5. Manages(u, p) => CanView(u, j)
    <3>1. j \in Branch(p)
      BY <1>7, ParentIsAbove DEF Branch
    <3>2. Manages(u, p) => Manages(u, j)
      BY <1>7, <3>1, ManagersReachDown
    <3> QED
      BY <3>2, ManagersSee
  <2> QED
    BY <1>3, <1>4, <2>1, <2>3, <2>4, <2>5 DEF Served, GatePasses
<1> QED
  BY <1>5, <1>6, <1>7

LEMMA JobsStayKnown ==
    ASSUME JobsAreKnown, [AccessNext]_accessVars
    PROVE  JobsAreKnown'
<1>1. ASSUME NEW rows, DOMAIN rows \subseteq Jobs, PutAll(rows) PROVE JobsAreKnown'
  BY <1>1 DEF PutAll, JobsAreKnown
<1>2. ASSUME NEW j \in Jobs, NEW row, Put(j, row) PROVE JobsAreKnown'
  BY <1>1, <1>2 DEF Put
<1>3. ASSUME NEW u, NEW r, SetRole(u, r) PROVE JobsAreKnown'
  BY <1>3 DEF SetRole, JobsAreKnown
<1>4. ASSUME NEW u, NEW j \in Jobs, NEW p, NEW team, CreateJob(u, j, p, team) \/ BranchJob(u, j, p, team)
      PROVE  JobsAreKnown'
  <2>1. NewJob(u, j, p, team)
    BY <1>4 DEF CreateJob, BranchJob
  <2> QED
    BY <1>2, <2>1 DEF NewJob
<1>5. ASSUME NEW u, NEW j \in LiveJobs, NEW p, MoveJob(u, j, p) PROVE JobsAreKnown'
  BY <1>2, <1>5, LiveAreJobs DEF MoveJob
<1>6. ASSUME NEW u, NEW j \in LiveJobs, NEW v, SetReportee(u, j, v) PROVE JobsAreKnown'
  BY <1>2, <1>6, LiveAreJobs DEF SetReportee
<1>7. ASSUME NEW u, NEW j \in LiveJobs, NEW team, SetTeam(u, j, team) PROVE JobsAreKnown'
  BY <1>2, <1>7, LiveAreJobs DEF SetTeam
<1>8. ASSUME NEW u, NEW j \in LiveJobs, HandBack(u, j) PROVE JobsAreKnown'
  BY <1>2, <1>8, LiveAreJobs DEF HandBack
<1>9. ASSUME NEW u, NEW j \in LiveJobs, NEW k, SupersedeJob(u, j, k) PROVE JobsAreKnown'
  BY <1>2, <1>9, LiveAreJobs DEF SupersedeJob
<1>10. ASSUME NEW u, NEW j \in LiveJobs, DeleteJob(u, j) PROVE JobsAreKnown'
  <2> DEFINE rows == [d \in Branch(j) |-> [job[d] EXCEPT !.gone = TRUE]]
  <2>1. PutAll(rows)
    BY <1>10 DEF DeleteJob
  <2>2. DOMAIN rows \subseteq Jobs
    BY LiveAreJobs DEF Branch
  <2> HIDE DEF rows
  <2> QED
    BY <1>1, <2>1, <2>2
<1>11. ASSUME NEW u, NEW j \in LiveJobs, FoldJob(u, j) PROVE JobsAreKnown'
  BY <1>2, <1>11, LiveAreJobs DEF FoldJob
<1>12. ASSUME UNCHANGED accessVars PROVE JobsAreKnown'
  BY <1>12 DEF accessVars, JobsAreKnown
<1> QED
  BY <1>3, <1>4, <1>5, <1>6, <1>7, <1>8, <1>9, <1>10, <1>11, <1>12 DEF AccessNext

\* Whoever asks, whatever is asked, and after any changes of members and of
\* tasks: lists, reads, guards, services and the capabilities a reader is told
\* agree.
THEOREM AccessIsAlwaysCoherent == AccessSpec => []AccessIsCoherent
<1>1. AccessInit => JobsAreKnown
  BY DEF AccessInit, JobsAreKnown
<1>2. JobsAreKnown /\ [AccessNext]_accessVars => JobsAreKnown'
  BY JobsStayKnown
<1>3. JobsAreKnown => AccessIsCoherent
  <2> SUFFICES ASSUME JobsAreKnown PROVE AccessIsCoherent
    OBVIOUS
  <2>1. ManagementReachesDown
    BY ManagersReachDown DEF ManagementReachesDown
  <2> QED
    BY <2>1, ListsShowWhatOpens, WhatIsServedOpens, AskedBehindIsAskedInFront,
       ReadersAreToldWhatTheyMayDo DEF AccessIsCoherent
<1> QED
  BY <1>1, <1>2, <1>3, PTL DEF AccessSpec

-----------------------------------------------------------------------------
(***************************************************************************)
(* Imports.  A task is not below another if some set closed under children *)
(* holds the other and not it (as for the dependencies, no path is         *)
(* needed).  New tasks get ids by the place of their codes in the order of *)
(* their sort keys, so each code of a sheet has a task of its own.         *)
(***************************************************************************)
LEMMA LeastOfNumbers ==
    ASSUME NEW n \in Nat, NEW B \in SUBSET (1 .. n), B # {}
    PROVE  \E k \in B : \A j \in B : k <= j
<1> DEFINE F == {1 .. k : k \in B}
<1>1. F \subseteq FiniteSubsetsOf(1 .. n)
  <2>1. \A k \in B : 1 .. k \subseteq 1 .. n
    OBVIOUS
  <2>2. F \subseteq SUBSET (1 .. n)
    BY <2>1
  <2>3. IsFiniteSet(1 .. n)
    BY FS_Interval
  <2> HIDE DEF F
  <2> QED BY <2>2, <2>3, FS_FiniteSubsetsOfFinite
<1>2. F # {}
  OBVIOUS
<1> HIDE DEF F
<1>3. IsWellFoundedOn(StrictSubsetOrdering(1 .. n), FiniteSubsetsOf(1 .. n))
  BY FS_StrictSubsetOrderingWellFounded
<1>4. PICK A \in F : \A C \in F : ~(<<C, A>> \in StrictSubsetOrdering(1 .. n))
  BY <1>1, <1>2, <1>3, WFMin
<1>5. PICK k \in B : A = 1 .. k
  BY DEF F
<1>6. ASSUME NEW j \in B PROVE k <= j
  <2>1. 1 .. j \in F
    BY DEF F
  <2>2. j < k => <<1 .. j, A>> \in StrictSubsetOrdering(1 .. n)
    BY <1>5 DEF StrictSubsetOrdering
  <2> QED BY <1>4, <2>1, <2>2
<1> QED BY <1>6

LEMMA GreatestOfNumbers ==
    ASSUME NEW n \in Nat, NEW B \in SUBSET (1 .. n), B # {}
    PROVE  \E k \in B : \A j \in B : k >= j
<1> DEFINE C == {k \in 1 .. n : n + 1 - k \in B}
<1>1. PICK m \in B : TRUE
  OBVIOUS
<1>2. n + 1 - m \in C
  OBVIOUS
<1>3. C \in SUBSET (1 .. n) /\ C # {}
  BY <1>2
<1> HIDE DEF C
<1>4. PICK k \in C : \A j \in C : k <= j
  BY <1>3, LeastOfNumbers
<1>5. n + 1 - k \in B /\ k \in 1 .. n
  BY DEF C
<1>6. ASSUME NEW j \in B PROVE n + 1 - k >= j
  <2>1. n + 1 - j \in C
    BY DEF C
  <2> QED BY <1>4, <1>5, <2>1
<1> QED BY <1>5, <1>6

LEMMA SameFunctions ==
    ASSUME NEW X, NEW Y, NEW f \in [X -> Y], NEW g \in [X -> Y], \A n \in X : f[n] = g[n]
    PROVE  f = g
OBVIOUS

SortOrder(S) == {p \in S \X S : SortsBefore(p[1], p[2])}

LEMMA CodesAreSorted ==
    ASSUME NEW S \in SUBSET Seq(Nat)
    PROVE  StrictOrder(SortOrder(S), S)
<1>1. ASSUME NEW a \in S PROVE ~SortsBefore(a, a)
  <2>1. a \in Seq(Nat)
    OBVIOUS
  <2>2. \A n \in DOMAIN a : a[n] \in Nat
    BY <2>1
  <2> QED BY <2>2 DEF SortsBefore
<1>2. ASSUME NEW a \in S, NEW b \in S, NEW c \in S, SortsBefore(a, b), SortsBefore(b, c)
      PROVE  SortsBefore(a, c)
  <2>1. PICK la, lb, lc \in Nat : DOMAIN a = 1 .. la /\ DOMAIN b = 1 .. lb /\ DOMAIN c = 1 .. lc
    BY a \in Seq(Nat), b \in Seq(Nat), c \in Seq(Nat)
  <2>t. /\ \A n \in 1 .. la : a[n] \in Int
        /\ \A n \in 1 .. lb : b[n] \in Int
        /\ \A n \in 1 .. lc : c[n] \in Int
    BY <2>1, a \in Seq(Nat), b \in Seq(Nat), c \in Seq(Nat)
  <2>2. PICK m \in 1 .. lb : /\ \A k \in 1 .. m - 1 : k \in 1 .. la /\ a[k] = b[k]
                             /\ m \in 1 .. la => a[m] < b[m]
    BY <1>2, <2>1 DEF SortsBefore
  <2>3. PICK n \in 1 .. lc : /\ \A k \in 1 .. n - 1 : k \in 1 .. lb /\ b[k] = c[k]
                             /\ n \in 1 .. lb => b[n] < c[n]
    BY <1>2, <2>1 DEF SortsBefore
  <2>s. (\E k \in 1 .. lc : /\ \A j \in 1 .. k - 1 : j \in 1 .. la /\ a[j] = c[j]
                            /\ k \in 1 .. la => a[k] < c[k])
           => SortsBefore(a, c)
    BY <2>1 DEF SortsBefore
  <2>4. CASE m < n
    <3>1. m \in 1 .. n - 1
      BY <2>4
    <3>2. m \in 1 .. lc /\ b[m] = c[m] /\ (m \in 1 .. la => a[m] < c[m])
      BY <2>2, <2>3, <3>1
    <3>3. \A k \in 1 .. m - 1 : k \in 1 .. la /\ a[k] = c[k]
      BY <2>2, <2>3, <2>4
    <3> QED BY <2>s, <3>2, <3>3
  <2>5. CASE m = n
    <3>1. \A k \in 1 .. n - 1 : k \in 1 .. la /\ a[k] = c[k]
      BY <2>2, <2>3, <2>5
    <3>2. ASSUME n \in 1 .. la PROVE a[n] < c[n]
      <4>1. n \in 1 .. lb /\ a[n] \in Int /\ b[n] \in Int /\ c[n] \in Int
        BY <2>t, <2>5, <3>2
      <4>2. a[n] < b[n] /\ b[n] < c[n]
        BY <2>2, <2>3, <2>5, <3>2, <4>1
      <4>3. \A x, y, z \in Int : x < y /\ y < z => x < z
        OBVIOUS
      <4> QED BY <4>1, <4>2, <4>3
    <3> QED BY <2>s, <2>3, <3>1, <3>2
  <2>6. CASE n < m
    <3>1. n \in 1 .. m - 1 /\ n \in 1 .. lb
      BY <2>6
    <3>2. n \in 1 .. la /\ a[n] = b[n] /\ a[n] < c[n]
      BY <2>2, <2>3, <3>1
    <3>3. ASSUME NEW k \in 1 .. n - 1 PROVE k \in 1 .. la /\ a[k] = c[k]
      <4>1. k \in 1 .. m - 1
        BY <2>6
      <4>2. a[k] = b[k] /\ b[k] = c[k] /\ k \in 1 .. la
        BY <2>2, <2>3, <4>1
      <4> QED BY <4>2
    <3> QED BY <2>s, <2>3, <3>2, <3>3
  <2>7. m < n \/ m = n \/ n < m
    OBVIOUS
  <2> QED BY <2>4, <2>5, <2>6, <2>7
<1>3. ASSUME NEW a \in S, NEW b \in S, a # b PROVE SortsBefore(a, b) \/ SortsBefore(b, a)
  <2>0. a \in Seq(Nat) /\ b \in Seq(Nat)
    OBVIOUS
  <2>1. /\ DOMAIN a = 1 .. Len(a) /\ DOMAIN b = 1 .. Len(b)
        /\ Len(a) \in Nat /\ Len(b) \in Nat
        /\ \A n \in DOMAIN a : a[n] \in Nat
        /\ \A n \in DOMAIN b : b[n] \in Nat
    BY <2>0
  <2> DEFINE N == Len(a) + Len(b)
             D == {n \in 1 .. N : /\ n \in DOMAIN a \/ n \in DOMAIN b
                                  /\ ~(n \in DOMAIN a /\ n \in DOMAIN b /\ a[n] = b[n])}
  <2>2. N \in Nat /\ \A n : n \in DOMAIN a \/ n \in DOMAIN b => n \in 1 .. N
    BY <2>1
  <2>3. D # {}
    <3> SUFFICES ASSUME D = {} PROVE FALSE
      OBVIOUS
    <3>1. \A n : n \in DOMAIN a \/ n \in DOMAIN b => n \in DOMAIN a /\ n \in DOMAIN b /\ a[n] = b[n]
      BY <2>2
    <3>2. DOMAIN a = DOMAIN b
      BY <3>1
    <3>3. Len(a) = Len(b)
      BY <2>0, <3>2
    <3>4. \A n \in 1 .. Len(a) : a[n] = b[n]
      BY <2>1, <3>1
    <3>5. a \in [1 .. Len(a) -> Nat] /\ b \in [1 .. Len(b) -> Nat]
      BY <2>0
    <3>7. b \in [1 .. Len(a) -> Nat]
      BY <3>3, <3>5
    <3> HIDE DEF D
    <3> QED BY <1>3, <3>4, <3>5, <3>7, SameFunctions
  <2>4. D \in SUBSET (1 .. N)
    OBVIOUS
  <2>5. PICK n \in D : \A j \in D : n <= j
    <3> HIDE DEF D, N
    <3> QED BY <2>2, <2>3, <2>4, LeastOfNumbers
  <2>6. /\ n \in 1 .. N /\ (n \in DOMAIN a \/ n \in DOMAIN b)
        /\ ~(n \in DOMAIN a /\ n \in DOMAIN b /\ a[n] = b[n])
    OBVIOUS
  <2>7. ASSUME NEW k \in 1 .. n - 1 PROVE k \in DOMAIN a /\ k \in DOMAIN b /\ a[k] = b[k]
    <3>1. k \in 1 .. N /\ k < n
      BY <2>2, <2>6
    <3>2. k \notin D
      BY <2>2, <2>5, <2>6, <3>1
    <3>3. k \in DOMAIN a \/ k \in DOMAIN b
      BY <2>1, <2>6, <3>1
    <3> QED BY <3>1, <3>2, <3>3
  <2> HIDE DEF D, N
  <2>8. CASE n \in DOMAIN b /\ (n \in DOMAIN a => a[n] < b[n])
    BY <2>7, <2>8 DEF SortsBefore
  <2>9. CASE n \in DOMAIN a /\ (n \in DOMAIN b => b[n] < a[n])
    BY <2>7, <2>9 DEF SortsBefore
  <2> QED BY <2>1, <2>6, <2>8, <2>9
<1>4. \A a, b \in S : <<a, b>> \in SortOrder(S) <=> SortsBefore(a, b)
  BY DEF SortOrder
<1> QED BY <1>1, <1>2, <1>3, <1>4 DEF StrictOrder

LEMMA NumbersAreOrdered ==
    ASSUME NEW S \in SUBSET Nat
    PROVE  StrictOrder({p \in S \X S : p[1] < p[2]}, S)
BY DEF StrictOrder

\* What an import has found: of some codes, a task each.
FoundIn(w, s, f) ==
    /\ DOMAIN f \subseteq CodesOf(s)
    /\ \A c \in DOMAIN f : f[c] \in DOMAIN w
    /\ \A c, d \in DOMAIN f : f[c] = f[d] => c = d

LEMMA SheetRows ==
    ASSUME NEW s \in Sheets
    PROVE  /\ Depth(s) \in {3, 4} /\ (s.kind = "activities" => Depth(s) = 3)
           /\ s.kind = "wbs" \/ s.kind = "activities"
           /\ Len(s.rows) \in Nat /\ DOMAIN s.rows = 1 .. Len(s.rows)
           /\ \A i \in DOMAIN s.rows :
                /\ s.rows[i] \in SheetRow(Depth(s))
                /\ DOMAIN s.rows[i].path = 1 .. Depth(s) /\ Len(s.rows[i].path) = Depth(s)
                /\ \A n \in 1 .. Depth(s) : s.rows[i].path[n] \in Codes
<1>1. s.kind \in {"activities", "wbs"} /\ s.rows \in Seq(SheetRow(Depth(s)))
  BY ImportAssumption
<1>2. Depth(s) \in {3, 4} /\ (s.kind = "activities" => Depth(s) = 3)
  BY DEF Depth
<1>3. Len(s.rows) \in Nat /\ DOMAIN s.rows = 1 .. Len(s.rows) /\ \A i \in DOMAIN s.rows : s.rows[i] \in SheetRow(Depth(s))
  BY <1>1
<1>4. ASSUME NEW i \in DOMAIN s.rows
      PROVE  /\ DOMAIN s.rows[i].path = 1 .. Depth(s) /\ Len(s.rows[i].path) = Depth(s)
             /\ \A n \in 1 .. Depth(s) : s.rows[i].path[n] \in Codes
  <2> DEFINE path == s.rows[i].path
  <2>1. path \in [1 .. Depth(s) -> Codes]
    BY <1>3 DEF SheetRow
  <2>2. Depth(s) \in Nat
    BY <1>2
  <2> HIDE DEF path
  <2>3. path \in Seq(Codes) /\ Len(path) = Depth(s)
    BY <2>1, <2>2
  <2> QED BY <2>1, <2>3 DEF path
<1> QED BY <1>1, <1>2, <1>3, <1>4

LEMMA CodesAreFinite ==
    ASSUME NEW s \in Sheets
    PROVE  CodesOf(s) \subseteq Codes /\ IsFiniteSet(CodesOf(s))
<1> DEFINE P == (DOMAIN s.rows) \X (1 .. Depth(s))
           f == [p \in P |-> s.rows[p[1]].path[p[2]]]
<1>1. IsFiniteSet(DOMAIN s.rows) /\ IsFiniteSet(1 .. Depth(s))
  BY SheetRows, FS_Interval
<1>2. IsFiniteSet(P)
  BY <1>1, FS_Product
<1>3. \A c : c \in CodesOf(s) <=> \E i \in DOMAIN s.rows, n \in 1 .. Depth(s) : c = s.rows[i].path[n]
  BY DEF CodesOf, Level
<1>4. CodesOf(s) \subseteq Codes
  BY <1>3, SheetRows
<1>5. f \in [P -> CodesOf(s)]
  BY <1>3
<1>6. \A c \in CodesOf(s) : \E p \in P : f[p] = c
  <2> SUFFICES ASSUME NEW c \in CodesOf(s) PROVE \E p \in P : f[p] = c
    OBVIOUS
  <2>1. PICK i \in DOMAIN s.rows, n \in 1 .. Depth(s) : c = s.rows[i].path[n]
    BY <1>3
  <2>2. <<i, n>> \in P
    OBVIOUS
  <2> QED BY <2>1, <2>2
<1> HIDE DEF f, P
<1>7. f \in Surjection(P, CodesOf(s))
  BY <1>5, <1>6 DEF Surjection
<1> QED BY <1>2, <1>4, <1>7, FS_Surjection

\* A task for each code: the one that was found, or a new one, each once.
LEMMA AssignedIs ==
    ASSUME NEW s \in Sheets, NEW f, NEW id, DOMAIN node \subseteq Nodules, FoundIn(node, s, f), Fits(s, f),
           id = Assigned(s, f)
    PROVE  /\ DOMAIN id = CodesOf(s) /\ id = [c \in CodesOf(s) |-> id[c]]
           /\ \A c \in CodesOf(s) : id[c] \in Nodules
           /\ \A c \in DOMAIN f : id[c] = f[c]
           /\ \A c \in CodesOf(s) \ DOMAIN f : id[c] \notin DOMAIN node
           /\ \A c, d \in CodesOf(s) : id[c] = id[d] => c = d
<1> DEFINE new == CodesOf(s) \ DOMAIN f
           free == Nodules \ DOMAIN node
           Less == {p \in free \X free : p[1] < p[2]}
           earlier(c) == {b \in new : SortsBefore(b, c)}
           smaller(t) == {u \in free : u < t}
           newFor(c) == CHOOSE t \in free : Cardinality(smaller(t)) = Cardinality(earlier(c))
<1>1. id = [c \in CodesOf(s) |-> IF c \in new THEN newFor(c) ELSE f[c]]
  BY DEF Assigned
<1>2. IsFiniteSet(new) /\ IsFiniteSet(free)
  BY CodesAreFinite, ImportAssumption, FS_Difference
<1>3. Cardinality(new) <= Cardinality(free) /\ Cardinality(new) \in Nat /\ Cardinality(free) \in Nat
  BY <1>2, FS_CardinalityType DEF Fits
<1>4. StrictOrder(SortOrder(new), new)
  <2>1. new \in SUBSET Seq(Nat)
    BY CodesAreFinite, ImportAssumption
  <2> HIDE DEF new
  <2> QED BY <2>1, CodesAreSorted
<1>5. StrictOrder(Less, free)
  <2>1. free \in SUBSET Nat
    BY ImportAssumption
  <2> HIDE DEF free
  <2> QED BY <2>1, NumbersAreOrdered
<1>6. \A c \in new : earlier(c) = BeforeIt(SortOrder(new), new, c)
  BY DEF BeforeIt, SortOrder
<1>7. \A t \in free : smaller(t) = BeforeIt(Less, free, t)
  BY DEF BeforeIt
<1> HIDE DEF new, free, Less, earlier, smaller
<1>8. ASSUME NEW c \in new
      PROVE  newFor(c) \in free /\ Cardinality(smaller(newFor(c))) = Cardinality(earlier(c))
  <2>1. PlaceOf(SortOrder(new), new, c) \in Nat /\ PlaceOf(SortOrder(new), new, c) < Cardinality(new)
    BY <1>2, <1>4, PlacesAreOrdered
  <2>2. PlaceOf(SortOrder(new), new, c) < Cardinality(free)
    BY <1>3, <2>1
  <2>3. PICK t \in free : PlaceOf(Less, free, t) = PlaceOf(SortOrder(new), new, c)
    BY <1>2, <1>5, <2>1, <2>2, PlacesAreFilled
  <2>4. Cardinality(smaller(t)) = Cardinality(earlier(c))
    BY <1>6, <1>7, <2>3 DEF PlaceOf
  <2> QED BY <2>4
<1>9. ASSUME NEW c \in new, NEW d \in new, newFor(c) = newFor(d) PROVE c = d
  <2>1. Cardinality(earlier(c)) = Cardinality(earlier(d))
    BY <1>8, <1>9
  <2>2. PlaceOf(SortOrder(new), new, c) = PlaceOf(SortOrder(new), new, d)
    BY <1>6, <2>1 DEF PlaceOf
  <2> QED BY <1>2, <1>4, <2>2, PlacesDiffer
<1> HIDE DEF newFor
<1>10. /\ DOMAIN id = CodesOf(s) /\ id = [c \in CodesOf(s) |-> id[c]]
       /\ \A c \in new : id[c] = newFor(c)
       /\ \A c \in CodesOf(s) \ new : id[c] = f[c]
  BY <1>1 DEF new
<1>11. \A c \in DOMAIN f : c \in CodesOf(s) \ new /\ id[c] = f[c] /\ f[c] \in DOMAIN node
  BY <1>10 DEF FoundIn, new
<1>12. \A c \in new : id[c] \in Nodules /\ id[c] \notin DOMAIN node
  BY <1>8, <1>10 DEF free
<1>13. \A c \in CodesOf(s) : c \in new \/ c \in DOMAIN f
  BY DEF new
<1>14. ASSUME NEW c \in CodesOf(s), NEW d \in CodesOf(s), id[c] = id[d] PROVE c = d
  <2>1. CASE c \in new /\ d \in new
    BY <1>9, <1>10, <1>14, <2>1
  <2>2. CASE c \in DOMAIN f /\ d \in DOMAIN f
    BY <1>11, <1>14, <2>2 DEF FoundIn
  <2>3. CASE c \in new /\ d \in DOMAIN f
    BY <1>11, <1>12, <1>14, <2>3
  <2>4. CASE c \in DOMAIN f /\ d \in new
    BY <1>11, <1>12, <1>14, <2>4
  <2> QED BY <1>13, <2>1, <2>2, <2>3, <2>4
<1> QED BY <1>10, <1>11, <1>12, <1>13, <1>14 DEF new

-----------------------------------------------------------------------------
(***************************************************************************)
(* Where a sheet puts its codes.                                           *)
(***************************************************************************)
LEMMA LevelsHold ==
    ASSUME NEW s \in Sheets
    PROVE  /\ \A n \in 1 .. Depth(s) : Level(s, n) \subseteq CodesOf(s)
           /\ \A c \in CodesOf(s) : \E n \in 1 .. Depth(s) : c \in Level(s, n)
           /\ \A n \in 1 .. Depth(s) : \A c : c \in Level(s, n) <=> \E i \in DOMAIN s.rows : s.rows[i].path[n] = c
BY DEF CodesOf, Level

LEMMA AboveIs ==
    ASSUME NEW s \in Sheets, NEW n \in 1 .. Depth(s), NEW c \in Level(s, n)
    PROVE  /\ n = 1 => Above(s, n, c) = NoCode
           /\ n # 1 => \E i \in DOMAIN s.rows : s.rows[i].path[n] = c /\ Above(s, n, c) = s.rows[i].path[n - 1]
<1>1. n = 1 => Above(s, n, c) = NoCode
  BY DEF Above
<1>2. ASSUME n # 1
      PROVE  \E i \in DOMAIN s.rows : s.rows[i].path[n] = c /\ Above(s, n, c) = s.rows[i].path[n - 1]
  <2> DEFINE at == {i \in DOMAIN s.rows : s.rows[i].path[n] = c}
             first == CHOOSE i \in at : \A j \in at : IF n = Depth(s) THEN i <= j ELSE i >= j
  <2>1. at \in SUBSET (1 .. Len(s.rows)) /\ at # {} /\ Len(s.rows) \in Nat
    BY LevelsHold, SheetRows
  <2>2. Above(s, n, c) = s.rows[first].path[n - 1]
    BY <1>2 DEF Above
  <2>3. at \subseteq {i \in DOMAIN s.rows : s.rows[i].path[n] = c}
    OBVIOUS
  <2> HIDE DEF at
  <2>4. \E i \in at : \A j \in at : IF n = Depth(s) THEN i <= j ELSE i >= j
    <3>1. \E i \in at : \A j \in at : i <= j
      BY <2>1, LeastOfNumbers
    <3>2. \E i \in at : \A j \in at : i >= j
      BY <2>1, GreatestOfNumbers
    <3> QED BY <3>1, <3>2
  <2>5. first \in at
    BY <2>4
  <2> HIDE DEF first
  <2> QED BY <2>2, <2>3, <2>5
<1> QED BY <1>1, <1>2

LEMMA ParentCodes ==
    ASSUME NEW s \in Sheets, NEW c \in CodesOf(s)
    PROVE  /\ ParentCode(s, c) \in CodesOf(s) \cup {NoCode}
           /\ LevelsApart(s) =>
                \A n \in 1 .. Depth(s) : c \in Level(s, n) => ParentCode(s, c) = Above(s, n, c)
           /\ LevelsApart(s) =>
                \A n \in 1 .. Depth(s) : c \in Level(s, n) /\ n # 1 => ParentCode(s, c) \in Level(s, n - 1)
<1> DEFINE at == {n \in 1 .. Depth(s) : c \in Level(s, n)}
           Low(n) == c \in Level(s, n) /\ \A k \in n + 1 .. Depth(s) : c \notin Level(s, k)
           low == CHOOSE n \in 1 .. Depth(s) : Low(n)
<1>1. Depth(s) \in Nat /\ at \in SUBSET (1 .. Depth(s)) /\ at # {}
  BY SheetRows, LevelsHold
<1>2. PICK m \in at : \A k \in at : m >= k
  <2> HIDE DEF at
  <2> QED BY <1>1, GreatestOfNumbers
<1>3. m \in 1 .. Depth(s) /\ Low(m)
  <2>1. m \in 1 .. Depth(s) /\ c \in Level(s, m)
    OBVIOUS
  <2>2. ASSUME NEW k \in m + 1 .. Depth(s) PROVE c \notin Level(s, k)
    <3>1. k \in 1 .. Depth(s) /\ k > m
      BY <1>1, <2>1
    <3>2. k \notin at
      BY <1>2, <2>1, <3>1
    <3> QED BY <3>1, <3>2
  <2> QED BY <2>1, <2>2
<1>4. low \in 1 .. Depth(s) /\ Low(low)
  <2> HIDE DEF Low
  <2> QED BY <1>3
<1>5. c \in Level(s, low)
  BY <1>4
<1>6. ParentCode(s, c) = Above(s, low, c)
  BY DEF ParentCode
<1> HIDE DEF low, at, Low
<1>7. low # 1 => \E i \in DOMAIN s.rows : s.rows[i].path[low] = c /\ Above(s, low, c) = s.rows[i].path[low - 1]
  BY <1>4, <1>5, AboveIs
<1>8. low = 1 => Above(s, low, c) = NoCode
  BY <1>4, <1>5, AboveIs
<1>9. low # 1 => low - 1 \in 1 .. Depth(s)
  BY <1>1, <1>4
<1>10. low # 1 => Above(s, low, c) \in Level(s, low - 1)
  BY <1>7, <1>9, LevelsHold
<1>11. ParentCode(s, c) \in CodesOf(s) \cup {NoCode}
  BY <1>6, <1>8, <1>9, <1>10, LevelsHold
<1>12. ASSUME LevelsApart(s), NEW n \in 1 .. Depth(s), c \in Level(s, n) PROVE n = low
  BY <1>4, <1>5, <1>12 DEF LevelsApart
<1> QED BY <1>6, <1>10, <1>11, <1>12

LEMMA WellFormedParents ==
    ASSUME NEW s \in Sheets, WellFormed(s), NEW i \in DOMAIN s.rows, NEW n \in 1 .. Depth(s)
    PROVE  ParentCode(s, s.rows[i].path[n]) = IF n = 1 THEN NoCode ELSE s.rows[i].path[n - 1]
<1> DEFINE c == s.rows[i].path[n]
<1>1. c \in Level(s, n) /\ c \in CodesOf(s)
  BY LevelsHold
<1>2. ParentCode(s, c) = Above(s, n, c)
  BY <1>1, ParentCodes DEF WellFormed
<1>3. n = 1 => Above(s, n, c) = NoCode
  BY <1>1, AboveIs
<1>4. ASSUME n # 1 PROVE Above(s, n, c) = s.rows[i].path[n - 1]
  <2>1. PICK j \in DOMAIN s.rows : s.rows[j].path[n] = c /\ Above(s, n, c) = s.rows[j].path[n - 1]
    BY <1>1, <1>4, AboveIs
  <2>2. n \in 2 .. Depth(s)
    BY <1>4, SheetRows
  <2>3. s.rows[j].path[n - 1] = s.rows[i].path[n - 1]
    BY <2>1, <2>2 DEF WellFormed
  <2> QED BY <2>1, <2>3
<1> QED BY <1>2, <1>3, <1>4

-----------------------------------------------------------------------------
(***************************************************************************)
(* Trees of tasks w.                                                       *)
(***************************************************************************)
LiveIn(w) == {t \in DOMAIN w : ~w[t].gone}

\* p is not t, nor below it.
Cut(w, t, p) ==
    \E S \in SUBSET Nodules :
        t \in S /\ p \notin S /\ \A x \in LiveIn(w) : w[x].parent \in S => x \in S

NoLoops(w) == \A t \in LiveIn(w) : Cut(w, t, w[t].parent)

Rooted(w) == \A t \in LiveIn(w) : w[t].parent \in LiveIn(w) \cup {NoNode}

\* Below(t) is the least of the sets that cut something from t.
LEMMA BelowIs ==
    ASSUME DOMAIN node \subseteq Nodules, NEW t \in LiveNodes
    PROVE  /\ \A p : p \notin Below(t) <=> Cut(node, t, p)
           /\ Below(t) \subseteq LiveNodes
           /\ \A x \in LiveNodes : node[x].parent \in Below(t) => x \in Below(t)
<1>0. LiveNodes = LiveIn(node) /\ LiveNodes \subseteq Nodules
  BY DEF LiveNodes, LiveIn
<1>1. ASSUME NEW p, p \notin Below(t) PROVE Cut(node, t, p)
  <2>1. CASE p \notin LiveNodes
    <3>1. LiveNodes \in SUBSET Nodules
      BY <1>0
    <3>2. t \in LiveNodes /\ p \notin LiveNodes /\ \A x \in LiveIn(node) : node[x].parent \in LiveNodes => x \in LiveNodes
      BY <1>0, <2>1
    <3> HIDE DEF LiveNodes
    <3> QED BY <3>1, <3>2 DEF Cut
  <2>2. CASE p \in LiveNodes
    <3>1. PICK S \in SUBSET LiveNodes : t \in S /\ (\A x \in LiveNodes : node[x].parent \in S => x \in S) /\ p \notin S
      BY <1>1, <2>2 DEF Below
    <3> QED BY <1>0, <3>1 DEF Cut
  <2> QED BY <2>1, <2>2
<1>2. ASSUME NEW p, Cut(node, t, p) PROVE p \notin Below(t)
  <2>1. PICK S \in SUBSET Nodules :
          t \in S /\ p \notin S /\ \A x \in LiveIn(node) : node[x].parent \in S => x \in S
    BY <1>2 DEF Cut
  <2> DEFINE R == S \cap LiveNodes
  <2>2. R \in SUBSET LiveNodes /\ t \in R /\ p \notin R /\ \A x \in LiveNodes : node[x].parent \in R => x \in R
    BY <1>0, <2>1
  <2> HIDE DEF R
  <2> QED BY <2>2 DEF Below
<1>3. Below(t) \subseteq LiveNodes
  BY DEF Below
<1>4. \A x \in LiveNodes : node[x].parent \in Below(t) => x \in Below(t)
  BY DEF Below
<1> QED BY <1>1, <1>2, <1>3, <1>4

LEMMA LeafHasNoLoops ==
    ASSUME NEW w, NEW v, NEW t \in Nodules, t \notin DOMAIN w, DOMAIN w \subseteq Nodules,
           DOMAIN v = DOMAIN w \cup {t}, \A u \in DOMAIN w : v[u] = w[u],
           v[t].parent \in LiveIn(w) \cup {NoNode}, Rooted(w), NoLoops(w)
    PROVE  NoLoops(v)
<1>0. NoNode \notin Nodules
  BY ImportAssumption
<1>1. \A x \in LiveIn(v) : x = t \/ (x \in LiveIn(w) /\ x \in DOMAIN w /\ x # t /\ v[x] = w[x])
  BY DEF LiveIn
<1>2. \A x \in LiveIn(v) : v[x].parent # t
  BY <1>0, <1>1 DEF Rooted, LiveIn
<1>3. Cut(v, t, v[t].parent)
  <2>1. {t} \in SUBSET Nodules /\ v[t].parent \notin {t}
    BY <1>0 DEF LiveIn
  <2> QED BY <1>2, <2>1 DEF Cut
<1>4. ASSUME NEW u \in LiveIn(v), u # t PROVE Cut(v, u, v[u].parent)
  <2>1. u \in LiveIn(w) /\ v[u] = w[u] /\ v[u].parent # t
    BY <1>1, <1>2, <1>4
  <2>2. PICK S \in SUBSET Nodules :
          u \in S /\ w[u].parent \notin S /\ \A x \in LiveIn(w) : w[x].parent \in S => x \in S
    BY <2>1 DEF NoLoops, Cut
  <2> DEFINE R == S \cup {t}
  <2>3. R \in SUBSET Nodules /\ u \in R /\ v[u].parent \notin R
    BY <2>1, <2>2
  <2>4. \A x \in LiveIn(v) : v[x].parent \in R => x \in R
    BY <1>1, <1>2, <2>2
  <2> HIDE DEF R
  <2> QED BY <2>3, <2>4 DEF Cut
<1> QED BY <1>3, <1>4 DEF NoLoops

LEMMA MoveHasNoLoops ==
    ASSUME NEW w, NEW v, NEW t \in LiveIn(w), DOMAIN w \subseteq Nodules, LiveIn(v) = LiveIn(w),
           \A u \in LiveIn(w) : u # t => v[u].parent = w[u].parent,
           Cut(w, t, v[t].parent), NoLoops(w)
    PROVE  NoLoops(v)
<1>1. PICK T \in SUBSET Nodules :
        t \in T /\ v[t].parent \notin T /\ \A x \in LiveIn(w) : w[x].parent \in T => x \in T
  BY DEF Cut
<1>2. Cut(v, t, v[t].parent)
  BY <1>1 DEF Cut
<1>3. ASSUME NEW u \in LiveIn(v), u # t PROVE Cut(v, u, v[u].parent)
  <2>1. u \in LiveIn(w) /\ v[u].parent = w[u].parent
    BY <1>3
  <2>2. PICK S \in SUBSET Nodules :
          u \in S /\ w[u].parent \notin S /\ \A x \in LiveIn(w) : w[x].parent \in S => x \in S
    BY <2>1 DEF NoLoops, Cut
  <2>3. CASE w[u].parent \in T
    <3> DEFINE R == S \cap T
    <3>1. R \in SUBSET Nodules /\ u \in R /\ v[u].parent \notin R
      BY <1>1, <2>1, <2>2, <2>3
    <3>2. \A x \in LiveIn(v) : v[x].parent \in R => x \in R
      BY <1>1, <2>2
    <3> HIDE DEF R
    <3> QED BY <3>1, <3>2 DEF Cut
  <2>4. CASE w[u].parent \notin T
    <3> DEFINE R == S \cup T
    <3>1. R \in SUBSET Nodules /\ u \in R /\ v[u].parent \notin R
      BY <2>1, <2>2, <2>4
    <3>2. \A x \in LiveIn(v) : v[x].parent \in R => x \in R
      BY <1>1, <2>2
    <3> HIDE DEF R
    <3> QED BY <3>1, <3>2 DEF Cut
  <2> QED BY <2>3, <2>4
<1> QED BY <1>2, <1>3 DEF NoLoops

LEMMA FewerHaveNoLoops ==
    ASSUME NEW w, NEW v, LiveIn(v) \subseteq LiveIn(w),
           \A u \in LiveIn(v) : v[u].parent = w[u].parent, NoLoops(w)
    PROVE  NoLoops(v)
<1> SUFFICES ASSUME NEW u \in LiveIn(v) PROVE Cut(v, u, v[u].parent)
  BY DEF NoLoops
<1>1. PICK S \in SUBSET Nodules :
        u \in S /\ w[u].parent \notin S /\ \A x \in LiveIn(w) : w[x].parent \in S => x \in S
  BY DEF NoLoops, Cut
<1> QED BY <1>1 DEF Cut

\* The row of a code of a sheet, whose tasks are id.
SheetNode(s, id, c) ==
    [code |-> c, parent |-> IF ParentCode(s, c) = NoCode THEN NoNode ELSE id[ParentCode(s, c)], gone |-> FALSE]

SavedBy(s, id) == {id[c] : c \in CodesOf(s)}

\* v is w after the sheet was saved.
SheetSaved(w, v, s, id) ==
    /\ \A c \in CodesOf(s) : id[c] \in Nodules
    /\ \A c, d \in CodesOf(s) : id[c] = id[d] => c = d
    /\ DOMAIN v = DOMAIN w \cup SavedBy(s, id)
    /\ \A c \in CodesOf(s) : v[id[c]] = SheetNode(s, id, c)
    /\ \A t \in DOMAIN w \ SavedBy(s, id) : v[t] = w[t]

LEMMA SheetParents ==
    ASSUME NEW w, NEW v, NEW s \in Sheets, NEW id, SheetSaved(w, v, s, id), NEW c \in CodesOf(s)
    PROVE  /\ v[id[c]].parent \in SavedBy(s, id) \cup {NoNode}
           /\ id[c] \in LiveIn(v)
           /\ ParentCode(s, c) = NoCode => v[id[c]].parent = NoNode
           /\ ParentCode(s, c) # NoCode => v[id[c]].parent = id[ParentCode(s, c)]
<1>1. v[id[c]] = SheetNode(s, id, c) /\ id[c] \in DOMAIN v
  BY DEF SheetSaved, SavedBy
<1>2. ParentCode(s, c) \in CodesOf(s) \cup {NoCode}
  BY ParentCodes
<1> QED BY <1>1, <1>2 DEF SheetNode, LiveIn, SavedBy

\* The levels of a sheet are closed upwards, and so is what it leaves alone.
LEMMA SheetHasNoLoops ==
    ASSUME NEW w, NEW v, NEW s \in Sheets, NEW id, DOMAIN w \subseteq Nodules, SheetSaved(w, v, s, id),
           LevelsApart(s), NoLoops(w)
    PROVE  NoLoops(v)
<1> DEFINE saved == SavedBy(s, id)
<1>0. NoNode \notin Nodules /\ NoCode \notin CodesOf(s)
  BY ImportAssumption, CodesAreFinite
<1>1. saved \subseteq Nodules /\ DOMAIN v \subseteq Nodules
  BY DEF SheetSaved, SavedBy
<1>2. \A x \in LiveIn(v) : x \in saved \/ (x \in LiveIn(w) /\ v[x] = w[x])
  BY DEF SheetSaved, LiveIn
<1>p. /\ \A c \in CodesOf(s) : ParentCode(s, c) = NoCode => v[id[c]].parent = NoNode
      /\ \A c \in CodesOf(s) : ParentCode(s, c) # NoCode => v[id[c]].parent = id[ParentCode(s, c)]
  BY SheetParents
<1>3. \A x \in saved : v[x].parent \in saved \cup {NoNode}
  BY SheetParents DEF SavedBy
<1>4. ASSUME NEW t \in LiveIn(v), t \notin saved PROVE Cut(v, t, v[t].parent)
  <2>1. t \in LiveIn(w) /\ v[t] = w[t]
    BY <1>2, <1>4
  <2>2. PICK S \in SUBSET Nodules :
          t \in S /\ w[t].parent \notin S /\ \A x \in LiveIn(w) : w[x].parent \in S => x \in S
    BY <2>1 DEF NoLoops, Cut
  <2> DEFINE R == S \ saved
  <2>3. R \in SUBSET Nodules /\ t \in R /\ v[t].parent \notin R
    BY <1>4, <2>1, <2>2
  <2>4. \A x \in LiveIn(v) : v[x].parent \in R => x \in R
    BY <1>0, <1>2, <1>3, <2>2
  <2> HIDE DEF R
  <2> QED BY <2>3, <2>4 DEF Cut
<1>5. ASSUME NEW c \in CodesOf(s) PROVE Cut(v, id[c], v[id[c]].parent)
  <2>1. PICK n \in 1 .. Depth(s) : c \in Level(s, n)
    BY LevelsHold
  <2>d. Depth(s) \in Nat
    BY SheetRows
  <2>2. CASE n = 1
    <3>1. ParentCode(s, c) = NoCode
      BY <2>1, <2>2, ParentCodes, AboveIs
    <3>2. v[id[c]].parent = NoNode
      BY <1>p, <3>1
    <3>3. Nodules \in SUBSET Nodules /\ id[c] \in Nodules /\ \A x \in LiveIn(v) : x \in Nodules
      BY <1>1 DEF SheetSaved, LiveIn
    <3> QED BY <1>0, <3>2, <3>3 DEF Cut
  <2>3. CASE n # 1
    <3> DEFINE Higher == {id[d] : d \in {x \in CodesOf(s) : \E m \in 1 .. n - 1 : x \in Level(s, m)}}
               S == Nodules \ Higher
    <3>0. \A m \in 1 .. n - 1 : m \in 1 .. Depth(s) /\ m # n
      BY <2>d
    <3>1. id[c] \in S
      <4>1. id[c] \in Nodules
        BY DEF SheetSaved
      <4>2. ASSUME NEW d \in CodesOf(s), NEW m \in 1 .. n - 1, d \in Level(s, m), id[c] = id[d] PROVE FALSE
        <5>1. c = d
          BY <4>2 DEF SheetSaved
        <5> QED BY <2>1, <3>0, <4>2, <5>1 DEF LevelsApart
      <4> QED BY <4>1, <4>2
    <3>2. v[id[c]].parent \notin S
      <4>1. ParentCode(s, c) \in Level(s, n - 1)
        BY <2>1, <2>3, ParentCodes
      <4>2. n - 1 \in 1 .. n - 1 /\ n - 1 \in 1 .. Depth(s)
        BY <2>3, <2>d
      <4>3. ParentCode(s, c) \in CodesOf(s) /\ ParentCode(s, c) # NoCode
        BY <1>0, <4>1, <4>2, LevelsHold
      <4>4. v[id[c]].parent = id[ParentCode(s, c)]
        BY <1>p, <4>3
      <4> QED BY <4>1, <4>2, <4>3, <4>4
    <3>3. ASSUME NEW x \in LiveIn(v), v[x].parent \in S, x \notin S PROVE FALSE
      <4>1. x \in Higher
        BY <1>1, <3>3 DEF LiveIn
      <4>2. PICK d \in CodesOf(s), m \in 1 .. n - 1 : d \in Level(s, m) /\ x = id[d]
        BY <4>1
      <4>3. m \in 1 .. Depth(s)
        BY <3>0
      <4>4. CASE m = 1
        <5>1. ParentCode(s, d) = NoCode
          BY <4>2, <4>3, <4>4, ParentCodes, AboveIs
        <5>2. v[x].parent = NoNode
          BY <1>p, <4>2, <5>1
        <5> QED BY <1>0, <3>3, <5>2
      <4>5. CASE m # 1
        <5>1. ParentCode(s, d) \in Level(s, m - 1)
          BY <4>2, <4>3, <4>5, ParentCodes
        <5>2. m - 1 \in 1 .. n - 1 /\ m - 1 \in 1 .. Depth(s)
          BY <2>d, <4>3, <4>5
        <5>3. ParentCode(s, d) \in CodesOf(s) /\ ParentCode(s, d) # NoCode
          BY <1>0, <5>1, <5>2, LevelsHold
        <5>4. v[x].parent = id[ParentCode(s, d)]
          BY <1>p, <4>2, <5>3
        <5>5. v[x].parent \in Higher
          BY <5>1, <5>2, <5>3, <5>4
        <5> QED BY <3>3, <5>5
      <4> QED BY <4>4, <4>5
    <3>4. S \in SUBSET Nodules
      OBVIOUS
    <3> HIDE DEF S
    <3> QED BY <3>1, <3>2, <3>3, <3>4 DEF Cut
  <2> QED BY <2>2, <2>3
<1> QED BY <1>4, <1>5 DEF NoLoops, SavedBy

-----------------------------------------------------------------------------
(***************************************************************************)
(* A sheet is in place in tables w, r, d and l.                            *)
(***************************************************************************)
DaysFor(s, c) == s.rows[CHOOSE i \in DOMAIN s.rows : s.rows[i].path[3] = c].days

Linked(s, id, l) ==
    \A i \in DOMAIN s.rows : s.rows[i].after # NoCode => <<id[s.rows[i].path[3]], id[s.rows[i].after]>> \in l

InPlace(w, r, d, l, s, id) ==
    /\ id = [c \in CodesOf(s) |-> id[c]] /\ DOMAIN id = CodesOf(s)
    /\ SheetSaved(w, w, s, id)
    /\ \A c \in CodesOf(s) : c \in DOMAIN r /\ r[c] = id[c]
    /\ s.kind = "wbs" => SavedBy(s, id) \subseteq DOMAIN d
    /\ s.kind = "activities" =>
          /\ \A c \in Level(s, 3) : id[c] \in DOMAIN d /\ d[id[c]] = DaysFor(s, c)
          /\ Linked(s, id, l)
    /\ w = [t \in DOMAIN w |-> w[t]] /\ r = [c \in DOMAIN r |-> r[c]] /\ d = [t \in DOMAIN d |-> d[t]]

Identified(s, id) ==
    /\ DOMAIN id = CodesOf(s) /\ id = [c \in CodesOf(s) |-> id[c]]
    /\ \A c \in CodesOf(s) : id[c] \in Nodules
    /\ \A c, d \in CodesOf(s) : id[c] = id[d] => c = d

LEMMA CodeAtIs ==
    ASSUME NEW s \in Sheets, NEW id, Identified(s, id), NEW S \in SUBSET CodesOf(s), NEW c \in S
    PROVE  (CHOOSE x \in S : id[x] = id[c]) = c
BY DEF Identified

\* upsertTask() for every code of the sheet.
LEMMA UpsertedIs ==
    ASSUME NEW s \in Sheets, NEW id, Identified(s, id), NEW v, v = Upserted(s, id)
    PROVE  SheetSaved(node, v, s, id) /\ v = [t \in DOMAIN v |-> v[t]]
<1> DEFINE codeAt(t) == CHOOSE c \in CodesOf(s) : id[c] = t
           parentOf(c) == IF ParentCode(s, c) = NoCode THEN NoNode ELSE id[ParentCode(s, c)]
           row(t) == [code |-> codeAt(t), parent |-> parentOf(codeAt(t)), gone |-> FALSE]
<1>1. v = [t \in DOMAIN node \cup SavedBy(s, id) |-> IF t \in SavedBy(s, id) THEN row(t) ELSE node[t]]
  BY DEF Upserted, Updated, SavedBy
<1>2. ASSUME NEW c \in CodesOf(s) PROVE row(id[c]) = SheetNode(s, id, c)
  <2>1. codeAt(id[c]) = c
    BY CodeAtIs
  <2> HIDE DEF codeAt
  <2> QED BY <2>1 DEF SheetNode
<1> HIDE DEF row
<1>3. DOMAIN v = DOMAIN node \cup SavedBy(s, id) /\ v = [t \in DOMAIN v |-> v[t]]
  BY <1>1
<1>4. ASSUME NEW c \in CodesOf(s) PROVE v[id[c]] = SheetNode(s, id, c)
  <2>1. id[c] \in SavedBy(s, id)
    BY DEF SavedBy
  <2> QED BY <1>1, <1>2, <2>1
<1>5. \A t \in DOMAIN node \ SavedBy(s, id) : v[t] = node[t]
  BY <1>1
<1> QED BY <1>3, <1>4, <1>5 DEF SheetSaved, Identified

LEMMA SpansAre ==
    ASSUME NEW s \in Sheets, NEW id, Identified(s, id), NEW d, d = Spans(s, id)
    PROVE  /\ d = [t \in DOMAIN d |-> d[t]]
           /\ s.kind = "wbs" => SavedBy(s, id) \subseteq DOMAIN d
           /\ s.kind = "activities" => \A c \in Level(s, 3) : id[c] \in DOMAIN d /\ d[id[c]] = DaysFor(s, c)
<1> DEFINE activity(t) == DaysFor(s, CHOOSE c \in Level(s, 3) : id[c] = t)
           default(t) == IF \E c \in Level(s, 4) : id[c] = t THEN 1 ELSE 0
           some == {id[c] : c \in Level(s, 3)}
           more == SavedBy(s, id) \ DOMAIN days
<1>0. s.kind = "wbs" \/ s.kind = "activities"
  BY SheetRows
<1>1. CASE s.kind = "wbs"
  <2>1. d = [t \in DOMAIN days \cup more |-> IF t \in more THEN default(t) ELSE days[t]]
    BY <1>1 DEF Spans, Updated, SavedBy
  <2> HIDE DEF default
  <2> QED BY <1>1, <2>1
<1>2. CASE s.kind = "activities"
  <2>1. d = [t \in DOMAIN days \cup some |-> IF t \in some THEN activity(t) ELSE days[t]]
    BY <1>2 DEF Spans, Updated, DaysFor
  <2>2. ASSUME NEW c \in Level(s, 3) PROVE activity(id[c]) = DaysFor(s, c)
    <3>1. Level(s, 3) \in SUBSET CodesOf(s)
      BY SheetRows, LevelsHold
    <3>2. (CHOOSE x \in Level(s, 3) : id[x] = id[c]) = c
      BY <3>1, CodeAtIs
    <3> QED BY <3>2
  <2>3. \A c \in Level(s, 3) : id[c] \in some
    OBVIOUS
  <2> HIDE DEF activity, some
  <2>4. \A c \in Level(s, 3) : id[c] \in DOMAIN d /\ d[id[c]] = DaysFor(s, c)
    BY <2>1, <2>2, <2>3
  <2>5. d = [t \in DOMAIN d |-> d[t]]
    BY <2>1
  <2> QED BY <1>2, <2>4, <2>5
<1> QED BY <1>0, <1>1, <1>2

LEMMA SaveIsInPlace ==
    ASSUME NEW s \in Sheets, NEW id, Identified(s, id),
           NEW v, v = Upserted(s, id),
           NEW r, r = [c \in DOMAIN reserved \cup CodesOf(s) |-> IF c \in CodesOf(s) THEN id[c] ELSE reserved[c]],
           NEW d, d = Spans(s, id), NEW l, l = Followed(s, id)
    PROVE  InPlace(v, r, d, l, s, id)
<1>1. SheetSaved(node, v, s, id) /\ v = [t \in DOMAIN v |-> v[t]]
  BY UpsertedIs
<1>2. SheetSaved(v, v, s, id)
  <2>1. DOMAIN v = DOMAIN v \cup SavedBy(s, id)
    BY <1>1 DEF SheetSaved
  <2> QED BY <1>1, <2>1 DEF SheetSaved
<1>3. r = [c \in DOMAIN r |-> r[c]] /\ \A c \in CodesOf(s) : c \in DOMAIN r /\ r[c] = id[c]
  OBVIOUS
<1>4. s.kind = "activities" => Linked(s, id, l)
  BY DEF Followed, Linked
<1>5. /\ d = [t \in DOMAIN d |-> d[t]]
      /\ s.kind = "wbs" => SavedBy(s, id) \subseteq DOMAIN d
      /\ s.kind = "activities" => \A c \in Level(s, 3) : id[c] \in DOMAIN d /\ d[id[c]] = DaysFor(s, c)
  BY SpansAre
<1>6. id = [c \in CodesOf(s) |-> id[c]] /\ DOMAIN id = CodesOf(s)
  BY DEF Identified
<1> QED BY <1>1, <1>2, <1>3, <1>4, <1>5, <1>6, Zenon DEF InPlace

LEMMA HoldersAre ==
    ASSUME NEW s \in Sheets, NEW id, InPlace(node, reserved, days, follows, s, id), Reserved, NEW c \in CodesOf(s)
    PROVE  /\ HoldersOf(c) = {id[c]} /\ id[c] \in Nodules
           /\ node[id[c]] = SheetNode(s, id, c)
           /\ (CHOOSE t \in Nodules : t \in HoldersOf(c)) = id[c]
<1>1. SheetSaved(node, node, s, id) /\ c \in DOMAIN reserved /\ reserved[c] = id[c]
  BY DEF InPlace
<1>2. c \in Codes /\ c # NoCode
  BY CodesAreFinite, ImportAssumption
<1>3. id[c] \in Nodules /\ id[c] \in DOMAIN node /\ node[id[c]] = SheetNode(s, id, c)
  BY <1>1 DEF SheetSaved, SavedBy
<1>4. id[c] \in HoldersOf(c)
  BY <1>3 DEF HoldersOf, LiveNodes, SheetNode
<1>5. \A t \in HoldersOf(c) : t = id[c]
  BY <1>1, <1>2 DEF HoldersOf, LiveNodes, Reserved
<1>6. HoldersOf(c) = {id[c]}
  BY <1>4, <1>5
<1>7. \A t \in Nodules : t \in HoldersOf(c) <=> t = id[c]
  BY <1>6
<1>8. (CHOOSE t \in Nodules : t \in HoldersOf(c)) = id[c]
  <2>1. id[c] \in {t \in Nodules : t \in HoldersOf(c)}
    BY <1>3, <1>4
  <2> QED BY <1>3, <1>7
<1> QED BY <1>3, <1>6, <1>8

\* The reservations leave each code of the sheet one holder.
LEMMA InPlaceIsFound ==
    ASSUME NEW s \in Sheets, NEW id, InPlace(node, reserved, days, follows, s, id), Reserved
    PROVE  Found(s) = id /\ Assigned(s, Found(s)) = id
<1>1. id = [c \in CodesOf(s) |-> id[c]] /\ DOMAIN id = CodesOf(s)
  BY DEF InPlace
<1>2. \A c \in CodesOf(s) : HoldersOf(c) # {} /\ (CHOOSE t \in Nodules : t \in HoldersOf(c)) = id[c]
  BY HoldersAre
<1>3. Found(s) = [c \in CodesOf(s) |-> id[c]]
  <2> HIDE DEF HoldersOf
  <2>1. {x \in CodesOf(s) : HoldersOf(x) # {}} = CodesOf(s)
    BY <1>2
  <2>2. Found(s) = [c \in CodesOf(s) |-> CHOOSE t \in Nodules : t \in HoldersOf(c)]
    BY <2>1 DEF Found
  <2> QED BY <1>2, <2>2
<1>4. Found(s) = id
  BY <1>1, <1>3
<1>5. Assigned(s, id) = [c \in CodesOf(s) |-> id[c]]
  <2>1. CodesOf(s) \ DOMAIN id = {}
    BY <1>1
  <2> QED BY <2>1 DEF Assigned
<1> QED BY <1>1, <1>4, <1>5

LEMMA NothingToUpsert ==
    ASSUME NEW s \in Sheets, NEW id, Identified(s, id), SheetSaved(node, node, s, id), node = [t \in DOMAIN node |-> node[t]]
    PROVE  Upserted(s, id) = node
<1> DEFINE v == Upserted(s, id)
<1>1. SheetSaved(node, v, s, id) /\ v = [t \in DOMAIN v |-> v[t]]
  BY UpsertedIs
<1> HIDE DEF v
<1>2. DOMAIN v = DOMAIN node
  BY <1>1 DEF SheetSaved
<1>3. \A t \in DOMAIN node : v[t] = node[t]
  <2>1. \A c \in CodesOf(s) : v[id[c]] = node[id[c]]
    BY <1>1 DEF SheetSaved
  <2>2. \A t \in SavedBy(s, id) : v[t] = node[t]
    BY <2>1 DEF SavedBy
  <2> QED BY <1>1, <2>2 DEF SheetSaved
<1>4. v = [t \in DOMAIN node |-> node[t]]
  BY <1>1, <1>2, <1>3
<1> QED BY <1>4 DEF v

LEMMA NothingToSpan ==
    ASSUME NEW s \in Sheets, NEW id, Identified(s, id), InPlace(node, reserved, days, follows, s, id)
    PROVE  Spans(s, id) = days
<1> DEFINE d == Spans(s, id)
           some == {id[c] : c \in Level(s, 3)}
<1>0. (s.kind = "wbs" \/ s.kind = "activities") /\ days = [t \in DOMAIN days |-> days[t]]
  BY SheetRows DEF InPlace
<1>1. CASE s.kind = "wbs"
  <2>1. SavedBy(s, id) \ DOMAIN days = {}
    BY <1>1 DEF InPlace
  <2>2. {id[c] : c \in CodesOf(s)} \ DOMAIN days = {}
    BY <2>1 DEF SavedBy
  <2>3. Spans(s, id) = [t \in DOMAIN days |-> days[t]]
    BY <1>1, <2>2 DEF Spans, Updated
  <2> QED BY <1>0, <2>3
<1>2. CASE s.kind = "activities"
  <2>1. d = [t \in DOMAIN d |-> d[t]] /\ \A c \in Level(s, 3) : d[id[c]] = DaysFor(s, c)
    BY <1>2, SpansAre
  <2>2. \A c \in Level(s, 3) : id[c] \in DOMAIN days /\ days[id[c]] = DaysFor(s, c)
    BY <1>2 DEF InPlace
  <2>3. DOMAIN d = DOMAIN days \cup some /\ \A t \in DOMAIN days \ some : d[t] = days[t]
    BY <1>2 DEF Spans, Updated
  <2> HIDE DEF d
  <2>4. \A t \in some : t \in DOMAIN days /\ d[t] = days[t]
    BY <2>1, <2>2
  <2> HIDE DEF some
  <2>5. DOMAIN d = DOMAIN days /\ \A t \in DOMAIN days : d[t] = days[t]
    BY <2>3, <2>4
  <2>6. d = [t \in DOMAIN days |-> days[t]]
    BY <2>1, <2>5
  <2> QED BY <1>0, <2>6 DEF d
<1> QED BY <1>0, <1>1, <1>2

\* The next import finds the tasks of the sheet, and writes what is there.
LEMMA InPlaceIsStable ==
    ASSUME NEW s \in Sheets, NEW id, InPlace(node, reserved, days, follows, s, id), Reserved
    PROVE  ~Fails(s, Found(s)) /\ Imports(s, Found(s)) = tables
<1>1. Found(s) = id /\ Assigned(s, Found(s)) = id
  BY InPlaceIsFound
<1>2. Identified(s, id)
  BY DEF InPlace, SheetSaved, Identified
<1>3. \A c \in CodesOf(s) : c \in DOMAIN reserved /\ reserved[c] = id[c]
  BY DEF InPlace
<1>4. ~Fails(s, Found(s))
  <2>1. \A c \in CodesOf(s) : ~Taken(c, id[c])
    BY <1>3 DEF Taken
  <2>2. ASSUME s.kind = "wbs", NEW m \in 1 .. Depth(s), NEW c \in Level(s, m), id[c] \notin DOMAIN days
        PROVE  FALSE
    <3>1. c \in CodesOf(s)
      BY LevelsHold
    <3>2. id[c] \in SavedBy(s, id)
      BY <3>1 DEF SavedBy
    <3> QED BY <2>2, <3>2 DEF InPlace
  <2>3. ~(s.kind = "wbs" /\ \E m, n \in 1 .. Depth(s) : m # n /\ \E c \in Level(s, m) \cap Level(s, n) : id[c] \notin DOMAIN days)
    BY <2>2
  <2> QED BY <1>1, <2>1, <2>3 DEF Fails
<1>5. Upserted(s, id) = node
  BY <1>2, NothingToUpsert DEF InPlace
<1>6. Spans(s, id) = days
  BY <1>2, NothingToSpan
<1>7. [c \in DOMAIN reserved \cup CodesOf(s) |-> IF c \in CodesOf(s) THEN id[c] ELSE reserved[c]] = reserved
  <2>1. reserved = [c \in DOMAIN reserved |-> reserved[c]]
    BY DEF InPlace
  <2>2. DOMAIN reserved \cup CodesOf(s) = DOMAIN reserved
    BY <1>3
  <2> DEFINE r == [c \in DOMAIN reserved \cup CodesOf(s) |-> IF c \in CodesOf(s) THEN id[c] ELSE reserved[c]]
  <2>3. r = [c \in DOMAIN reserved |-> IF c \in CodesOf(s) THEN id[c] ELSE reserved[c]]
    BY <2>2
  <2>4. \A c \in DOMAIN reserved : (IF c \in CodesOf(s) THEN id[c] ELSE reserved[c]) = reserved[c]
    BY <1>3
  <2>5. r = [c \in DOMAIN reserved |-> reserved[c]]
    BY <2>3, <2>4
  <2> QED BY <2>1, <2>5
<1>8. Followed(s, id) = follows
  <2>1. s.kind = "activities" => Linked(s, id, follows)
    BY DEF InPlace
  <2> QED BY <2>1 DEF Followed, Linked
<1>9. Imports(s, id) = <<Upserted(s, id), reserved, Spans(s, id), Followed(s, id)>>
  <2>1. Assigned(s, id) = id
    BY <1>1
  <2> QED BY <1>7, <2>1 DEF Imports, Updated
<1>10. Imports(s, id) = tables
  BY <1>5, <1>6, <1>8, <1>9 DEF tables
<1> QED BY <1>1, <1>4, <1>10

LEMMA LastOfPath ==
    ASSUME NEW s \in Sheets, NEW i \in DOMAIN s.rows
    PROVE  Paths!Last(s.rows[i].path) = s.rows[i].path[Depth(s)]
<1>1. Len(s.rows[i].path) = Depth(s)
  BY SheetRows
<1> QED BY <1>1 DEF Paths!Last

LEMMA DaysAreOfTheRow ==
    ASSUME NEW s \in Sheets, SheetIsValid(s), s.kind = "activities", NEW i \in DOMAIN s.rows
    PROVE  DaysFor(s, s.rows[i].path[3]) = s.rows[i].days
<1> DEFINE j == CHOOSE j \in DOMAIN s.rows : s.rows[j].path[3] = s.rows[i].path[3]
<1>1. Depth(s) = 3
  BY SheetRows
<1>2. j \in DOMAIN s.rows /\ s.rows[j].path[3] = s.rows[i].path[3]
  OBVIOUS
<1>3. DaysFor(s, s.rows[i].path[3]) = s.rows[j].days
  BY DEF DaysFor
<1> HIDE DEF j
<1>4. Paths!Last(s.rows[i].path) = Paths!Last(s.rows[j].path)
  <2>1. Paths!Last(s.rows[i].path) = s.rows[i].path[3]
    BY <1>1, LastOfPath
  <2>2. Paths!Last(s.rows[j].path) = s.rows[j].path[3]
    BY <1>1, <1>2, LastOfPath
  <2> QED BY <1>2, <2>1, <2>2
<1>5. s.rows[i].days = s.rows[j].days
  BY <1>2, <1>4 DEF SheetIsValid
<1> QED BY <1>3, <1>5

LEMMA InPlaceMeans ==
    ASSUME lastSheet \in Sheets, SheetIsValid(lastSheet), Reserved,
           NEW id, InPlace(node, reserved, days, follows, lastSheet, id)
    PROVE  LastImportIsInPlace
<1> DEFINE s == lastSheet
           holder(c) == CHOOSE t \in Nodules : t \in HoldersOf(c)
           path(i) == s.rows[i].path
           last(i) == holder(Paths!Last(path(i)))
           above(i, n) == IF n = 1 THEN NoNode ELSE holder(path(i)[n - 1])
<1>1. ~Fails(s, Found(s)) /\ Imports(s, Found(s)) = tables
  BY InPlaceIsStable
<1>2. \A c \in CodesOf(s) : holder(c) = id[c] /\ HoldersOf(c) # {} /\ node[id[c]] = SheetNode(s, id, c)
  BY HoldersAre
<1>3. \A i \in DOMAIN s.rows, n \in 1 .. Depth(s) : path(i)[n] \in Level(s, n) /\ path(i)[n] \in CodesOf(s)
  BY LevelsHold
<1>d. Depth(s) \in {3, 4} /\ (s.kind = "activities" => Depth(s) = 3)
  BY SheetRows
<1>k. s.kind = "activities" => Linked(s, id, follows) /\ \A c \in Level(s, 3) : days[id[c]] = DaysFor(s, c)
  BY Zenon DEF InPlace
<1> HIDE DEF holder
<1>4. ASSUME WellFormed(s), NEW i \in DOMAIN s.rows, NEW n \in 1 .. Depth(s)
      PROVE  HoldersOf(path(i)[n]) # {} /\ node[holder(path(i)[n])].parent = above(i, n)
  <2> DEFINE c == path(i)[n]
  <2>1. ParentCode(s, c) = IF n = 1 THEN NoCode ELSE path(i)[n - 1]
    BY <1>4, WellFormedParents
  <2>2. c \in CodesOf(s) /\ (n # 1 => path(i)[n - 1] \in CodesOf(s))
    <3>1. n # 1 => n - 1 \in 1 .. Depth(s)
      BY <1>d
    <3> QED BY <1>3, <3>1
  <2>3. NoCode \notin CodesOf(s)
    BY CodesAreFinite, ImportAssumption
  <2>4. node[holder(c)].parent = IF ParentCode(s, c) = NoCode THEN NoNode ELSE id[ParentCode(s, c)]
    <3> HIDE DEF c
    <3>1. holder(c) = id[c] /\ node[id[c]] = SheetNode(s, id, c)
      BY <1>2, <2>2
    <3> QED BY <3>1 DEF SheetNode
  <2> QED BY <1>2, <2>1, <2>2, <2>3, <2>4
<1>5. ASSUME NEW i \in DOMAIN s.rows, s.kind = "activities"
      PROVE  /\ days[last(i)] = s.rows[i].days
             /\ s.rows[i].after # NoCode => <<last(i), holder(s.rows[i].after)>> \in follows
  <2>1. last(i) = id[path(i)[3]]
    <3>1. Paths!Last(path(i)) = path(i)[3]
      BY <1>5, <1>d, LastOfPath
    <3> QED BY <1>2, <1>3, <1>5, <1>d, <3>1
  <2>2. days[id[path(i)[3]]] = s.rows[i].days
    <3>1. path(i)[3] \in Level(s, 3)
      BY <1>3, <1>5, <1>d
    <3>2. days[id[path(i)[3]]] = DaysFor(s, path(i)[3])
      BY <1>k, <1>5, <3>1
    <3> QED BY <1>5, <3>2, DaysAreOfTheRow
  <2>3. ASSUME s.rows[i].after # NoCode
        PROVE  <<last(i), holder(s.rows[i].after)>> \in follows
    <3>1. s.rows[i].after \in Level(s, 3)
      <4>1. s.kind # "wbs"
        BY <1>5
      <4>2. s.rows[i].after \in Level(s, 3) \cup {NoCode}
        BY <4>1 DEF SheetIsValid
      <4> QED BY <2>3, <4>2
    <3>2. holder(s.rows[i].after) = id[s.rows[i].after]
      BY <1>2, <1>d, <1>5, <3>1, LevelsHold
    <3> QED BY <1>k, <1>5, <2>1, <2>3, <3>2 DEF Linked
  <2> QED BY <2>1, <2>2, <2>3
<1> QED BY <1>1, <1>4, <1>5 DEF LastImportIsInPlace, holder

-----------------------------------------------------------------------------
(***************************************************************************)
(* What imports have found is of their sheets, and live while nobody has   *)
(* saved since; and an edit that no import has come before still fits the  *)
(* tree.                                                                   *)
(***************************************************************************)
NodeRow == [code : Codes \cup {NoCode}, parent : Nodules \cup {NoNode}, gone : BOOLEAN]

Finds == UNION {[D -> Nodules] : D \in SUBSET Codes}

ImporterRow == [sheet : Sheets \cup {NoSheet}, found : Finds, fresh : BOOLEAN]

EditRow ==
    [op : {"none", "update", "delete"}, of : Nodules \cup {NoNode}, to : Nodules \cup {NoNode},
     code : Codes \cup {NoCode}, all : SUBSET Nodules]

NodesOK(w, gone) ==
    /\ DOMAIN w \subseteq Nodules /\ gone \subseteq DOMAIN w
    /\ \A t \in DOMAIN w : w[t] \in NodeRow

ImporterOK(w, m) ==
    /\ m \in ImporterRow
    /\ m.sheet # NoSheet =>
          /\ m.sheet \in Sheets /\ SheetIsValid(m.sheet) /\ FoundIn(w, m.sheet, m.found)
          /\ m.fresh => \A c \in DOMAIN m.found : m.found[c] \in LiveIn(w)

EditOK(w, p) ==
    /\ p \in EditRow
    /\ p.op = "update" => p.of \in DOMAIN w
    /\ p.op = "delete" => p.all \subseteq DOMAIN w

EditFits(w, p) ==
    /\ p.op = "update" =>
          /\ p.of \in LiveIn(w) /\ p.to \in LiveIn(w) \cup {NoNode}
          /\ p.to # w[p.of].parent => Cut(w, p.of, p.to)
    /\ p.op = "delete" =>
          /\ p.all \subseteq LiveIn(w)
          /\ \A x \in LiveIn(w) : w[x].parent \in p.all => x \in p.all

Whole(w, gone, sheets) ==
    /\ gone \cap LiveIn(w) = {} /\ Rooted(w)
    /\ (\A s \in sheets : LevelsApart(s)) => NoLoops(w)

SheetsInv ==
    /\ NodesOK(node, removed)
    /\ DOMAIN importer = Importers /\ \A i \in Importers : ImporterOK(node, importer[i])
    /\ EditOK(node, pending)
    /\ ~crossed => Whole(node, removed, imported) /\ EditFits(node, pending)

PlaceInv ==
    lastSheet # NoSheet =>
        /\ lastSheet \in Sheets /\ SheetIsValid(lastSheet)
        /\ \E id : InPlace(node, reserved, days, follows, lastSheet, id)

LEMMA IdleIsOK == \A w : ImporterOK(w, IdleImporter)
<1>1. <<>> \in Finds
  <2>1. {} \in SUBSET Codes /\ <<>> \in [{} -> Nodules]
    OBVIOUS
  <2> QED BY <2>1 DEF Finds
<1>2. IdleImporter \in ImporterRow
  BY <1>1 DEF IdleImporter, ImporterRow
<1>3. IdleImporter.sheet = NoSheet
  BY DEF IdleImporter
<1> QED BY <1>2, <1>3 DEF ImporterOK

LEMMA NoEditIsOK == \A w : EditOK(w, NoEdit) /\ EditFits(w, NoEdit)
BY DEF NoEdit, EditOK, EditFits, EditRow

\* Imports that others crossed are told nothing of what is live.
LEMMA CrossedAreOK ==
    ASSUME SheetsInv, NEW w, DOMAIN node \subseteq DOMAIN w, NEW m, m = Crossed
    PROVE  DOMAIN m = Importers /\ \A i \in Importers : ImporterOK(w, m[i])
<1>1. DOMAIN m = Importers
  BY DEF Crossed
<1>2. ASSUME NEW i \in Importers PROVE ImporterOK(w, m[i])
  <2>0. ImporterOK(node, importer[i]) /\ importer[i] \in ImporterRow
    BY DEF SheetsInv, ImporterOK
  <2>1. CASE importer[i].sheet = NoSheet
    <3>1. m[i] = importer[i]
      BY <2>1 DEF Crossed
    <3> QED BY <2>0, <2>1, <3>1 DEF ImporterOK
  <2>2. CASE importer[i].sheet # NoSheet
    <3>1. m[i] = [importer[i] EXCEPT !.fresh = FALSE]
      BY <2>2 DEF Crossed
    <3>2. /\ m[i] \in ImporterRow /\ m[i].fresh = FALSE
          /\ m[i].sheet = importer[i].sheet /\ m[i].found = importer[i].found
      BY <2>0, <3>1 DEF ImporterRow
    <3>3. FoundIn(w, m[i].sheet, m[i].found)
      BY <2>0, <2>2, <3>2 DEF ImporterOK, FoundIn
    <3> QED BY <2>0, <2>2, <3>2, <3>3 DEF ImporterOK
  <2> QED BY <2>1, <2>2
<1> QED BY <1>1, <1>2

LEMMA SheetsInvInit == ImportInit => SheetsInv /\ PlaceInv
<1> SUFFICES ASSUME ImportInit PROVE SheetsInv /\ PlaceInv
  OBVIOUS
<1>1. DOMAIN node = {} /\ LiveIn(node) = {} /\ removed = {} /\ pending = NoEdit
  BY DEF ImportInit, LiveIn
<1>2. NodesOK(node, removed) /\ Whole(node, removed, imported)
  BY <1>1 DEF NodesOK, Whole, Rooted, NoLoops
<1>3. DOMAIN importer = Importers /\ \A i \in Importers : ImporterOK(node, importer[i])
  BY IdleIsOK DEF ImportInit
<1>4. PlaceInv
  BY DEF ImportInit, PlaceInv
<1> QED BY <1>1, <1>2, <1>3, <1>4, NoEditIsOK DEF SheetsInv

\* What changes neither the tables nor the sheets.
LEMMA TablesStay ==
    ASSUME PlaceInv, UNCHANGED <<tables, lastSheet>>
    PROVE  PlaceInv'
BY DEF PlaceInv, tables

LEMMA LoadIsOK ==
    ASSUME SheetsInv, PlaceInv, NEW i \in Importers, NEW s \in Sheets, LoadSheet(i, s)
    PROVE  SheetsInv' /\ PlaceInv'
<1> DEFINE f == Found(s)
           m == [sheet |-> s, found |-> f, fresh |-> TRUE]
<1>0. DOMAIN node \subseteq Nodules
  BY DEF SheetsInv, NodesOK
<1>1. /\ importer' = [importer EXCEPT ![i] = m] /\ node' = node /\ removed' = removed /\ pending' = pending
      /\ crossed' = crossed /\ imported' = imported /\ SheetIsValid(s)
  BY DEF LoadSheet, tables
<1>2. \A c \in DOMAIN f : c \in CodesOf(s) /\ f[c] \in HoldersOf(c)
  <2> SUFFICES ASSUME NEW c \in DOMAIN f PROVE c \in CodesOf(s) /\ f[c] \in HoldersOf(c)
    OBVIOUS
  <2>1. c \in CodesOf(s) /\ HoldersOf(c) # {} /\ f[c] = CHOOSE t \in Nodules : t \in HoldersOf(c)
    BY DEF Found
  <2>2. \E t \in Nodules : t \in HoldersOf(c)
    BY <1>0, <2>1 DEF HoldersOf, LiveNodes
  <2> HIDE DEF f
  <2> QED BY <2>1, <2>2
<1>3. \A c \in DOMAIN f : f[c] \in LiveIn(node) /\ f[c] \in DOMAIN node /\ f[c] \in Nodules /\ node[f[c]].code = c
  <2> HIDE DEF f
  <2> QED BY <1>0, <1>2 DEF HoldersOf, LiveNodes, LiveIn
<1>4. f \in Finds
  <2>1. f = [c \in DOMAIN f |-> f[c]]
    BY DEF Found
  <2>2. DOMAIN f \in SUBSET Codes
    BY <1>2, CodesAreFinite
  <2> HIDE DEF f
  <2>3. f \in [DOMAIN f -> Nodules]
    BY <1>3, <2>1
  <2> QED BY <2>2, <2>3 DEF Finds
<1> HIDE DEF f
<1>5. ImporterOK(node, m)
  <2>1. m \in ImporterRow
    BY <1>4 DEF ImporterRow
  <2>2. FoundIn(node, s, f)
    BY <1>2, <1>3 DEF FoundIn
  <2> QED BY <1>1, <1>3, <2>1, <2>2 DEF ImporterOK
<1> HIDE DEF m
<1>6. DOMAIN importer' = Importers /\ \A k \in Importers : ImporterOK(node, importer'[k])
  BY <1>1, <1>5 DEF SheetsInv
<1>7. SheetsInv'
  BY <1>1, <1>6 DEF SheetsInv
<1> QED BY <1>7, TablesStay DEF LoadSheet

LEMMA AbandonIsOK ==
    ASSUME SheetsInv, PlaceInv, NEW i \in Importers, AbandonSheet(i)
    PROVE  SheetsInv' /\ PlaceInv'
<1>1. /\ importer' = [importer EXCEPT ![i] = IdleImporter] /\ node' = node /\ removed' = removed
      /\ pending' = pending /\ crossed' = crossed /\ imported' = imported
  BY DEF AbandonSheet, tables
<1>2. DOMAIN importer' = Importers /\ \A k \in Importers : ImporterOK(node, importer'[k])
  BY <1>1, IdleIsOK DEF SheetsInv
<1>3. SheetsInv'
  BY <1>1, <1>2 DEF SheetsInv
<1> QED BY <1>3, TablesStay DEF AbandonSheet

\* A fresh import saves live tasks and new ones, in a tree of its own under none.
LEMMA SaveIsOK ==
    ASSUME SheetsInv, PlaceInv, NEW i \in Importers, SaveSheet(i)
    PROVE  SheetsInv' /\ PlaceInv'
<1> DEFINE s == importer[i].sheet
           f == importer[i].found
           id == Assigned(s, f)
           saved == SavedBy(s, id)
           v == Upserted(s, id)
           m == Crossed
<1>1. /\ s \in Sheets /\ SheetIsValid(s) /\ FoundIn(node, s, f) /\ Fits(s, f)
      /\ importer[i].fresh => \A c \in DOMAIN f : f[c] \in LiveIn(node)
  BY DEF SaveSheet, SheetsInv, ImporterOK
<1>2. /\ node' = v /\ days' = Spans(s, id) /\ follows' = Followed(s, id)
      /\ reserved' = [c \in DOMAIN reserved \cup CodesOf(s) |->
                         IF c \in CodesOf(s) THEN id[c] ELSE reserved[c]]
  BY DEF SaveSheet, Imports, Updated
<1>3. /\ importer' = [m EXCEPT ![i] = IdleImporter]
      /\ crossed' = (crossed \/ ~importer[i].fresh \/ pending # NoEdit)
      /\ imported' = imported \cup {s} /\ lastSheet' = s /\ pending' = pending /\ removed' = removed
  BY DEF SaveSheet
<1>4. DOMAIN node \subseteq Nodules /\ removed \subseteq DOMAIN node /\ \A t \in DOMAIN node : node[t] \in NodeRow
  BY DEF SheetsInv, NodesOK
<1>5. /\ Identified(s, id)
      /\ \A c \in DOMAIN f : id[c] = f[c]
      /\ \A c \in CodesOf(s) \ DOMAIN f : id[c] \notin DOMAIN node
  <2> HIDE DEF s, f, id
  <2>1. id = Assigned(s, f)
    BY DEF id
  <2> QED BY <1>1, <1>4, <2>1, AssignedIs DEF Identified
<1> HIDE DEF id
<1>6. SheetSaved(node, v, s, id)
  BY <1>1, <1>5, UpsertedIs
<1>7. PlaceInv'
  <2> DEFINE r == [c \in DOMAIN reserved \cup CodesOf(s) |-> IF c \in CodesOf(s) THEN id[c] ELSE reserved[c]]
             d == Spans(s, id)
             l == Followed(s, id)
  <2>1. InPlace(v, r, d, l, s, id)
    BY <1>1, <1>5, SaveIsInPlace
  <2>2. InPlace(node', reserved', days', follows', lastSheet', id)
    <3> HIDE DEF v, r, d, l, s
    <3>1. node' = v /\ reserved' = r /\ days' = d /\ follows' = l /\ lastSheet' = s
      BY <1>2, <1>3 DEF r, d, l
    <3> QED BY <2>1, <3>1
  <2>3. lastSheet' \in Sheets /\ SheetIsValid(lastSheet')
    BY <1>1, <1>3
  <2> QED BY <2>2, <2>3 DEF PlaceInv
<1> HIDE DEF s, f, v
<1>8. \A c \in CodesOf(s) : v[id[c]].parent \in saved \cup {NoNode} /\ id[c] \in LiveIn(v)
  BY <1>1, <1>6, SheetParents
<1>9. \A t \in saved : v[t].parent \in saved \cup {NoNode} /\ t \in LiveIn(v)
  BY <1>8 DEF SavedBy
<1>10. \A t \in DOMAIN v : t \in saved \/ (t \in DOMAIN node /\ t \notin saved /\ v[t] = node[t])
  BY <1>6 DEF SheetSaved
<1>11. DOMAIN v = DOMAIN node \cup saved /\ saved \subseteq Nodules
  BY <1>6 DEF SheetSaved, SavedBy
<1>12. \A t \in saved : v[t] \in NodeRow
  <2>1. ASSUME NEW c \in CodesOf(s) PROVE v[id[c]] \in NodeRow
    <3>1. v[id[c]] = SheetNode(s, id, c) /\ c \in Codes
      BY <1>1, <1>6, CodesAreFinite DEF SheetSaved
    <3>2. v[id[c]].parent \in Nodules \cup {NoNode}
      BY <1>8, <1>11
    <3> QED BY <3>1, <3>2 DEF SheetNode, NodeRow
  <2> QED BY <2>1 DEF SavedBy
<1>13. NodesOK(v, removed)
  BY <1>4, <1>10, <1>11, <1>12 DEF NodesOK
<1>14. DOMAIN importer' = Importers /\ \A k \in Importers : ImporterOK(v, importer'[k])
  <2>1. DOMAIN m = Importers /\ \A k \in Importers : ImporterOK(v, m[k])
    BY <1>11, CrossedAreOK
  <2> HIDE DEF m
  <2> QED BY <1>3, <2>1, IdleIsOK
<1>15. EditOK(v, pending)
  BY <1>11 DEF SheetsInv, EditOK
<1>16. ASSUME ~crossed' PROVE Whole(v, removed, imported') /\ EditFits(v, pending)
  <2>1. ~crossed /\ importer[i].fresh /\ pending = NoEdit
    BY <1>3, <1>16
  <2>2. Whole(node, removed, imported)
    BY <2>1 DEF SheetsInv
  <2>3. \A t \in LiveIn(v) : t \in saved \/ (t \in LiveIn(node) /\ v[t] = node[t])
    BY <1>10 DEF LiveIn
  <2>4. LiveIn(node) \subseteq LiveIn(v)
    BY <1>9, <1>10, <1>11 DEF LiveIn
  <2>5. removed \cap LiveIn(v) = {}
    <3>1. \A c \in CodesOf(s) : id[c] \in LiveIn(node) \/ id[c] \notin DOMAIN node
      BY <1>1, <1>5, <2>1
    <3>2. \A t \in saved : t \in LiveIn(node) \/ t \notin DOMAIN node
      BY <3>1 DEF SavedBy
    <3> QED BY <1>4, <2>2, <2>3, <3>2 DEF Whole
  <2>6. Rooted(v)
    BY <1>9, <2>2, <2>3, <2>4 DEF Rooted, Whole
  <2>7. ASSUME \A x \in imported' : LevelsApart(x) PROVE NoLoops(v)
    <3>1. LevelsApart(s) /\ NoLoops(node)
      BY <1>3, <2>2, <2>7 DEF Whole
    <3> QED BY <1>1, <1>4, <1>6, <3>1, SheetHasNoLoops
  <2> QED BY <2>1, <2>5, <2>6, <2>7, NoEditIsOK DEF Whole
<1>17. SheetsInv'
  <2>1. node' = v /\ removed' = removed /\ pending' = pending
    BY <1>2, <1>3
  <2> QED BY <1>13, <1>14, <1>15, <1>16, <2>1 DEF SheetsInv
<1> QED BY <1>7, <1>17

LEMMA CreateIsOK ==
    ASSUME SheetsInv, NEW t \in Nodules, NEW parent \in Nodules \cup {NoNode}, NEW c \in Codes \cup {NoCode},
           CreateCoded(t, parent, c)
    PROVE  SheetsInv' /\ PlaceInv'
<1> DEFINE row == [code |-> c, parent |-> parent, gone |-> FALSE]
<1>1. /\ t \notin DOMAIN node /\ parent \in LiveIn(node) \cup {NoNode} /\ pending = NoEdit
      /\ importer' = Crossed /\ lastSheet' = NoSheet /\ pending' = pending /\ removed' = removed
      /\ crossed' = crossed /\ imported' = imported
  <2>1. LiveNodes = LiveIn(node)
    BY DEF LiveNodes, LiveIn
  <2>2. t \notin DOMAIN node /\ parent \in LiveNodes \cup {NoNode} /\ pending = NoEdit
    BY DEF CreateCoded, FreshNode, Updated
  <2>3. Edited /\ pending' = pending /\ removed' = removed
    BY DEF CreateCoded, Updated
  <2> QED BY <2>1, <2>2, <2>3 DEF Edited
<1>2. node' = [u \in DOMAIN node \cup {t} |-> IF u \in {t} THEN row ELSE node[u]]
  BY DEF CreateCoded, Updated
<1>3. DOMAIN node' = DOMAIN node \cup {t} /\ node'[t] = row /\ \A u \in DOMAIN node : node'[u] = node[u]
  BY <1>1, <1>2
<1>4. DOMAIN node \subseteq Nodules /\ removed \subseteq DOMAIN node /\ \A u \in DOMAIN node : node[u] \in NodeRow
  BY DEF SheetsInv, NodesOK
<1>5. row \in NodeRow /\ row.parent = parent /\ row.gone = FALSE
  BY DEF NodeRow
<1> HIDE DEF row
<1>6. NodesOK(node', removed)
  BY <1>3, <1>4, <1>5 DEF NodesOK
<1>7. DOMAIN importer' = Importers /\ \A k \in Importers : ImporterOK(node', importer'[k])
  <2>1. DOMAIN node \subseteq DOMAIN node'
    BY <1>3
  <2> DEFINE m == Crossed
  <2>2. DOMAIN m = Importers /\ \A k \in Importers : ImporterOK(node', m[k])
    BY <2>1, CrossedAreOK
  <2> HIDE DEF m
  <2>3. importer' = m
    BY <1>1 DEF m
  <2> QED BY <2>2, <2>3
<1>8. ASSUME ~crossed PROVE Whole(node', removed, imported)
  <2>1. Whole(node, removed, imported)
    BY <1>8 DEF SheetsInv
  <2>2. LiveIn(node') = LiveIn(node) \cup {t} /\ t \notin LiveIn(node)
    BY <1>1, <1>3, <1>5 DEF LiveIn
  <2>3. \A u \in LiveIn(node) : node'[u] = node[u]
    BY <1>3 DEF LiveIn
  <2>4. Rooted(node')
    BY <1>1, <1>3, <1>5, <2>1, <2>2, <2>3 DEF Whole, Rooted
  <2>5. ASSUME NoLoops(node) PROVE NoLoops(node')
    <3>1. Rooted(node) /\ node'[t].parent \in LiveIn(node) \cup {NoNode}
      BY <1>1, <1>3, <1>5, <2>1 DEF Whole
    <3> QED BY <1>1, <1>3, <1>4, <2>5, <3>1, LeafHasNoLoops
  <2>6. removed \cap LiveIn(node') = {}
    BY <1>1, <1>4, <2>1, <2>2 DEF Whole
  <2> QED BY <2>1, <2>4, <2>5, <2>6 DEF Whole
<1>9. SheetsInv'
  BY <1>1, <1>6, <1>7, <1>8, NoEditIsOK DEF SheetsInv
<1>10. PlaceInv'
  BY <1>1 DEF PlaceInv
<1> QED BY <1>9, <1>10

LEMMA BeginUpdateIsOK ==
    ASSUME SheetsInv, PlaceInv, NEW t \in Nodules, NEW parent \in Nodules \cup {NoNode},
           NEW c \in Codes \cup {NoCode}, BeginUpdate(t, parent, c)
    PROVE  SheetsInv' /\ PlaceInv'
<1> DEFINE p == [op |-> "update", of |-> t, to |-> parent, code |-> c, all |-> {t}]
<1>1. /\ t \in LiveNodes /\ parent \in LiveNodes \cup {NoNode}
      /\ parent # node[t].parent => parent \notin Below(t)
      /\ pending' = p /\ node' = node /\ removed' = removed /\ importer' = importer
      /\ crossed' = crossed /\ imported' = imported /\ UNCHANGED <<tables, lastSheet>>
  BY DEF BeginUpdate, tables
<1>2. LiveNodes = LiveIn(node) /\ t \in DOMAIN node /\ DOMAIN node \subseteq Nodules
  BY <1>1 DEF LiveNodes, LiveIn, SheetsInv, NodesOK
<1>3. p \in EditRow /\ p.op = "update" /\ p.of = t /\ p.to = parent
  BY DEF EditRow
<1> HIDE DEF p
<1>4. EditOK(node, p)
  BY <1>2, <1>3 DEF EditOK
<1>5. EditFits(node, p)
  <2>1. parent # node[t].parent => Cut(node, t, parent)
    BY <1>1, <1>2, BelowIs
  <2> QED BY <1>1, <1>2, <1>3, <2>1 DEF EditFits
<1>6. SheetsInv'
  BY <1>1, <1>4, <1>5 DEF SheetsInv
<1> QED BY <1>1, <1>6, TablesStay

LEMMA BeginDeleteIsOK ==
    ASSUME SheetsInv, PlaceInv, NEW t \in Nodules, BeginDelete(t)
    PROVE  SheetsInv' /\ PlaceInv'
<1> DEFINE p == [op |-> "delete", of |-> t, to |-> NoNode, code |-> NoCode, all |-> Below(t)]
<1>1. /\ t \in LiveNodes /\ pending' = p /\ node' = node /\ removed' = removed /\ importer' = importer
      /\ crossed' = crossed /\ imported' = imported /\ UNCHANGED <<tables, lastSheet>>
  BY DEF BeginDelete, tables
<1>2. LiveNodes = LiveIn(node) /\ LiveNodes \subseteq DOMAIN node /\ DOMAIN node \subseteq Nodules
  BY DEF LiveNodes, LiveIn, SheetsInv, NodesOK
<1>3. Below(t) \subseteq LiveNodes /\ \A x \in LiveNodes : node[x].parent \in Below(t) => x \in Below(t)
  BY <1>1, <1>2, BelowIs
<1>4. p \in EditRow /\ p.op = "delete" /\ p.all = Below(t)
  BY <1>2, <1>3 DEF EditRow
<1> HIDE DEF p
<1>5. EditOK(node, p) /\ EditFits(node, p)
  BY <1>2, <1>3, <1>4 DEF EditOK, EditFits
<1>6. SheetsInv'
  BY <1>1, <1>5 DEF SheetsInv
<1> QED BY <1>1, <1>6, TablesStay

LEMMA AbandonUpdateIsOK ==
    ASSUME SheetsInv, PlaceInv, AbandonUpdate
    PROVE  SheetsInv' /\ PlaceInv'
<1>1. /\ pending' = NoEdit /\ node' = node /\ removed' = removed /\ importer' = importer
      /\ crossed' = crossed /\ imported' = imported /\ UNCHANGED <<tables, lastSheet>>
  BY DEF AbandonUpdate, tables
<1>2. SheetsInv'
  BY <1>1, NoEditIsOK DEF SheetsInv
<1> QED BY <1>1, <1>2, TablesStay

LEMMA FinishUpdateIsOK ==
    ASSUME SheetsInv, FinishUpdate
    PROVE  SheetsInv' /\ PlaceInv'
<1> DEFINE t == pending.of
           q == pending.to
           c == pending.code
<1>1. /\ pending.op = "update" /\ pending' = NoEdit /\ importer' = Crossed /\ lastSheet' = NoSheet
      /\ removed' = removed /\ crossed' = crossed /\ imported' = imported
  BY DEF FinishUpdate, Edited
<1>2. node' = [node EXCEPT ![t].parent = q, ![t].code = c]
  BY DEF FinishUpdate
<1>3. DOMAIN node \subseteq Nodules /\ removed \subseteq DOMAIN node /\ \A u \in DOMAIN node : node[u] \in NodeRow
  BY DEF SheetsInv, NodesOK
<1>4. t \in DOMAIN node /\ q \in Nodules \cup {NoNode} /\ c \in Codes \cup {NoCode}
  BY <1>1 DEF SheetsInv, EditOK, EditRow
<1> HIDE DEF t, q, c
<1>5. /\ DOMAIN node' = DOMAIN node /\ \A u \in DOMAIN node : u # t => node'[u] = node[u]
      /\ node'[t].parent = q /\ node'[t].gone = node[t].gone /\ node'[t] \in NodeRow
  <2>1. DOMAIN node' = DOMAIN node /\ \A u \in DOMAIN node : u # t => node'[u] = node[u]
    BY <1>2
  <2>2. node[t] \in NodeRow
    BY <1>3, <1>4
  <2>3. node'[t] = [[node[t] EXCEPT !.parent = q] EXCEPT !.code = c]
    BY <1>2, <1>4
  <2> QED BY <1>4, <2>1, <2>2, <2>3 DEF NodeRow
<1>6. NodesOK(node', removed)
  <2>1. \A u \in DOMAIN node' : node'[u] \in NodeRow
    BY <1>3, <1>5
  <2> QED BY <1>3, <1>5, <2>1 DEF NodesOK
<1>7. DOMAIN importer' = Importers /\ \A k \in Importers : ImporterOK(node', importer'[k])
  <2>1. DOMAIN node \subseteq DOMAIN node'
    BY <1>5
  <2> DEFINE m == Crossed
  <2>2. DOMAIN m = Importers /\ \A k \in Importers : ImporterOK(node', m[k])
    BY <2>1, CrossedAreOK
  <2> HIDE DEF m
  <2>3. importer' = m
    BY <1>1 DEF m
  <2> QED BY <2>2, <2>3
<1>8. ASSUME ~crossed PROVE Whole(node', removed, imported)
  <2>1. Whole(node, removed, imported) /\ EditFits(node, pending)
    BY <1>8 DEF SheetsInv
  <2>2. LiveIn(node') = LiveIn(node)
    BY <1>5 DEF LiveIn
  <2>3. t \in LiveIn(node) /\ q \in LiveIn(node) \cup {NoNode} /\ (q # node[t].parent => Cut(node, t, q))
    BY <1>1, <2>1 DEF EditFits, t, q
  <2>4. \A u \in LiveIn(node) : u # t => node'[u] = node[u]
    BY <1>5 DEF LiveIn
  <2>5. Rooted(node')
    BY <1>5, <2>1, <2>2, <2>3, <2>4 DEF Whole, Rooted
  <2>6. ASSUME NoLoops(node) PROVE NoLoops(node')
    <3>1. Cut(node, t, node'[t].parent)
      BY <1>5, <2>3, <2>6 DEF NoLoops
    <3>2. \A u \in LiveIn(node) : u # t => node'[u].parent = node[u].parent
      BY <2>4
    <3> QED BY <1>3, <2>2, <2>3, <2>6, <3>1, <3>2, MoveHasNoLoops
  <2> QED BY <2>1, <2>2, <2>5, <2>6 DEF Whole
<1>9. SheetsInv'
  BY <1>1, <1>6, <1>7, <1>8, NoEditIsOK DEF SheetsInv
<1>10. PlaceInv'
  BY <1>1 DEF PlaceInv
<1> QED BY <1>9, <1>10

LEMMA FinishDeleteIsOK ==
    ASSUME SheetsInv, FinishDelete
    PROVE  SheetsInv' /\ PlaceInv'
<1> DEFINE all == pending.all
<1>1. /\ pending.op = "delete" /\ pending' = NoEdit /\ importer' = Crossed /\ lastSheet' = NoSheet
      /\ removed' = removed \cup all /\ crossed' = crossed /\ imported' = imported
  BY DEF FinishDelete, Edited
<1>2. node' = [t \in DOMAIN node |-> IF t \in all THEN [node[t] EXCEPT !.gone = TRUE] ELSE node[t]]
  BY DEF FinishDelete
<1>3. DOMAIN node \subseteq Nodules /\ removed \subseteq DOMAIN node /\ \A u \in DOMAIN node : node[u] \in NodeRow
  BY DEF SheetsInv, NodesOK
<1>4. all \subseteq DOMAIN node
  BY <1>1 DEF SheetsInv, EditOK
<1> HIDE DEF all
<1>5. /\ DOMAIN node' = DOMAIN node
      /\ \A u \in DOMAIN node : u \notin all => node'[u] = node[u]
      /\ \A u \in all : node'[u].gone = TRUE /\ node'[u] \in NodeRow
  <2>1. ASSUME NEW u \in all PROVE node'[u].gone = TRUE /\ node'[u] \in NodeRow
    <3>1. node[u] \in NodeRow /\ node'[u] = [node[u] EXCEPT !.gone = TRUE]
      BY <1>2, <1>3, <1>4
    <3> QED BY <3>1 DEF NodeRow
  <2> QED BY <1>2, <2>1
<1>6. NodesOK(node', removed \cup all)
  BY <1>3, <1>4, <1>5 DEF NodesOK
<1>7. DOMAIN importer' = Importers /\ \A k \in Importers : ImporterOK(node', importer'[k])
  <2>1. DOMAIN node \subseteq DOMAIN node'
    BY <1>5
  <2> DEFINE m == Crossed
  <2>2. DOMAIN m = Importers /\ \A k \in Importers : ImporterOK(node', m[k])
    BY <2>1, CrossedAreOK
  <2> HIDE DEF m
  <2>3. importer' = m
    BY <1>1 DEF m
  <2> QED BY <2>2, <2>3
<1>8. ASSUME ~crossed PROVE Whole(node', removed \cup all, imported)
  <2>1. Whole(node, removed, imported) /\ EditFits(node, pending)
    BY <1>8 DEF SheetsInv
  <2>2. LiveIn(node') = LiveIn(node) \ all
    BY <1>4, <1>5 DEF LiveIn
  <2>3. \A x \in LiveIn(node) : node[x].parent \in all => x \in all
    BY <1>1, <2>1 DEF EditFits, all
  <2>4. \A u \in LiveIn(node') : u \in LiveIn(node) /\ u \notin all /\ node'[u] = node[u]
    BY <1>5, <2>2 DEF LiveIn
  <2>5. Rooted(node')
    BY <2>1, <2>2, <2>3, <2>4 DEF Whole, Rooted
  <2>6. ASSUME NoLoops(node) PROVE NoLoops(node')
    <3>1. LiveIn(node') \subseteq LiveIn(node) /\ \A u \in LiveIn(node') : node'[u].parent = node[u].parent
      BY <2>4
    <3> QED BY <2>6, <3>1, FewerHaveNoLoops
  <2>7. (removed \cup all) \cap LiveIn(node') = {}
    BY <2>1, <2>2 DEF Whole
  <2> QED BY <2>1, <2>5, <2>6, <2>7 DEF Whole
<1>9. SheetsInv'
  BY <1>1, <1>6, <1>7, <1>8, NoEditIsOK DEF SheetsInv
<1>10. PlaceInv'
  BY <1>1 DEF PlaceInv
<1> QED BY <1>9, <1>10

LEMMA SheetsInvNext == SheetsInv /\ PlaceInv /\ [ImportNext]_importVars => SheetsInv' /\ PlaceInv'
<1> SUFFICES ASSUME SheetsInv, PlaceInv, [ImportNext]_importVars PROVE SheetsInv' /\ PlaceInv'
  OBVIOUS
<1>1. ASSUME NEW i \in Importers, NEW s \in Sheets, LoadSheet(i, s) PROVE SheetsInv' /\ PlaceInv'
  BY <1>1, LoadIsOK
<1>2. ASSUME NEW i \in Importers, SaveSheet(i) PROVE SheetsInv' /\ PlaceInv'
  BY <1>2, SaveIsOK
<1>3. ASSUME NEW i \in Importers, AbandonSheet(i) PROVE SheetsInv' /\ PlaceInv'
  BY <1>3, AbandonIsOK
<1>4. ASSUME NEW t \in Nodules, NEW parent \in Nodules \cup {NoNode}, NEW c \in Codes \cup {NoCode},
             CreateCoded(t, parent, c)
      PROVE  SheetsInv' /\ PlaceInv'
  BY <1>4, CreateIsOK
<1>5. ASSUME NEW t \in Nodules, NEW parent \in Nodules \cup {NoNode}, NEW c \in Codes \cup {NoCode},
             BeginUpdate(t, parent, c)
      PROVE  SheetsInv' /\ PlaceInv'
  BY <1>5, BeginUpdateIsOK
<1>6. ASSUME NEW t \in Nodules, BeginDelete(t) PROVE SheetsInv' /\ PlaceInv'
  BY <1>6, BeginDeleteIsOK
<1>7. CASE FinishUpdate
  BY <1>7, FinishUpdateIsOK
<1>8. CASE AbandonUpdate
  BY <1>8, AbandonUpdateIsOK
<1>9. CASE FinishDelete
  BY <1>9, FinishDeleteIsOK
<1>10. CASE UNCHANGED importVars
  BY <1>10 DEF importVars, tables, SheetsInv, PlaceInv
<1> QED BY <1>1, <1>2, <1>3, <1>4, <1>5, <1>6, <1>7, <1>8, <1>9, <1>10 DEF ImportNext

\* What is cut from a task is not below it.
LEMMA WholeTrees == SheetsInv => TreeStaysWhole
<1> SUFFICES ASSUME SheetsInv, ~crossed
             PROVE  /\ removed \cap LiveNodes = {}
                    /\ \A t \in LiveNodes : node[t].parent \in LiveNodes \cup {NoNode}
                    /\ (\A s \in imported : LevelsApart(s)) => \A t \in LiveNodes : node[t].parent \notin Below(t)
  BY DEF TreeStaysWhole
<1>1. Whole(node, removed, imported) /\ DOMAIN node \subseteq Nodules
  BY DEF SheetsInv, NodesOK
<1>2. LiveNodes = LiveIn(node)
  BY DEF LiveNodes, LiveIn
<1>3. ASSUME \A s \in imported : LevelsApart(s), NEW t \in LiveNodes PROVE node[t].parent \notin Below(t)
  <2>1. Cut(node, t, node[t].parent)
    BY <1>1, <1>2, <1>3 DEF Whole, NoLoops
  <2> QED BY <1>1, <2>1, BelowIs
<1> QED BY <1>1, <1>2, <1>3 DEF Whole, Rooted

(***************************************************************************)
(* "Permanent once assigned", whatever sheets are imported at one time and *)
(* whatever users do meanwhile; a tree of tasks that live, as long as no   *)
(* import is crossed; and every row of the last sheet where its codes say, *)
(* so that to import it again changes nothing                              *)
(* (activity-schedule-import.service.ts, task-wbs.service.ts).             *)
(***************************************************************************)
THEOREM ImportsAreAlwaysFaithful == ImportSpec => []ImportsAreFaithful
<1>1. Reserved /\ SheetsInv /\ PlaceInv => ImportsAreFaithful
  <2> SUFFICES ASSUME Reserved, SheetsInv, PlaceInv PROVE ImportsAreFaithful
    OBVIOUS
  <2>1. CodesArePermanent
    BY DEF Reserved, CodesArePermanent
  <2>2. LastImportIsInPlace
    <3>1. CASE lastSheet = NoSheet
      BY <3>1 DEF LastImportIsInPlace
    <3>2. CASE lastSheet # NoSheet
      <4>1. lastSheet \in Sheets /\ SheetIsValid(lastSheet)
        BY <3>2 DEF PlaceInv
      <4>2. PICK id : InPlace(node, reserved, days, follows, lastSheet, id)
        BY <3>2 DEF PlaceInv
      <4> QED BY <4>1, <4>2, InPlaceMeans
    <3> QED BY <3>1, <3>2
  <2> QED BY <2>1, <2>2, WholeTrees DEF ImportsAreFaithful
<1> QED BY <1>1, ReservedInit, ReservedNext, SheetsInvInit, SheetsInvNext, PTL DEF ImportSpec

-----------------------------------------------------------------------------
(***************************************************************************)
(* Reads.  The tasks of a project are trees: of any set of live tasks, one *)
(* has its parent outside.  That gives a task one generation more than its *)
(* parent, and says what a traversal by levels finds without following it: *)
(* the tasks below the root with all between them and the root among the   *)
(* rows that are asked for, level n those n generations below.             *)
(***************************************************************************)
\* The first n rows are n or all of them.
LEMMA FirstIs ==
    ASSUME NEW jobs \in SUBSET Nat, IsFiniteSet(jobs), NEW n \in Nat
    PROVE  /\ First(n, jobs) \subseteq jobs
           /\ Cardinality(First(n, jobs)) \in Nat /\ Cardinality(First(n, jobs)) <= n
           /\ Cardinality(First(n, jobs)) < n => First(n, jobs) = jobs
<1> DEFINE R == {p \in jobs \X jobs : p[1] < p[2]}
           D == {c \in jobs : PlaceOf(R, jobs, c) < n}
<1>1. StrictOrder(R, jobs)
  BY NumbersAreOrdered
<1>2. \A c \in jobs : BeforeIt(R, jobs, c) = {i \in jobs : i < c}
  BY DEF BeforeIt
<1>3. First(n, jobs) = D
  BY <1>2 DEF First, PlaceOf
<1>4. \A c \in jobs : PlaceOf(R, jobs, c) \in Nat /\ PlaceOf(R, jobs, c) < Cardinality(jobs)
  <2> HIDE DEF R
  <2> QED BY <1>1, PlacesAreOrdered
<1>5. Cardinality(jobs) \in Nat
  BY FS_CardinalityType
<1>6. CASE n <= Cardinality(jobs)
  <2>1. Cardinality(D) = n
    <3> HIDE DEF R
    <3> QED BY <1>1, <1>6, PlacesAreCounted
  <2> HIDE DEF R, D
  <2>2. D \subseteq jobs
    BY DEF D
  <2> QED BY <1>3, <2>1, <2>2
<1>7. CASE Cardinality(jobs) < n
  <2> HIDE DEF R
  <2>1. \A c \in jobs : PlaceOf(R, jobs, c) < n
    BY <1>4, <1>5, <1>7
  <2>2. D = jobs
    BY <2>1
  <2> HIDE DEF D
  <2> QED BY <1>3, <1>5, <1>7, <2>2
<1> QED BY <1>5, <1>6, <1>7

RoundsOf(V, v, step, N, f) ==
    f \in [0 .. N -> V] /\ f[0] = v /\ \A n \in 1 .. N : f[n] = step[f[n - 1]]

\* Rounds that each follow from the one before.
LEMMA RoundsExist ==
    ASSUME NEW V, NEW v \in V, NEW step \in [V -> V], NEW N \in Nat
    PROVE  \E f : RoundsOf(V, v, step, N, f)
<1> DEFINE Goes(f, n) == f \in [0 .. n -> V] /\ f[0] = v /\ \A k \in 1 .. n : f[k] = step[f[k - 1]]
           B == {n \in 1 .. N : ~\E f : Goes(f, n)}
<1>1. \E f : Goes(f, 0)
  <2>1. Goes([n \in 0 .. 0 |-> v], 0)
    OBVIOUS
  <2> QED BY <2>1
<1>2. ASSUME NEW n \in 1 .. N, NEW f, Goes(f, n - 1) PROVE \E g : Goes(g, n)
  <2> DEFINE g == [k \in 0 .. n |-> IF k = n THEN step[f[n - 1]] ELSE f[k]]
  <2>1. f[n - 1] \in V
    BY <1>2
  <2>2. g \in [0 .. n -> V]
    BY <1>2, <2>1
  <2>3. g[0] = v
    BY <1>2
  <2>4. ASSUME NEW k \in 1 .. n PROVE g[k] = step[g[k - 1]]
    <3>1. g[k - 1] = f[k - 1]
      OBVIOUS
    <3>2. CASE k = n
      BY <3>1, <3>2
    <3>3. CASE k # n
      <4>1. k \in 1 .. (n - 1) /\ g[k] = f[k]
        BY <3>3
      <4> QED BY <1>2, <3>1, <4>1
    <3> QED BY <3>2, <3>3
  <2> HIDE DEF g
  <2>5. Goes(g, n)
    BY <2>2, <2>3, <2>4
  <2> HIDE DEF Goes
  <2> QED BY <2>5
<1> HIDE DEF Goes
<1>3. B = {}
  <2> SUFFICES ASSUME B # {} PROVE FALSE
    OBVIOUS
  <2>1. PICK n \in B : \A k \in B : n <= k
    <3>1. B \in SUBSET (1 .. N)
      OBVIOUS
    <3> HIDE DEF B
    <3> QED BY <3>1, LeastOfNumbers
  <2>2. n \in 1 .. N /\ ~\E f : Goes(f, n)
    OBVIOUS
  <2>3. \E f : Goes(f, n - 1)
    <3>1. CASE n = 1
      BY <1>1, <3>1
    <3>2. CASE n # 1
      <4>1. n - 1 \in 1 .. N /\ n - 1 < n
        BY <2>2, <3>2
      <4>2. n - 1 \notin B
        <5> HIDE DEF B
        <5> QED BY <2>1, <2>2, <4>1
      <4> QED BY <4>1, <4>2
    <3> QED BY <3>1, <3>2
  <2> QED BY <1>2, <2>2, <2>3
<1>4. PICK f : Goes(f, N)
  <2>1. N = 0 \/ N \in 1 .. N
    OBVIOUS
  <2> QED BY <1>1, <1>3, <2>1
<1> QED BY <1>4 DEF Goes, RoundsOf

\* And lead to what holds of the first and from one to the next.
LEMMA RoundsKeep ==
    ASSUME NEW N \in Nat, NEW S, 0 \in S, \A n \in 0 .. N : n \in S /\ n < N => n + 1 \in S
    PROVE  0 .. N \subseteq S
<1> DEFINE B == {n \in 1 .. N : n \notin S}
<1>1. B = {}
  <2> SUFFICES ASSUME B # {} PROVE FALSE
    OBVIOUS
  <2>1. PICK n \in B : \A k \in B : n <= k
    <3>1. B \in SUBSET (1 .. N)
      OBVIOUS
    <3> HIDE DEF B
    <3> QED BY <3>1, LeastOfNumbers
  <2>2. n \in 1 .. N /\ n \notin S
    OBVIOUS
  <2>3. n - 1 \in S
    <3>1. CASE n = 1
      BY <3>1
    <3>2. CASE n # 1
      <4>1. n - 1 \in 1 .. N /\ n - 1 < n
        BY <2>2, <3>2
      <4>2. n - 1 \notin B
        <5> HIDE DEF B
        <5> QED BY <2>1, <2>2, <4>1
      <4> QED BY <4>1, <4>2
    <3> QED BY <3>1, <3>2
  <2>4. n - 1 \in 0 .. N /\ n - 1 < N /\ (n - 1) + 1 = n
    BY <2>2
  <2> QED BY <2>2, <2>3, <2>4
<1> QED BY <1>1

-----------------------------------------------------------------------------
(***************************************************************************)
(* The trees of a project, and generations.                                *)
(***************************************************************************)
LiveOf(w) == {j \in DOMAIN w : ~w[j].gone}

\* A live task is at the top or has a live parent, and of some tasks one has
\* its parent outside.
TreeIn(w) ==
    /\ \A j \in LiveOf(w) : w[j].parent \in LiveOf(w) \cup {NoOne}
    /\ \A S \in SUBSET LiveOf(w) : S # {} => \E j \in S : w[j].parent \notin S

JobsAreTrees == JobsAreKnown /\ TreeIn(job)

LEMMA TreesAre ==
    ASSUME JobsAreTrees
    PROVE  /\ JobsAreKnown /\ LiveJobs \subseteq Jobs /\ NoOne \notin LiveJobs
           /\ \A j \in LiveJobs : job[j].parent \in LiveJobs \cup {NoOne}
           /\ \A S \in SUBSET LiveJobs : S # {} => \E j \in S : job[j].parent \notin S
<1>1. LiveOf(job) = LiveJobs
  BY DEF LiveOf, LiveJobs
<1>2. LiveJobs \subseteq Jobs /\ NoOne \notin Jobs
  BY LiveAreJobs, AccessAssumption DEF JobsAreTrees
<1> QED BY <1>1, <1>2 DEF JobsAreTrees, TreeIn

LEMMA AncestorsAre ==
    ASSUME JobsAreKnown, NEW j \in LiveJobs, NEW p, p = job[j].parent
    PROVE  /\ j \in Ancestors(j) /\ Ancestors(j) \subseteq LiveJobs
           /\ p \in LiveJobs => Ancestors(j) = {j} \cup Ancestors(p)
           /\ p \notin LiveJobs => Ancestors(j) = {j}
           /\ \A x \in Ancestors(j) : job[x].parent \in LiveJobs => job[x].parent \in Ancestors(j)
<1>1. j \in Jobs /\ LiveJobs \in SUBSET Jobs
  BY LiveAreJobs
<1>2. Ancestors(j) = Upward({}, {j})
  BY QueryFindsAbove
<1>3. j \in Upward({}, {j})
  BY <1>1 DEF Upward
<1>4. Upward({}, {j}) \subseteq LiveJobs
  <2>1. {j} \subseteq LiveJobs /\ Joined({}, LiveJobs)
    BY DEF Joined
  <2> QED BY <1>1, <2>1 DEF Upward
<1>5. ASSUME p \in LiveJobs PROVE Upward({}, {j}) = {j} \cup Ancestors(p)
  <2>1. p \in LiveJobs \ {}
    BY <1>5
  <2>2. Upward({}, {j}) = {j} \cup Upward({} \cup {p}, {p})
    BY <1>1, <2>1, AboveGoesOn
  <2>3. {} \cup {p} = {p}
    OBVIOUS
  <2>4. Upward({p}, {p}) = Upward({}, {p})
    BY SeenIsHeld
  <2>5. Ancestors(p) = Upward({}, {p})
    BY <1>5, QueryFindsAbove
  <2> QED BY <2>2, <2>3, <2>4, <2>5
<1>6. ASSUME p \notin LiveJobs PROVE Upward({}, {j}) = {j}
  <2>1. p \notin LiveJobs \ {}
    BY <1>6
  <2> QED BY <1>1, <2>1, AboveGoesOn
<1>7. ASSUME NEW x \in Upward({}, {j}), job[x].parent \in LiveJobs
      PROVE  job[x].parent \in Upward({}, {j})
  BY <1>1, <1>7 DEF Upward, Joined
<1> QED BY <1>2, <1>3, <1>4, <1>5, <1>6, <1>7

\* A task is not above its parent.
LEMMA ParentIsNotBelow ==
    ASSUME JobsAreTrees, NEW j \in LiveJobs, NEW p \in LiveJobs, p = job[j].parent
    PROVE  j \notin Ancestors(p)
<1> SUFFICES ASSUME j \in Ancestors(p) PROVE FALSE
  OBVIOUS
<1>1. JobsAreKnown
  BY TreesAre
<1> DEFINE S == {x \in Ancestors(p) : j \in Ancestors(x)}
<1>2. p \in S
  BY <1>1, AncestorsAre
<1>3. S \in SUBSET LiveJobs
  BY <1>1, AncestorsAre
<1>4. ASSUME NEW x \in S PROVE job[x].parent \in S
  <2>1. x \in LiveJobs /\ x \in Ancestors(p) /\ j \in Ancestors(x)
    BY <1>3
  <2>2. CASE x = j
    BY <1>2, <2>2
  <2>3. CASE x # j
    <3>1. job[x].parent \in LiveJobs
      BY <1>1, <2>1, <2>3, AncestorsAre
    <3>2. j \in Ancestors(job[x].parent)
      BY <1>1, <2>1, <2>3, <3>1, AncestorsAre
    <3>3. job[x].parent \in Ancestors(p)
      BY <1>1, <2>1, <3>1, AncestorsAre
    <3> QED BY <3>2, <3>3
  <2> QED BY <2>2, <2>3
<1> HIDE DEF S
<1> QED BY <1>2, <1>3, <1>4, TreesAre

LEMMA GenerationsAre ==
    ASSUME JobsAreTrees, NEW j \in LiveJobs, NEW p, p = job[j].parent
    PROVE  /\ IsFiniteSet(Ancestors(j)) /\ Generation(j) \in Nat
           /\ p \in LiveJobs => Generation(p) \in Nat /\ Generation(j) = Generation(p) + 1
<1>1. JobsAreKnown /\ LiveJobs \subseteq Jobs
  BY TreesAre
<1>2. \A x \in LiveJobs : IsFiniteSet(Ancestors(x)) /\ Generation(x) \in Nat
  <2> SUFFICES ASSUME NEW x \in LiveJobs PROVE IsFiniteSet(Ancestors(x)) /\ Generation(x) \in Nat
    OBVIOUS
  <2>1. Ancestors(x) \subseteq Jobs /\ IsFiniteSet(Jobs)
    BY <1>1, AncestorsAre, AccessAssumption
  <2>2. IsFiniteSet(Ancestors(x))
    BY <2>1, FS_Subset
  <2> QED BY <2>2, FS_CardinalityType DEF Generation
<1>3. ASSUME p \in LiveJobs PROVE Generation(j) = Generation(p) + 1
  <2>1. Ancestors(j) = Ancestors(p) \cup {j}
    BY <1>1, <1>3, AncestorsAre
  <2>2. j \notin Ancestors(p)
    BY <1>3, ParentIsNotBelow
  <2>3. IsFiniteSet(Ancestors(p))
    BY <1>2, <1>3
  <2>4. Cardinality(Ancestors(p) \cup {j}) = Cardinality(Ancestors(p)) + 1
    BY <2>2, <2>3, FS_AddElement
  <2> QED BY <2>1, <2>4 DEF Generation
<1> QED BY <1>2, <1>3

\* The tasks that a traversal from r reaches: those between are among the rows.
Under(rows, r) ==
    {d \in LiveJobs : r \in Ancestors(d) /\ \A x \in Ancestors(d) \ Ancestors(r) : x \in rows}

LEMMA UnderIs ==
    ASSUME JobsAreTrees, NEW r \in LiveJobs, NEW rows \in SUBSET LiveJobs
    PROVE  /\ r \in Under(rows, r) /\ Under(rows, r) \subseteq Branch(r)
           /\ \A d \in Under(rows, r) : Generation(r) <= Generation(d)
           /\ \A d \in Under(rows, r) \ {r} :
                 /\ d \in rows /\ job[d].parent \in Under(rows, r)
                 /\ Generation(d) = Generation(job[d].parent) + 1
                 /\ Generation(r) < Generation(d)
           /\ \A d \in rows : job[d].parent \in Under(rows, r) => d \in Under(rows, r) \ {r}
<1>1. JobsAreKnown
  BY TreesAre
<1>2. r \in Under(rows, r)
  BY <1>1, AncestorsAre DEF Under
<1>3. ASSUME NEW d \in LiveJobs, NEW p \in LiveJobs, p = job[d].parent, r \in Ancestors(p)
      PROVE  /\ d # r /\ d \in Ancestors(d) \ Ancestors(r)
             /\ Ancestors(d) \ Ancestors(r) = {d} \cup (Ancestors(p) \ Ancestors(r))
  <2>1. d \notin Ancestors(p)
    BY <1>3, ParentIsNotBelow
  <2>2. Ancestors(r) \subseteq Ancestors(p)
    BY <1>1, <1>3, AncestorsReachUp
  <2>3. d \in Ancestors(d) /\ Ancestors(d) = {d} \cup Ancestors(p)
    BY <1>1, <1>3, AncestorsAre
  <2> QED BY <1>3, <2>1, <2>2, <2>3
<1>4. ASSUME NEW d \in Under(rows, r), d # r
      PROVE  d \in rows /\ job[d].parent \in Under(rows, r)
  <2> DEFINE p == job[d].parent
  <2>1. d \in LiveJobs /\ r \in Ancestors(d) /\ \A x \in Ancestors(d) \ Ancestors(r) : x \in rows
    BY DEF Under
  <2>2. p \in LiveJobs /\ r \in Ancestors(p)
    BY <1>1, <1>4, <2>1, AncestorsAre
  <2>3. Ancestors(d) \ Ancestors(r) = {d} \cup (Ancestors(p) \ Ancestors(r))
    BY <1>3, <2>1, <2>2
  <2> HIDE DEF p
  <2>4. d \in rows /\ p \in Under(rows, r)
    BY <2>1, <2>2, <2>3 DEF Under
  <2> QED BY <2>4 DEF p
<1>5. ASSUME NEW d \in rows, job[d].parent \in Under(rows, r)
      PROVE  d \in Under(rows, r) \ {r}
  <2> DEFINE p == job[d].parent
  <2>1. p \in LiveJobs /\ r \in Ancestors(p) /\ \A x \in Ancestors(p) \ Ancestors(r) : x \in rows
    BY <1>5 DEF Under
  <2>2. d # r /\ Ancestors(d) \ Ancestors(r) = {d} \cup (Ancestors(p) \ Ancestors(r))
    BY <1>3, <2>1
  <2>3. r \in Ancestors(d)
    BY <1>1, <2>1, AncestorsAre
  <2> QED BY <2>1, <2>2, <2>3 DEF Under
<1>6. ASSUME NEW d \in Under(rows, r) PROVE Generation(r) <= Generation(d)
  <2>1. d \in LiveJobs /\ r \in Ancestors(d)
    BY DEF Under
  <2>2. Ancestors(r) \subseteq Ancestors(d)
    BY <1>1, <2>1, AncestorsReachUp
  <2>3. IsFiniteSet(Ancestors(d))
    BY <2>1, GenerationsAre
  <2> QED BY <2>2, <2>3, FS_Subset DEF Generation
<1>7. ASSUME NEW d \in Under(rows, r), d # r
      PROVE  Generation(d) = Generation(job[d].parent) + 1 /\ Generation(r) < Generation(d)
  <2>1. job[d].parent \in Under(rows, r) /\ d \in LiveJobs /\ job[d].parent \in LiveJobs
    BY <1>4, <1>7 DEF Under
  <2>2. Generation(d) = Generation(job[d].parent) + 1 /\ Generation(job[d].parent) \in Nat
    BY <2>1, GenerationsAre
  <2>3. Generation(r) <= Generation(job[d].parent) /\ Generation(r) \in Nat
    BY <1>6, <2>1, GenerationsAre
  <2> QED BY <2>2, <2>3
<1>8. Under(rows, r) \subseteq Branch(r)
  BY DEF Under, Branch
<1> QED BY <1>2, <1>4, <1>5, <1>6, <1>7, <1>8

\* Those n generations below r, and those no more than n.
LevelOf(rows, r, n) == {d \in Under(rows, r) : Generation(d) = Generation(r) + n}

UpTo(rows, r, n) == {d \in Under(rows, r) : Generation(d) <= Generation(r) + n}

ChildrenIn(rows, S) == {j \in rows : job[j].parent \in S}

\* What the level after n is.
Follows(rows, r, n) ==
    /\ LevelOf(rows, r, n + 1) = ChildrenIn(rows, LevelOf(rows, r, n))
    /\ UpTo(rows, r, n + 1) = UpTo(rows, r, n) \cup LevelOf(rows, r, n + 1)
    /\ UpTo(rows, r, n) \cap LevelOf(rows, r, n + 1) = {}
    /\ LevelOf(rows, r, n) \subseteq UpTo(rows, r, n)

LEMMA LevelsAre ==
    ASSUME JobsAreTrees, NEW r \in LiveJobs, NEW rows \in SUBSET LiveJobs
    PROVE  /\ LevelOf(rows, r, 0) = {r} /\ UpTo(rows, r, 0) = {r}
           /\ \A n \in Nat : Follows(rows, r, n)
<1> DEFINE U == Under(rows, r)
<1>1. /\ r \in U
      /\ \A d \in U : d \in LiveJobs /\ Generation(d) \in Nat /\ Generation(r) <= Generation(d)
      /\ \A d \in U \ {r} :
            /\ d \in rows /\ job[d].parent \in U
            /\ Generation(d) = Generation(job[d].parent) + 1
            /\ Generation(r) < Generation(d)
      /\ \A d \in rows : job[d].parent \in U => d \in U \ {r}
  <2>1. \A d \in U : d \in LiveJobs
    BY DEF Under
  <2>2. \A d \in LiveJobs : Generation(d) \in Nat
    BY GenerationsAre
  <2> HIDE DEF U
  <2> QED BY <2>1, <2>2, UnderIs DEF U
<1> HIDE DEF U
<1>2. LevelOf(rows, r, 0) = {r} /\ UpTo(rows, r, 0) = {r}
  BY <1>1 DEF LevelOf, UpTo, U
<1>3. ASSUME NEW n \in Nat PROVE Follows(rows, r, n)
  <2>1. /\ \A d \in U : d \in LevelOf(rows, r, n) <=> Generation(d) = Generation(r) + n
        /\ \A d \in U : d \in LevelOf(rows, r, n + 1) <=> Generation(d) = Generation(r) + (n + 1)
        /\ \A d \in U : d \in UpTo(rows, r, n) <=> Generation(d) <= Generation(r) + n
        /\ \A d \in U : d \in UpTo(rows, r, n + 1) <=> Generation(d) <= Generation(r) + (n + 1)
        /\ LevelOf(rows, r, n) \subseteq U /\ LevelOf(rows, r, n + 1) \subseteq U
        /\ UpTo(rows, r, n) \subseteq U /\ UpTo(rows, r, n + 1) \subseteq U
    BY DEF LevelOf, UpTo, U
  <2>2. ASSUME NEW d \in LevelOf(rows, r, n + 1) PROVE d \in ChildrenIn(rows, LevelOf(rows, r, n))
    <3>1. d \in U /\ Generation(d) = Generation(r) + (n + 1) /\ Generation(r) \in Nat
      BY <1>1, <2>1
    <3>2. d # r
      BY <3>1
    <3>3. /\ d \in rows /\ job[d].parent \in U
          /\ Generation(d) = Generation(job[d].parent) + 1 /\ Generation(job[d].parent) \in Nat
      BY <1>1, <3>1, <3>2
    <3>4. Generation(job[d].parent) = Generation(r) + n
      BY <3>1, <3>3
    <3> QED BY <2>1, <3>3, <3>4 DEF ChildrenIn
  <2>3. ASSUME NEW d \in ChildrenIn(rows, LevelOf(rows, r, n)) PROVE d \in LevelOf(rows, r, n + 1)
    <3>1. d \in rows /\ job[d].parent \in LevelOf(rows, r, n)
      BY DEF ChildrenIn
    <3>2. job[d].parent \in U /\ Generation(job[d].parent) = Generation(r) + n
      BY <2>1, <3>1
    <3>3. d \in U \ {r}
      BY <1>1, <3>1, <3>2
    <3>4. Generation(d) = Generation(r) + (n + 1)
      BY <1>1, <3>2, <3>3
    <3> QED BY <2>1, <3>3, <3>4
  <2>4. \A d \in U : Generation(d) \in Nat /\ Generation(r) \in Nat
    BY <1>1
  <2>5. /\ UpTo(rows, r, n + 1) = UpTo(rows, r, n) \cup LevelOf(rows, r, n + 1)
        /\ UpTo(rows, r, n) \cap LevelOf(rows, r, n + 1) = {}
        /\ LevelOf(rows, r, n) \subseteq UpTo(rows, r, n)
    BY <2>1, <2>4
  <2> QED BY <2>2, <2>3, <2>5 DEF Follows
<1> QED BY <1>2, <1>3

Traversed(rows, S, N) ==
    LET level[n \in 0 .. N] ==
            IF n = 0 THEN S ELSE LET above == level[n - 1] IN {j \in rows : job[j].parent \in above}
    IN  UNION {level[n] : n \in 0 .. N}

\* What a service finds, level by level.
LEMMA LevelsFind ==
    ASSUME JobsAreTrees, NEW r \in LiveJobs, NEW rows \in SUBSET LiveJobs, NEW N \in Nat
    PROVE  Traversed(rows, {r}, N) = UpTo(rows, r, N)
<1> DEFINE Step(f) == [n \in 0 .. N |-> IF n = 0 THEN {r} ELSE ChildrenIn(rows, f[n - 1])]
           found == [n \in 0 .. N |-> LevelOf(rows, r, n)]
           level == CHOOSE f : f = Step(f)
<1>b. \A n \in Nat : Follows(rows, r, n)
  BY LevelsAre
<1>a. \A n \in Nat : LevelOf(rows, r, n + 1) = ChildrenIn(rows, LevelOf(rows, r, n))
  BY <1>b DEF Follows
<1>1. Traversed(rows, {r}, N) = UNION {level[n] : n \in 0 .. N}
  BY DEF Traversed, ChildrenIn
<1>2. found = Step(found)
  <2> SUFFICES ASSUME NEW n \in 0 .. N
               PROVE  found[n] = IF n = 0 THEN {r} ELSE ChildrenIn(rows, found[n - 1])
    OBVIOUS
  <2>1. CASE n = 0
    BY <2>1, LevelsAre
  <2>2. CASE n # 0
    <3> DEFINE m == n - 1
    <3>1. m \in Nat /\ m \in 0 .. N /\ m + 1 = n
      BY <2>2
    <3>2. found[m] = LevelOf(rows, r, m) /\ found[n] = LevelOf(rows, r, n)
      BY <3>1
    <3> HIDE DEF m, found
    <3>3. LevelOf(rows, r, m + 1) = ChildrenIn(rows, LevelOf(rows, r, m))
      BY <1>a, <3>1
    <3> QED BY <2>2, <3>1, <3>2, <3>3 DEF m
  <2> QED BY <2>1, <2>2
<1>3. level = Step(level)
  <2> HIDE DEF Step, found
  <2> QED BY <1>2
<1> HIDE DEF level
<1>4. /\ level[0] = {r}
      /\ \A n \in 1 .. N : level[n] = ChildrenIn(rows, level[n - 1])
  <2>1. \A n \in 0 .. N : level[n] = IF n = 0 THEN {r} ELSE ChildrenIn(rows, level[n - 1])
    BY <1>3
  <2> QED BY <2>1
<1> HIDE DEF Step
<1>5. \A n \in 0 .. N : level[n] = LevelOf(rows, r, n)
  <2> DEFINE S == {n \in 0 .. N : level[n] = LevelOf(rows, r, n)}
  <2>1. 0 \in S
    <3>1. LevelOf(rows, r, 0) = {r} /\ 0 \in 0 .. N
      BY LevelsAre
    <3> QED BY <1>4, <3>1
  <2>2. ASSUME NEW n \in 0 .. N, n \in S, n < N PROVE n + 1 \in S
    <3>1. n + 1 \in 1 .. N /\ (n + 1) - 1 = n /\ n \in Nat
      BY <2>2
    <3>2. level[n + 1] = ChildrenIn(rows, level[n])
      BY <1>4, <3>1
    <3>3. LevelOf(rows, r, n + 1) = ChildrenIn(rows, LevelOf(rows, r, n))
      BY <1>a, <3>1
    <3> QED BY <2>2, <3>1, <3>2, <3>3
  <2>3. 0 .. N \subseteq S
    <3> HIDE DEF S
    <3> QED BY <2>1, <2>2, RoundsKeep
  <2> QED BY <2>3
<1> DEFINE Upper(n) == UNION {level[k] : k \in 0 .. n}
           T == {n \in 0 .. N : Upper(n) = UpTo(rows, r, n)}
<1>6. 0 \in T
  <2>1. Upper(0) = level[0]
    <3>1. 0 .. 0 = {0}
      OBVIOUS
    <3> QED BY <3>1
  <2>2. UpTo(rows, r, 0) = {r} /\ 0 \in 0 .. N
    BY LevelsAre
  <2> HIDE DEF Upper
  <2> QED BY <1>4, <2>1, <2>2
<1>7. ASSUME NEW n \in 0 .. N, n \in T, n < N PROVE n + 1 \in T
  <2>1. n + 1 \in 0 .. N /\ n \in Nat /\ 0 .. (n + 1) = (0 .. n) \cup {n + 1}
    BY <1>7
  <2>2. Upper(n + 1) = Upper(n) \cup level[n + 1]
    BY <2>1
  <2>3. UpTo(rows, r, n + 1) = UpTo(rows, r, n) \cup LevelOf(rows, r, n + 1)
    BY <2>1, LevelsAre DEF Follows
  <2> HIDE DEF Upper
  <2> QED BY <1>5, <1>7, <2>1, <2>2, <2>3
<1> HIDE DEF T
<1>8. 0 .. N \subseteq T
  BY <1>6, <1>7, RoundsKeep
<1>9. N \in T
  BY <1>8
<1> QED BY <1>1, <1>9 DEF T

-----------------------------------------------------------------------------
(***************************************************************************)
(* The tree: what its passes keep.  While nothing is cut it holds all of   *)
(* the levels so far; with more room than tasks nothing ever is.           *)
(***************************************************************************)
Passing == [tasks : SUBSET Jobs, frontier : SUBSET Jobs, cut : BOOLEAN]

PassOK(rows, r, limit, n, s) ==
    /\ s \in Passing
    /\ Cardinality(s.tasks) <= limit
    /\ r \in s.tasks /\ s.tasks \subseteq UpTo(rows, r, n)
    /\ s.frontier \subseteq s.tasks /\ s.frontier \subseteq LevelOf(rows, r, n)
    /\ \A j \in s.tasks \ {r} : job[j].parent \in s.tasks
    /\ s.cut => s.frontier = {}
    /\ ~s.cut => s.tasks = UpTo(rows, r, n) /\ s.frontier = LevelOf(rows, r, n)
    /\ limit > Cardinality(Jobs) => ~s.cut

LEMMA PassIs ==
    ASSUME JobsAreKnown, NEW rows \in SUBSET LiveJobs, NEW limit \in Nat, NEW s \in Passing
    PROVE  /\ Pass(rows, limit, s) \in Passing
           /\ Pass(rows, limit, s).tasks =
                 s.tasks \cup First(limit - Cardinality(s.tasks), ChildrenIn(rows, s.frontier))
           /\ Pass(rows, limit, s).frontier =
                 IF Cardinality(First(limit - Cardinality(s.tasks), ChildrenIn(rows, s.frontier)))
                       >= limit - Cardinality(s.tasks)
                 THEN {} ELSE First(limit - Cardinality(s.tasks), ChildrenIn(rows, s.frontier))
           /\ Pass(rows, limit, s).cut =
                 (s.cut \/ (/\ s.frontier # {}
                            /\ Cardinality(First(limit - Cardinality(s.tasks), ChildrenIn(rows, s.frontier)))
                                  >= limit - Cardinality(s.tasks)))
<1> DEFINE found == First(limit - Cardinality(s.tasks), ChildrenIn(rows, s.frontier))
           full == Cardinality(found) >= limit - Cardinality(s.tasks)
<1>1. Pass(rows, limit, s) =
         [tasks |-> s.tasks \cup found,
          frontier |-> IF full THEN {} ELSE found,
          cut |-> s.cut \/ (s.frontier # {} /\ full)]
  BY DEF Pass, ChildrenIn
<1>2. found \subseteq Jobs
  BY LiveAreJobs DEF First, ChildrenIn
<1> HIDE DEF found, full
<1>3. /\ Pass(rows, limit, s) \in Passing
      /\ Pass(rows, limit, s).tasks = s.tasks \cup found
      /\ Pass(rows, limit, s).frontier = IF full THEN {} ELSE found
      /\ Pass(rows, limit, s).cut = (s.cut \/ (s.frontier # {} /\ full))
  BY <1>1, <1>2 DEF Passing
<1> QED BY <1>3 DEF found, full

LEMMA PassKeeps ==
    ASSUME JobsAreTrees, NEW r \in LiveJobs, NEW rows \in SUBSET LiveJobs, NEW limit \in Nat \ {0},
           NEW n \in Nat, NEW s, PassOK(rows, r, limit, n, s)
    PROVE  PassOK(rows, r, limit, n + 1, Pass(rows, limit, s))
<1> DEFINE kids == ChildrenIn(rows, s.frontier)
           room == limit - Cardinality(s.tasks)
           found == First(room, kids)
           full == Cardinality(found) >= room
           t == Pass(rows, limit, s)
<1>b. \A m \in Nat : Follows(rows, r, m)
  BY LevelsAre
<1>0. \A m \in Nat : LevelOf(rows, r, m + 1) = ChildrenIn(rows, LevelOf(rows, r, m))
  BY <1>b DEF Follows
<1>1. /\ JobsAreKnown /\ LiveJobs \subseteq Jobs /\ Jobs \subseteq Nat /\ IsFiniteSet(Jobs)
      /\ Cardinality(Jobs) \in Nat
  BY TreesAre, AccessAssumption, FS_CardinalityType
<1>2. /\ s \in Passing /\ s.tasks \subseteq Jobs /\ s.frontier \subseteq Jobs
      /\ IsFiniteSet(s.tasks) /\ Cardinality(s.tasks) \in Nat /\ room \in Nat
  <2>1. s \in Passing /\ s.tasks \subseteq Jobs /\ s.frontier \subseteq Jobs
    BY DEF PassOK, Passing
  <2>2. IsFiniteSet(s.tasks)
    BY <1>1, <2>1, FS_Subset
  <2>3. Cardinality(s.tasks) \in Nat /\ Cardinality(s.tasks) <= limit
    BY <2>2, FS_CardinalityType DEF PassOK
  <2> QED BY <2>1, <2>2, <2>3
<1>3. /\ t \in Passing /\ t.tasks = s.tasks \cup found
      /\ t.frontier = IF full THEN {} ELSE found
      /\ t.cut = (s.cut \/ (s.frontier # {} /\ full))
  BY <1>1, <1>2, PassIs
<1>4. kids \subseteq Nat /\ IsFiniteSet(kids) /\ kids \subseteq LiveJobs
  <2>1. kids \subseteq LiveJobs
    BY DEF ChildrenIn
  <2>2. kids \subseteq Jobs /\ kids \subseteq Nat
    BY <1>1, <2>1
  <2> HIDE DEF kids
  <2> QED BY <1>1, <2>1, <2>2, FS_Subset
<1>5. /\ found \subseteq kids /\ Cardinality(found) \in Nat /\ Cardinality(found) <= room
      /\ ~full => found = kids
  <2> HIDE DEF kids, room
  <2> QED BY <1>2, <1>4, FirstIs
<1>6. kids \subseteq LevelOf(rows, r, n + 1)
      /\ (~s.cut => kids = LevelOf(rows, r, n + 1) /\ s.frontier = LevelOf(rows, r, n))
  <2>1. LevelOf(rows, r, n + 1) = ChildrenIn(rows, LevelOf(rows, r, n))
    BY <1>0
  <2>2. s.frontier \subseteq LevelOf(rows, r, n) /\ (~s.cut => s.frontier = LevelOf(rows, r, n))
    BY DEF PassOK
  <2> QED BY <2>1, <2>2 DEF ChildrenIn
<1>7. /\ UpTo(rows, r, n + 1) = UpTo(rows, r, n) \cup LevelOf(rows, r, n + 1)
      /\ UpTo(rows, r, n) \cap LevelOf(rows, r, n + 1) = {}
  BY LevelsAre DEF Follows
<1>8. \A j \in kids : job[j].parent \in s.tasks
  BY DEF PassOK, ChildrenIn
<1>9. s.frontier = {} => kids = {}
  BY DEF ChildrenIn
<1>10. s.tasks \subseteq UpTo(rows, r, n) /\ s.tasks \cap found = {}
  <2>1. s.tasks \subseteq UpTo(rows, r, n)
    BY DEF PassOK
  <2> HIDE DEF kids, found
  <2> QED BY <1>5, <1>6, <1>7, <2>1
<1>11. /\ IsFiniteSet(found) /\ IsFiniteSet(s.tasks \cup found)
       /\ Cardinality(s.tasks \cup found) = Cardinality(s.tasks) + Cardinality(found)
  <2>1. IsFiniteSet(found)
    BY <1>4, <1>5, FS_Subset
  <2>2. Cardinality(s.tasks \cup found) =
           Cardinality(s.tasks) + Cardinality(found) - Cardinality(s.tasks \cap found)
    BY <1>2, <2>1, FS_Union
  <2>3. Cardinality(s.tasks \cap found) = 0
    BY <1>10, FS_EmptySet
  <2>4. IsFiniteSet(s.tasks \cup found)
    BY <1>2, <2>1, FS_Union
  <2> HIDE DEF found
  <2> QED BY <1>2, <1>5, <2>1, <2>2, <2>3, <2>4
<1>12. Cardinality(s.tasks \cup found) <= limit /\ Cardinality(s.tasks \cup found) <= Cardinality(Jobs)
  <2>1. s.tasks \cup found \subseteq Jobs
    BY <1>1, <1>2, <1>4, <1>5
  <2>2. Cardinality(s.tasks \cup found) <= Cardinality(Jobs)
    BY <1>1, <2>1, FS_Subset
  <2> HIDE DEF found
  <2> QED BY <1>2, <1>5, <1>11, <2>2
<1>13. limit > Cardinality(Jobs) => ~s.cut /\ ~full
  <2>1. limit > Cardinality(Jobs) => ~s.cut
    BY DEF PassOK
  <2> HIDE DEF found
  <2>2. Cardinality(s.tasks) + Cardinality(found) <= Cardinality(Jobs)
    BY <1>11, <1>12
  <2> QED BY <1>1, <1>2, <1>5, <2>1, <2>2
<1>14. /\ r \in s.tasks /\ s.frontier \subseteq s.tasks
       /\ \A j \in s.tasks \ {r} : job[j].parent \in s.tasks
       /\ s.cut => s.frontier = {}
       /\ ~s.cut => s.tasks = UpTo(rows, r, n) /\ s.frontier = LevelOf(rows, r, n)
  BY DEF PassOK
<1> HIDE DEF kids, room, found, full, t
<1>15. /\ Cardinality(t.tasks) <= limit
       /\ r \in t.tasks /\ t.tasks \subseteq UpTo(rows, r, n + 1)
       /\ t.frontier \subseteq t.tasks /\ t.frontier \subseteq LevelOf(rows, r, n + 1)
  BY <1>3, <1>5, <1>6, <1>7, <1>10, <1>12, <1>14
<1>16. \A j \in t.tasks \ {r} : job[j].parent \in t.tasks
  BY <1>3, <1>5, <1>8, <1>14
<1>17. t.cut => t.frontier = {}
  BY <1>3, <1>5, <1>9, <1>14
<1>18. ~t.cut => t.tasks = UpTo(rows, r, n + 1) /\ t.frontier = LevelOf(rows, r, n + 1)
  <2> SUFFICES ASSUME ~t.cut
               PROVE  t.tasks = UpTo(rows, r, n + 1) /\ t.frontier = LevelOf(rows, r, n + 1)
    OBVIOUS
  <2>1. ~s.cut /\ (s.frontier = {} \/ ~full)
    BY <1>3
  <2>2. found = kids /\ kids = LevelOf(rows, r, n + 1)
    BY <1>5, <1>6, <1>9, <2>1
  <2>3. t.frontier = found
    BY <1>3, <1>9, <2>1, <2>2
  <2> QED BY <1>3, <1>7, <1>14, <2>1, <2>2, <2>3
<1>19. limit > Cardinality(Jobs) => ~t.cut
  BY <1>3, <1>13
<1> QED BY <1>3, <1>15, <1>16, <1>17, <1>18, <1>19 DEF PassOK, t

TreeRowsOf(u, all) == {j \in LiveJobs : (all \/ job[j].replaced = NoOne) /\ InScope(u, j)}

Most(depth) == IF depth = NoOne THEN MaxDepth ELSE depth

WholeOf(u, r, depth, all) == UpTo(TreeRowsOf(u, all), r, Most(depth))

TreeIsFound(u, r, depth, limit, all, tree) ==
    /\ Most(depth) \in Nat
    /\ tree.tasks \subseteq Jobs /\ Cardinality(tree.tasks) <= limit
    /\ r \in tree.tasks /\ tree.tasks \subseteq WholeOf(u, r, depth, all)
    /\ \A j \in tree.tasks \ {r} : job[j].parent \in tree.tasks
    /\ ~tree.truncated => tree.tasks = WholeOf(u, r, depth, all)
    /\ ~tree.truncated /\ depth = NoOne => LevelOf(TreeRowsOf(u, all), r, Most(depth)) = {}
    /\ limit > Cardinality(Jobs) => tree.tasks = WholeOf(u, r, depth, all)

LEMMA TreeFinds ==
    ASSUME JobsAreTrees, NEW u, NEW r \in LiveJobs, NEW depth \in Depths, NEW limit, limit \in Nat \ {0},
           NEW all
    PROVE  TreeIsFound(u, r, depth, limit, all, Tree(u, r, depth, limit, all))
<1> DEFINE tree == Tree(u, r, depth, limit, all)
           rows == TreeRowsOf(u, all)
           most == Most(depth)
           first == [tasks |-> {r}, frontier |-> {r}, cut |-> FALSE]
           Step(f) == [n \in 0 .. most |-> IF n = 0 THEN first ELSE Pass(rows, limit, f[n - 1])]
           pass == CHOOSE f : f = Step(f)
           last == pass[most]
<1>1. JobsAreKnown /\ LiveJobs \subseteq Jobs /\ rows \in SUBSET LiveJobs /\ most \in Nat
  BY TreesAre, ReadsAssumption DEF TreeRowsOf, Most, Depths
<1>2. tree = [tasks |-> last.tasks,
              truncated |-> last.cut \/ (depth = NoOne /\ last.frontier # {})]
  BY DEF Tree, TreeRows, TreeRowsOf, Most
<1> HIDE DEF rows, most
<1>3. first \in Passing
  BY <1>1 DEF Passing
<1>4. pass = Step(pass)
  <2> DEFINE step == [s \in Passing |-> Pass(rows, limit, s)]
  <2>1. step \in [Passing -> Passing]
    <3>1. \A s \in Passing : Pass(rows, limit, s) \in Passing
      BY <1>1, PassIs
    <3> QED BY <3>1
  <2> HIDE DEF first
  <2>2. \A s \in Passing : step[s] = Pass(rows, limit, s)
    OBVIOUS
  <2> HIDE DEF step
  <2>3. PICK f : f \in [0 .. most -> Passing] /\ f[0] = first /\ \A n \in 1 .. most : f[n] = step[f[n - 1]]
    <3>1. \E f : RoundsOf(Passing, first, step, most, f)
      BY <1>1, <1>3, <2>1, RoundsExist
    <3> QED BY <3>1 DEF RoundsOf
  <2>4. \A n \in 0 .. most : f[n] = IF n = 0 THEN first ELSE Pass(rows, limit, f[n - 1])
    <3> SUFFICES ASSUME NEW n \in 0 .. most, n # 0 PROVE f[n] = Pass(rows, limit, f[n - 1])
      BY <2>3
    <3>1. n \in 1 .. most /\ n - 1 \in 0 .. most
      BY <1>1
    <3>2. f[n - 1] \in Passing
      BY <2>3, <3>1
    <3>3. f[n] = step[f[n - 1]]
      BY <2>3, <3>1
    <3> QED BY <2>2, <3>2, <3>3
  <2>5. f = Step(f)
    <3>1. f = [n \in 0 .. most |-> f[n]]
      BY <2>3
    <3> QED BY <2>4, <3>1
  <2> HIDE DEF Step
  <2> QED BY <2>5
<1> HIDE DEF pass
<1>5. pass[0] = first /\ \A n \in 1 .. most : pass[n] = Pass(rows, limit, pass[n - 1])
  <2> HIDE DEF first
  <2>1. \A n \in 0 .. most : pass[n] = IF n = 0 THEN first ELSE Pass(rows, limit, pass[n - 1])
    BY <1>4
  <2> QED BY <1>1, <2>1
<1> HIDE DEF Step
<1> DEFINE S == {n \in 0 .. most : PassOK(rows, r, limit, n, pass[n])}
<1>6. 0 \in S
  <2>1. LevelOf(rows, r, 0) = {r} /\ UpTo(rows, r, 0) = {r}
    BY <1>1, LevelsAre
  <2>2. Cardinality({r}) = 1
    BY FS_Singleton
  <2>3. PassOK(rows, r, limit, 0, first)
    BY <1>1, <1>3, <2>1, <2>2 DEF PassOK
  <2> HIDE DEF first
  <2> QED BY <1>1, <1>5, <2>3
<1>7. ASSUME NEW n \in 0 .. most, n \in S, n < most PROVE n + 1 \in S
  <2>1. n + 1 \in 1 .. most /\ (n + 1) - 1 = n /\ n \in Nat /\ n + 1 \in 0 .. most
    BY <1>1, <1>7
  <2>2. pass[n + 1] = Pass(rows, limit, pass[n])
    BY <1>5, <2>1
  <2>3. PassOK(rows, r, limit, n + 1, Pass(rows, limit, pass[n]))
    BY <1>1, <1>7, <2>1, PassKeeps
  <2> QED BY <2>1, <2>2, <2>3
<1>8. PassOK(rows, r, limit, most, last)
  <2>1. 0 .. most \subseteq S
    <3> HIDE DEF S
    <3> QED BY <1>1, <1>6, <1>7, RoundsKeep
  <2>2. most \in S
    BY <1>1, <2>1
  <2> QED BY <2>2
<1> HIDE DEF last, tree
<1>9. /\ tree.tasks = last.tasks
      /\ tree.truncated = (last.cut \/ (depth = NoOne /\ last.frontier # {}))
  BY <1>2
<1>10. tree.truncated <=> last.cut \/ (depth = NoOne /\ last.frontier # {})
  BY <1>9
<1>11. TreeIsFound(u, r, depth, limit, all, tree)
  BY <1>1, <1>8, <1>9, <1>10 DEF PassOK, Passing, WholeOf, rows, most, TreeIsFound
<1> QED BY <1>11 DEF tree

LEMMA WholeTreeIs ==
    ASSUME JobsAreTrees, NEW u, NEW r \in LiveJobs, NEW depth \in Depths, NEW all
    PROVE  WholeTree(u, r, depth, all) = WholeOf(u, r, depth, all)
<1> DEFINE limit == Cardinality(Jobs) + 1
           tree == Tree(u, r, depth, limit, all)
<1>1. Cardinality(Jobs) \in Nat
  BY AccessAssumption, FS_CardinalityType
<1>2. limit \in Nat \ {0} /\ limit > Cardinality(Jobs)
  BY <1>1
<1>3. WholeTree(u, r, depth, all) = tree.tasks
  BY DEF WholeTree
<1> HIDE DEF limit
<1>4. TreeIsFound(u, r, depth, limit, all, tree)
  BY <1>2, TreeFinds
<1> QED BY <1>2, <1>3, <1>4 DEF TreeIsFound

\* A tree that is not cut is whole, and then nothing is below it.
LEMMA TreeTells ==
    ASSUME JobsAreTrees, NEW u, NEW r \in LiveJobs, NEW all, NEW depth \in Depths, NEW n \in Limits,
           NEW whole, whole = WholeTree(u, r, depth, all),
           NEW tree, tree = Tree(u, r, depth, n, all)
    PROVE  /\ Cardinality(tree.tasks) <= n /\ tree.tasks \subseteq whole
           /\ ~tree.truncated => tree.tasks = whole
           /\ ~tree.truncated /\ depth = NoOne =>
                 \A j \in whole : ChildCount(u, j, all) = Cardinality({c \in whole : job[c].parent = j})
<1> DEFINE rows == TreeRowsOf(u, all)
           most == Most(depth)
<1>1. n \in Nat \ {0}
  BY ReadsAssumption
<1>2. whole = UpTo(rows, r, most)
  BY WholeTreeIs DEF WholeOf
<1>3. /\ most \in Nat /\ Cardinality(tree.tasks) <= n /\ tree.tasks \subseteq whole
      /\ ~tree.truncated => tree.tasks = whole
      /\ ~tree.truncated /\ depth = NoOne => LevelOf(rows, r, most) = {}
  <2>1. whole = WholeOf(u, r, depth, all)
    BY WholeTreeIs
  <2> HIDE DEF rows, most
  <2>2. TreeIsFound(u, r, depth, n, all, tree)
    BY <1>1, TreeFinds
  <2> QED BY <2>1, <2>2 DEF rows, most, TreeIsFound
<1>4. ASSUME ~tree.truncated, depth = NoOne, NEW j \in whole
      PROVE  ChildCount(u, j, all) = Cardinality({c \in whole : job[c].parent = j})
  <2>1. LevelOf(rows, r, most) = {} /\ rows \in SUBSET LiveJobs
    BY <1>3, <1>4 DEF TreeRowsOf
  <2>2. ChildCount(u, j, all) = Cardinality({c \in rows : job[c].parent = j})
    <3>1. {c \in LiveJobs : /\ job[c].parent = j
                            /\ all \/ job[c].replaced = NoOne
                            /\ InScope(u, c)} = {c \in rows : job[c].parent = j}
      BY DEF TreeRowsOf
    <3> QED BY <3>1 DEF ChildCount
  <2> HIDE DEF rows, most
  <2>3. j \in Under(rows, r) /\ Generation(j) < Generation(r) + most
    <3>1. j \in Under(rows, r) /\ Generation(j) <= Generation(r) + most /\ Generation(j) # Generation(r) + most
      BY <1>2, <1>4, <2>1 DEF UpTo, LevelOf
    <3>2. j \in LiveJobs
      BY <3>1 DEF Under
    <3>3. Generation(j) \in Nat /\ Generation(r) \in Nat
      BY <3>2, GenerationsAre
    <3> QED BY <1>3, <3>1, <3>3
  <2>4. ASSUME NEW c \in rows, job[c].parent = j PROVE c \in whole
    <3>1. c \in Under(rows, r) \ {r}
      BY <2>1, <2>3, <2>4, UnderIs
    <3>2. Generation(c) = Generation(j) + 1
      BY <2>1, <2>4, <3>1, UnderIs
    <3>3. j \in LiveJobs
      BY <2>3 DEF Under
    <3>4. Generation(j) \in Nat /\ Generation(r) \in Nat
      BY <3>3, GenerationsAre
    <3>5. Generation(c) <= Generation(r) + most
      BY <1>3, <2>3, <3>2, <3>4
    <3> QED BY <1>2, <3>1, <3>5 DEF UpTo
  <2>5. ASSUME NEW c \in whole, job[c].parent = j PROVE c \in rows
    <3>1. c \in Under(rows, r) /\ c \in LiveJobs /\ j \in LiveJobs /\ r \in Ancestors(j)
      BY <1>2, <2>3 DEF UpTo, Under
    <3>2. c # r
      BY <2>5, <3>1, ParentIsNotBelow
    <3> QED BY <2>1, <3>1, <3>2, UnderIs
  <2>6. {c \in rows : job[c].parent = j} = {c \in whole : job[c].parent = j}
    BY <2>4, <2>5
  <2> QED BY <2>2, <2>6
<1> HIDE DEF rows, most
<1> QED BY <1>2, <1>3, <1>4

LEMMA TreesTell ==
    ASSUME JobsAreTrees, NEW u, NEW r \in LiveJobs
    PROVE  TreesAreHonest(u, r)
BY TreeTells DEF TreesAreHonest

-----------------------------------------------------------------------------
(***************************************************************************)
(* A walk that adds what E joins to what it has, until that is nothing     *)
(* new, finds the least set closed under E.                                *)
(***************************************************************************)
Joins(D, E, S) == {c \in D : \E p \in S : <<p, c>> \in E}

Reached(D, E, S) == {b \in D : \A T \in SUBSET D : S \subseteq T /\ Joins(D, E, T) \subseteq T => b \in T}

LEMMA ReachedIs ==
    ASSUME NEW D, NEW E, NEW S \in SUBSET D
    PROVE  /\ S \subseteq Reached(D, E, S) /\ Reached(D, E, S) \subseteq D
           /\ Joins(D, E, Reached(D, E, S)) \subseteq Reached(D, E, S)
           /\ \A T \in SUBSET D : S \subseteq T /\ Joins(D, E, T) \subseteq T => Reached(D, E, S) \subseteq T
           /\ Joins(D, E, S) \subseteq S => Reached(D, E, S) = S
           /\ Reached(D, E, S \cup Joins(D, E, S)) = Reached(D, E, S)
<1>1. S \subseteq Reached(D, E, S) /\ Reached(D, E, S) \subseteq D
  BY DEF Reached
<1>2. \A T \in SUBSET D : S \subseteq T /\ Joins(D, E, T) \subseteq T => Reached(D, E, S) \subseteq T
  BY DEF Reached
<1>3. ASSUME NEW c \in Joins(D, E, Reached(D, E, S)) PROVE c \in Reached(D, E, S)
  <2>1. PICK p \in Reached(D, E, S) : c \in D /\ <<p, c>> \in E
    BY DEF Joins
  <2>2. ASSUME NEW T \in SUBSET D, S \subseteq T, Joins(D, E, T) \subseteq T PROVE c \in T
    <3>1. p \in T
      BY <1>2, <2>1, <2>2
    <3>2. c \in Joins(D, E, T)
      BY <2>1, <3>1 DEF Joins
    <3> QED BY <2>2, <3>2
  <2> QED BY <2>1, <2>2 DEF Reached
<1>4. Joins(D, E, S) \subseteq S => Reached(D, E, S) = S
  BY <1>1, <1>2
<1>5. ASSUME NEW T \in SUBSET D, Joins(D, E, T) \subseteq T
      PROVE  S \subseteq T <=> S \cup Joins(D, E, S) \subseteq T
  BY <1>5 DEF Joins
<1>6. Reached(D, E, S \cup Joins(D, E, S)) = Reached(D, E, S)
  BY <1>5 DEF Reached
<1> QED BY <1>1, <1>2, <1>3, <1>4, <1>6

IsWalk(D, E, f) ==
    \A S \in SUBSET D : f[S] = IF Joins(D, E, S) \subseteq S THEN S ELSE f[S \cup Joins(D, E, S)]

LEMMA WalksFind ==
    ASSUME NEW D, IsFiniteSet(D), NEW E, NEW f, IsWalk(D, E, f), NEW S \in SUBSET D
    PROVE  f[S] = Reached(D, E, S)
<1> DEFINE Left == {A \in SUBSET D : f[D \ A] # Reached(D, E, D \ A)}
<1>1. Left = {}
  <2> SUFFICES ASSUME Left # {} PROVE FALSE
    OBVIOUS
  <2>1. PICK A \in Left : \A B \in Left : B \subseteq A => B = A
    <3>1. Left \subseteq SUBSET D
      OBVIOUS
    <3> HIDE DEF Left
    <3> QED BY <3>1, MinimalSubset
  <2> DEFINE has == D \ A
             more == has \cup Joins(D, E, has)
  <2>2. f[has] # Reached(D, E, has) /\ has \in SUBSET D
    BY <2>1
  <2>3. more \in SUBSET D /\ has \subseteq more
    BY DEF Joins
  <2>4. ~(Joins(D, E, has) \subseteq has) => f[more] = Reached(D, E, more)
    <3>1. D \ more \in SUBSET D /\ D \ more \subseteq A /\ D \ (D \ more) = more
      BY <2>1, <2>3
    <3>2. D \ more = A => more = has
      BY <3>1
    <3>3. D \ more \notin Left => f[more] = Reached(D, E, more)
      BY <3>1
    <3> HIDE DEF Left, more, has
    <3> QED BY <2>1, <3>1, <3>2, <3>3 DEF more
  <2> HIDE DEF has
  <2>5. f[has] = IF Joins(D, E, has) \subseteq has THEN has ELSE f[more]
    BY <2>2 DEF IsWalk
  <2>6. /\ Joins(D, E, has) \subseteq has => Reached(D, E, has) = has
        /\ Reached(D, E, more) = Reached(D, E, has)
    BY <2>2, ReachedIs
  <2> HIDE DEF more
  <2> QED BY <2>2, <2>4, <2>5, <2>6
<1>2. D \ (D \ S) = S /\ D \ S \in SUBSET D
  OBVIOUS
<1>3. D \ S \notin Left
  BY <1>1
<1> QED BY <1>2, <1>3

-----------------------------------------------------------------------------
(***************************************************************************)
(* Subtrees.                                                               *)
(***************************************************************************)
LiveEdges == {e \in Jobs \X LiveJobs : job[e[2]].parent = e[1]}

\* Whatever holds r and the children of what it holds, holds its branch.
LEMMA BranchIsLeast ==
    ASSUME JobsAreTrees, NEW r \in LiveJobs, NEW T, r \in T,
           \A d \in Branch(r) : job[d].parent \in T /\ d # r => d \in T
    PROVE  Branch(r) \subseteq T
<1> DEFINE S == Branch(r) \ T
<1>1. S = {}
  <2> SUFFICES ASSUME S # {} PROVE FALSE
    OBVIOUS
  <2>1. S \in SUBSET LiveJobs
    BY DEF Branch
  <2> HIDE DEF S
  <2>2. PICK d \in S : job[d].parent \notin S
    BY <2>1, TreesAre
  <2>3. d \in LiveJobs /\ r \in Ancestors(d) /\ d \notin T /\ d # r
    BY DEF S, Branch
  <2>4. job[d].parent \in Branch(r)
    BY <2>3, TreesAre, AncestorsAre DEF Branch
  <2>5. job[d].parent \in T
    BY <2>2, <2>4 DEF S
  <2>6. d \in Branch(r)
    BY <2>3 DEF Branch
  <2> QED BY <2>3, <2>5, <2>6
<1> QED BY <1>1

LEMMA SubtreeIsBranch ==
    ASSUME JobsAreTrees, NEW r \in LiveJobs
    PROVE  Subtree(r) = Branch(r)
<1> DEFINE NewBelow(S) == {j \in LiveJobs : job[j].parent \in S} \ S
           Step(f) == [S \in SUBSET Jobs |-> IF NewBelow(S) = {} THEN S ELSE f[S \cup NewBelow(S)]]
           grow == CHOOSE f : f = Step(f)
           found == [S \in SUBSET Jobs |-> Reached(Jobs, LiveEdges, S)]
<1>1. JobsAreKnown /\ LiveJobs \subseteq Jobs /\ r \in Jobs /\ IsFiniteSet(Jobs)
  BY TreesAre, AccessAssumption
<1>2. Subtree(r) = grow[{r}]
  BY DEF Subtree
<1>3. ASSUME NEW S \in SUBSET Jobs
      PROVE  /\ NewBelow(S) = Joins(Jobs, LiveEdges, S) \ S
             /\ S \cup NewBelow(S) = S \cup Joins(Jobs, LiveEdges, S)
             /\ NewBelow(S) = {} <=> Joins(Jobs, LiveEdges, S) \subseteq S
             /\ S \cup NewBelow(S) \in SUBSET Jobs
  <2>1. Joins(Jobs, LiveEdges, S) = {j \in LiveJobs : job[j].parent \in S}
    BY <1>1 DEF Joins, LiveEdges
  <2> QED BY <1>1, <2>1
<1> HIDE DEF NewBelow
<1>4. found = Step(found)
  <2> SUFFICES ASSUME NEW S \in SUBSET Jobs
               PROVE  found[S] = IF NewBelow(S) = {} THEN S ELSE found[S \cup NewBelow(S)]
    OBVIOUS
  <2>1. found[S] = Reached(Jobs, LiveEdges, S)
    OBVIOUS
  <2>2. found[S \cup NewBelow(S)] = Reached(Jobs, LiveEdges, S \cup NewBelow(S))
    BY <1>3
  <2> HIDE DEF found
  <2> QED BY <1>3, <2>1, <2>2, ReachedIs
<1>5. grow = Step(grow)
  <2> HIDE DEF Step, found
  <2> QED BY <1>4
<1> HIDE DEF grow
<1>6. \A S \in SUBSET Jobs : grow[S] = IF NewBelow(S) = {} THEN S ELSE grow[S \cup NewBelow(S)]
  BY <1>5
<1>7. IsWalk(Jobs, LiveEdges, grow)
  <2> SUFFICES ASSUME NEW S \in SUBSET Jobs
               PROVE  grow[S] = IF Joins(Jobs, LiveEdges, S) \subseteq S THEN S
                                ELSE grow[S \cup Joins(Jobs, LiveEdges, S)]
    BY DEF IsWalk
  <2> HIDE DEF Step
  <2> QED BY <1>3, <1>6
<1> HIDE DEF Step
<1>8. grow[{r}] = Reached(Jobs, LiveEdges, {r})
  <2>1. {r} \in SUBSET Jobs
    BY <1>1
  <2> QED BY <1>1, <1>7, <2>1, WalksFind
<1>9. Joins(Jobs, LiveEdges, Branch(r)) \subseteq Branch(r) /\ r \in Branch(r) /\ Branch(r) \in SUBSET Jobs
  <2>1. \A d \in LiveJobs : job[d].parent \in Branch(r) => d \in Branch(r)
    BY <1>1, AncestorsAre DEF Branch
  <2>2. r \in Branch(r)
    BY <1>1, AncestorsAre DEF Branch
  <2>3. Branch(r) \in SUBSET Jobs
    BY <1>1 DEF Branch
  <2> QED BY <2>1, <2>2, <2>3 DEF Joins, LiveEdges
<1>10. Branch(r) \subseteq Reached(Jobs, LiveEdges, {r})
  <2> DEFINE R == {r}
             T == Reached(Jobs, LiveEdges, R)
  <2>0. R \in SUBSET Jobs /\ r \in R
    BY <1>1
  <2> HIDE DEF R
  <2>1. /\ R \subseteq T /\ T \subseteq Jobs /\ Joins(Jobs, LiveEdges, T) \subseteq T
    BY <2>0, ReachedIs
  <2> HIDE DEF T
  <2>2. \A d \in LiveJobs : job[d].parent \in T => d \in T
    BY <1>1, <2>1 DEF Joins, LiveEdges
  <2>3. \A d \in Branch(r) : job[d].parent \in T /\ d # r => d \in T
    BY <2>2 DEF Branch
  <2> QED BY <2>0, <2>1, <2>3, BranchIsLeast DEF T, R
<1>11. Reached(Jobs, LiveEdges, {r}) \subseteq Branch(r)
  <2>1. {r} \in SUBSET Jobs /\ {r} \subseteq Branch(r)
    BY <1>1, <1>9
  <2> QED BY <1>9, <2>1, ReachedIs
<1> QED BY <1>2, <1>8, <1>10, <1>11

\* With every task of the branch among the rows, a traversal reaches it all.
LEMMA WholeBranches ==
    ASSUME JobsAreTrees, NEW r \in LiveJobs, NEW rows \in SUBSET LiveJobs, Branch(r) \subseteq rows
    PROVE  Under(rows, r) = Branch(r)
<1>1. r \in Under(rows, r) /\ Under(rows, r) \subseteq Branch(r)
  BY UnderIs
<1>2. \A d \in Branch(r) : job[d].parent \in Under(rows, r) /\ d # r => d \in Under(rows, r)
  BY UnderIs
<1>3. Branch(r) \subseteq Under(rows, r)
  BY <1>1, <1>2, BranchIsLeast
<1> QED BY <1>1, <1>3

\* Below a level without tasks there are none.
LEMMA NothingBelow ==
    ASSUME JobsAreTrees, NEW r \in LiveJobs, NEW rows \in SUBSET LiveJobs,
           NEW n \in Nat, LevelOf(rows, r, n) = {}, NEW N, N \in Nat, n <= N
    PROVE  UpTo(rows, r, n) = UpTo(rows, r, N)
<1> DEFINE S == {k \in 0 .. N : k >= n => /\ LevelOf(rows, r, k) = {}
                                          /\ UpTo(rows, r, k) = UpTo(rows, r, n)}
<1>1. 0 \in S
  BY Z3
<1>2. ASSUME NEW k \in 0 .. N, k \in S, k < N PROVE k + 1 \in S
  <2>1. k \in Nat /\ k + 1 \in 0 .. N /\ Follows(rows, r, k)
    BY <1>2, LevelsAre
  <2>2. CASE k < n
    <3>1. k + 1 >= n => k + 1 = n
      BY <2>1, <2>2
    <3> QED BY <2>1, <3>1
  <2>3. CASE k >= n
    <3>1. LevelOf(rows, r, k) = {} /\ UpTo(rows, r, k) = UpTo(rows, r, n)
      BY <1>2, <2>3
    <3>2. LevelOf(rows, r, k + 1) = {}
      BY <2>1, <3>1 DEF Follows, ChildrenIn
    <3>3. UpTo(rows, r, k + 1) = UpTo(rows, r, n)
      BY <2>1, <3>1, <3>2 DEF Follows
    <3> QED BY <2>1, <3>2, <3>3
  <2> QED BY <2>1, <2>2, <2>3
<1>3. 0 .. N \subseteq S
  <2> HIDE DEF S
  <2> QED BY <1>1, <1>2, RoundsKeep
<1>4. N \in S
  BY <1>3
<1> QED BY <1>4

(***************************************************************************)
(* The timeline: while its passes go on they hold all of the levels so     *)
(* far, and they stop only with enough tasks.                              *)
(***************************************************************************)
TimelineOK(rows, r, n, s) ==
    /\ s \in Passing
    /\ s.tasks \subseteq UpTo(rows, r, n)
    /\ ~s.cut => s.tasks = UpTo(rows, r, n) /\ s.frontier = LevelOf(rows, r, n)
    /\ s.cut => Cardinality(s.tasks) >= MaxTimeline

LEMMA TimelinePassIs ==
    ASSUME JobsAreKnown, NEW rows \in SUBSET LiveJobs, NEW s \in Passing
    PROVE  /\ TimelinePass(rows, s) \in Passing
           /\ TimelinePass(rows, s).tasks = s.tasks \cup TimelinePass(rows, s).frontier
           /\ TimelinePass(rows, s).frontier = IF s.cut THEN {} ELSE ChildrenIn(rows, s.frontier)
           /\ TimelinePass(rows, s).cut <=>
                 \/ s.cut
                 \/ /\ TimelinePass(rows, s).frontier # {}
                    /\ Cardinality(TimelinePass(rows, s).tasks) >= MaxTimeline
<1> DEFINE found == IF s.cut THEN {} ELSE ChildrenIn(rows, s.frontier)
           full == found # {} /\ Cardinality(s.tasks \cup found) >= MaxTimeline
<1>1. TimelinePass(rows, s) =
         [tasks |-> s.tasks \cup found, frontier |-> found, cut |-> s.cut \/ full]
  BY DEF TimelinePass, ChildrenIn
<1>2. found \subseteq Jobs /\ full \in BOOLEAN
  BY LiveAreJobs DEF ChildrenIn
<1> HIDE DEF found, full
<1>3. /\ TimelinePass(rows, s) \in Passing
      /\ TimelinePass(rows, s).tasks = s.tasks \cup found
      /\ TimelinePass(rows, s).frontier = found
      /\ TimelinePass(rows, s).cut <=> s.cut \/ full
  BY <1>1, <1>2 DEF Passing
<1> QED BY <1>3 DEF found, full

LEMMA TimelinePassKeeps ==
    ASSUME JobsAreTrees, NEW r \in LiveJobs, NEW rows \in SUBSET LiveJobs,
           NEW n \in Nat, NEW s, TimelineOK(rows, r, n, s)
    PROVE  TimelineOK(rows, r, n + 1, TimelinePass(rows, s))
<1> DEFINE t == TimelinePass(rows, s)
           kids == ChildrenIn(rows, s.frontier)
<1>1. JobsAreKnown /\ s \in Passing /\ Follows(rows, r, n)
  BY TreesAre, LevelsAre DEF TimelineOK
<1>2. /\ t \in Passing /\ t.tasks = s.tasks \cup t.frontier
      /\ t.frontier = IF s.cut THEN {} ELSE kids
      /\ t.cut <=> s.cut \/ (t.frontier # {} /\ Cardinality(t.tasks) >= MaxTimeline)
  BY <1>1, TimelinePassIs
<1>3. /\ LevelOf(rows, r, n + 1) = ChildrenIn(rows, LevelOf(rows, r, n))
      /\ UpTo(rows, r, n + 1) = UpTo(rows, r, n) \cup LevelOf(rows, r, n + 1)
  BY <1>1 DEF Follows
<1>4. /\ s.tasks \subseteq UpTo(rows, r, n)
      /\ ~s.cut => s.tasks = UpTo(rows, r, n) /\ kids = LevelOf(rows, r, n + 1)
      /\ s.cut => Cardinality(s.tasks) >= MaxTimeline
  BY <1>3 DEF TimelineOK
<1> HIDE DEF t, kids
<1>5. CASE s.cut
  <2>1. t.tasks = s.tasks /\ t.cut
    BY <1>2, <1>5
  <2> QED BY <1>2, <1>3, <1>4, <1>5, <2>1 DEF TimelineOK, t
<1>6. CASE ~s.cut
  <2>1. t.frontier = LevelOf(rows, r, n + 1) /\ t.tasks = UpTo(rows, r, n + 1)
    BY <1>2, <1>3, <1>4, <1>6
  <2>2. t.cut => Cardinality(t.tasks) >= MaxTimeline
    BY <1>2, <1>6
  <2> QED BY <1>2, <2>1, <2>2 DEF TimelineOK, t
<1> QED BY <1>5, <1>6

TimelineIs(rows, r, depth, line) ==
    \E last : /\ TimelineOK(rows, r, depth, last)
              /\ line.tasks = last.tasks
              /\ line.truncated <=> last.cut \/ last.frontier # {}

LEMMA TimelineFinds ==
    ASSUME JobsAreTrees, NEW u, NEW r \in LiveJobs, NEW depth, depth \in Nat
    PROVE  TimelineIs(TreeRowsOf(u, TRUE), r, depth, Timeline(u, r, depth))
<1> DEFINE rows == TreeRowsOf(u, TRUE)
           line == Timeline(u, r, depth)
           first == [tasks |-> {r}, frontier |-> {r}, cut |-> FALSE]
           Step(f) == [n \in 0 .. depth |-> IF n = 0 THEN first ELSE TimelinePass(rows, f[n - 1])]
           pass == CHOOSE f : f = Step(f)
           last == pass[depth]
<1>1. JobsAreKnown /\ LiveJobs \subseteq Jobs /\ rows \in SUBSET LiveJobs
  BY TreesAre DEF TreeRowsOf
<1>2. line = [tasks |-> last.tasks, truncated |-> last.cut \/ last.frontier # {}]
  BY DEF Timeline, TreeRowsOf
<1> HIDE DEF rows
<1>3. first \in Passing
  BY <1>1 DEF Passing
<1>4. pass = Step(pass)
  <2> DEFINE step == [s \in Passing |-> TimelinePass(rows, s)]
  <2>1. step \in [Passing -> Passing]
    <3>1. \A s \in Passing : TimelinePass(rows, s) \in Passing
      BY <1>1, TimelinePassIs
    <3> QED BY <3>1
  <2> HIDE DEF first
  <2>2. \A s \in Passing : step[s] = TimelinePass(rows, s)
    OBVIOUS
  <2> HIDE DEF step
  <2>3. PICK f : f \in [0 .. depth -> Passing] /\ f[0] = first /\ \A n \in 1 .. depth : f[n] = step[f[n - 1]]
    <3>1. \E f : RoundsOf(Passing, first, step, depth, f)
      BY <1>3, <2>1, RoundsExist
    <3> QED BY <3>1 DEF RoundsOf
  <2>4. \A n \in 0 .. depth : f[n] = IF n = 0 THEN first ELSE TimelinePass(rows, f[n - 1])
    <3> SUFFICES ASSUME NEW n \in 0 .. depth, n # 0 PROVE f[n] = TimelinePass(rows, f[n - 1])
      BY <2>3
    <3>1. n \in 1 .. depth /\ n - 1 \in 0 .. depth
      OBVIOUS
    <3>2. f[n - 1] \in Passing
      BY <2>3, <3>1
    <3>3. f[n] = step[f[n - 1]]
      BY <2>3, <3>1
    <3> QED BY <2>2, <3>2, <3>3
  <2>5. f = Step(f)
    <3>1. f = [n \in 0 .. depth |-> f[n]]
      BY <2>3
    <3> QED BY <2>4, <3>1
  <2> HIDE DEF Step
  <2> QED BY <2>5
<1> HIDE DEF pass
<1>5. pass[0] = first /\ \A n \in 1 .. depth : pass[n] = TimelinePass(rows, pass[n - 1])
  <2> HIDE DEF first
  <2>1. \A n \in 0 .. depth : pass[n] = IF n = 0 THEN first ELSE TimelinePass(rows, pass[n - 1])
    BY <1>4
  <2> QED BY <2>1
<1> HIDE DEF Step
<1> DEFINE S == {n \in 0 .. depth : TimelineOK(rows, r, n, pass[n])}
<1>6. 0 \in S
  <2>1. LevelOf(rows, r, 0) = {r} /\ UpTo(rows, r, 0) = {r}
    BY <1>1, LevelsAre
  <2>2. TimelineOK(rows, r, 0, first)
    BY <1>1, <1>3, <2>1 DEF TimelineOK
  <2> HIDE DEF first
  <2> QED BY <1>5, <2>2
<1>7. ASSUME NEW n \in 0 .. depth, n \in S, n < depth PROVE n + 1 \in S
  <2>1. n + 1 \in 1 .. depth /\ (n + 1) - 1 = n /\ n \in Nat /\ n + 1 \in 0 .. depth
    BY <1>7
  <2>2. pass[n + 1] = TimelinePass(rows, pass[n])
    BY <1>5, <2>1
  <2>3. TimelineOK(rows, r, n + 1, TimelinePass(rows, pass[n]))
    BY <1>1, <1>7, <2>1, TimelinePassKeeps
  <2> QED BY <2>1, <2>2, <2>3
<1>8. TimelineOK(rows, r, depth, last)
  <2>1. 0 .. depth \subseteq S
    <3> HIDE DEF S
    <3> QED BY <1>6, <1>7, RoundsKeep
  <2>2. depth \in S
    BY <2>1
  <2> QED BY <2>2
<1> HIDE DEF last, line
<1>9. line.tasks = last.tasks /\ (line.truncated <=> last.cut \/ last.frontier # {})
  BY <1>2
<1>10. TimelineIs(rows, r, depth, line)
  BY <1>8, <1>9 DEF TimelineIs
<1> QED BY <1>10 DEF line, rows

LEMMA TimelinesTell ==
    ASSUME JobsAreTrees, NEW u, NEW r \in LiveJobs, NEW depth \in 0 .. MaxDepth, NEW all,
           all = UpTo(TreeRowsOf(u, TRUE), r, MaxDepth)
    PROVE  TimelineIsHonest(u, r, depth, all)
<1> DEFINE rows == TreeRowsOf(u, TRUE)
           line == Timeline(u, r, depth)
           tree == WholeTree(u, r, depth, TRUE)
<1>1. /\ rows \in SUBSET LiveJobs /\ rows = {j \in LiveJobs : InScope(u, j)}
      /\ depth \in Nat /\ depth \in Depths /\ MaxDepth \in Nat /\ depth <= MaxDepth
  BY ReadsAssumption DEF TreeRowsOf, Depths
<1>2. depth # NoOne /\ Most(depth) = depth
  BY ReadsAssumption DEF Most
<1>3. tree = UpTo(rows, r, depth)
  BY <1>1, <1>2, WholeTreeIs DEF WholeOf
<1> HIDE DEF rows, tree
<1>4. PICK last : /\ TimelineOK(rows, r, depth, last)
                  /\ line.tasks = last.tasks
                  /\ line.truncated <=> last.cut \/ last.frontier # {}
  <2>1. TimelineIs(rows, r, depth, line)
    BY <1>1, TimelineFinds DEF rows
  <2> QED BY <2>1 DEF TimelineIs
<1> HIDE DEF line
<1>5. line.tasks \subseteq tree
  BY <1>3, <1>4 DEF TimelineOK
<1>6. ASSUME Cardinality(tree) < MaxTimeline PROVE line.tasks = tree
  <2>1. IsFiniteSet(tree)
    <3>1. tree \subseteq Jobs /\ IsFiniteSet(Jobs)
      <4>1. JobsAreKnown /\ LiveJobs \subseteq Jobs /\ IsFiniteSet(Jobs)
        BY TreesAre, AccessAssumption
      <4>2. Under(rows, r) \subseteq Branch(r)
        BY <1>1, <4>1, UnderIs
      <4> QED BY <1>3, <4>1, <4>2 DEF UpTo, Branch
    <3> QED BY <3>1, FS_Subset
  <2>2. Cardinality(last.tasks) <= Cardinality(tree) /\ Cardinality(last.tasks) \in Nat
        /\ Cardinality(tree) \in Nat
    BY <1>4, <1>5, <2>1, FS_Subset, FS_CardinalityType
  <2>3. ~last.cut
    BY <1>4, <1>6, <2>2, ReadsAssumption DEF TimelineOK
  <2> QED BY <1>3, <1>4, <2>3 DEF TimelineOK
<1>7. ASSUME ~line.truncated PROVE line.tasks = all
  <2>1. ~last.cut /\ last.frontier = {}
    BY <1>4, <1>7
  <2>2. LevelOf(rows, r, depth) = {} /\ line.tasks = UpTo(rows, r, depth)
    BY <1>4, <2>1 DEF TimelineOK
  <2>3. UpTo(rows, r, depth) = UpTo(rows, r, MaxDepth)
    BY <1>1, <2>2, NothingBelow
  <2> QED BY <2>2, <2>3 DEF rows
<1> QED BY <1>5, <1>6, <1>7 DEF TimelineIsHonest, line, tree

LEMMA SubtreesAreOne ==
    ASSUME JobsAreTrees, NEW u \in DOMAIN role, NEW r \in Openable(u)
    PROVE  SubtreesAgree(u, r)
<1> DEFINE open == TreeRowsOf(u, TRUE)
           today == TreeRowsOf(u, FALSE)
           all  == WholeTree(u, r, NoOne, TRUE)
           now  == WholeTree(u, r, NoOne, FALSE)
           docs == DocumentTasks(u, r)
<1>1. JobsAreKnown /\ r \in LiveJobs /\ CanView(u, r) /\ InScope(u, r)
  BY TreesAre, ListsShowWhatOpens DEF Openable, ListedIsOpen
<1>2. /\ open \in SUBSET LiveJobs /\ today \in SUBSET open
      /\ open = {j \in LiveJobs : InScope(u, j)}
      /\ today = {j \in Current : InScope(u, j)}
  BY DEF TreeRowsOf, Current
<1>3. MaxDepth \in Nat /\ NoOne \in Depths /\ Most(NoOne) = MaxDepth
  BY ReadsAssumption DEF Depths, Most
<1>4. all = UpTo(open, r, MaxDepth) /\ now = UpTo(today, r, MaxDepth)
  BY <1>1, <1>3, WholeTreeIs DEF WholeOf
<1>5. Dashboard(u, r, TRUE) = all
  <2>1. Dashboard(u, r, TRUE) = Traversed(open, {r}, MaxDepth)
    BY DEF Dashboard, TreeRowsOf, Traversed
  <2> HIDE DEF all, open
  <2> QED BY <1>1, <1>2, <1>3, <1>4, <2>1, LevelsFind
<1>6. Dashboard(u, r, FALSE) = now
  <2>1. Dashboard(u, r, FALSE) = Traversed(today, {r}, MaxDepth)
    BY DEF Dashboard, TreeRowsOf, Traversed
  <2>2. today \in SUBSET LiveJobs
    BY <1>2
  <2> HIDE DEF now, today
  <2> QED BY <1>1, <1>3, <1>4, <2>1, <2>2, LevelsFind
<1>7. ASSUME r \in Current PROVE TaskGantt(u, r, NoOne) = now
  <2> DEFINE visible == {j \in Current : InScope(u, j)}
             first == {r} \cap visible
  <2>1. TaskGantt(u, r, NoOne) = Traversed(visible, first, MaxDepth)
    BY DEF TaskGantt, Traversed
  <2>2. first = {r} /\ visible = today /\ today \in SUBSET LiveJobs
    BY <1>1, <1>2, <1>7
  <2> HIDE DEF now, first, visible, today
  <2> QED BY <1>1, <1>3, <1>4, <2>1, <2>2, LevelsFind
<1>8. \A depth \in 0 .. MaxDepth : TimelineIsHonest(u, r, depth, all)
  <2> HIDE DEF all
  <2> QED BY <1>1, <1>2, <1>3, <1>4, TimelinesTell
<1> HIDE DEF open, today, all, now, docs
<1>9. all \subseteq Under(open, r) /\ now \subseteq Under(today, r)
  BY <1>4 DEF UpTo
<1>10. \A d \in Under(open, r) : d \in Branch(r) /\ InScope(u, d)
  <2>1. Under(open, r) \subseteq Branch(r) /\ \A d \in Under(open, r) \ {r} : d \in open
    BY <1>1, <1>2, UnderIs
  <2> QED BY <1>1, <1>2, <2>1
<1>11. \A d \in Under(today, r) : d \in Branch(r) /\ InScope(u, d)
  <2>1. today \in SUBSET LiveJobs
    BY <1>2
  <2>2. Under(today, r) \subseteq Branch(r) /\ \A d \in Under(today, r) \ {r} : d \in today
    BY <1>1, <2>1, UnderIs
  <2> QED BY <1>1, <1>2, <2>2
<1>12. docs = {d \in Branch(r) : d \in Current /\ InScope(u, d)}
  BY <1>1, SubtreeIsBranch DEF docs, DocumentTasks
<1>13. now \cap Current \subseteq docs
  BY <1>9, <1>11, <1>12
<1>14. all \cup docs \subseteq KanbanBelow(u, r)
  <2>1. all \cup docs \subseteq {d \in Branch(r) : InScope(u, d)}
    BY <1>9, <1>10, <1>12
  <2> QED BY <2>1 DEF KanbanBelow, KanbanTasks, Branch
<1>15. ASSUME Manages(u, r) \/ CanViewAll(u)
       PROVE  all = {j \in Branch(r) : Generation(j) <= Generation(r) + MaxDepth}
  <2>1. \A d \in Branch(r) : InScope(u, d)
    <3>1. ASSUME Manages(u, r), NEW d \in Branch(r) PROVE InScope(u, d)
      <4>1. Manages(u, d) /\ d \in LiveJobs
        BY <1>1, <3>1, ManagersReachDown DEF Branch
      <4>2. CanView(u, d)
        BY <4>1, ManagersSee
      <4> QED BY <1>1, <4>1, <4>2, ListsShowWhatOpens DEF ListedIsOpen
    <3>2. CanViewAll(u) => \A d \in Branch(r) : InScope(u, d)
      BY DEF InScope
    <3> QED BY <1>15, <3>1, <3>2
  <2>2. Branch(r) \subseteq open
    BY <1>2, <2>1 DEF Branch
  <2>3. Under(open, r) = Branch(r)
    BY <1>1, <1>2, <2>2, WholeBranches
  <2> QED BY <1>4, <2>3 DEF UpTo
<1> QED BY <1>5, <1>6, <1>7, <1>8, <1>13, <1>14, <1>15 DEF SubtreesAgree, all, now, docs

-----------------------------------------------------------------------------
(***************************************************************************)
(* The mindmap: a task is hidden that the walk of the impact map does not  *)
(* reach.                                                                  *)
(***************************************************************************)
OpenEdges(tasks) == {e \in tasks \X tasks : job[e[2]].parent = e[1] /\ ~job[e[1]].folded}

Shown(tasks, r) == Reached(tasks, OpenEdges(tasks), {r})

LEMMA ShownIs ==
    ASSUME JobsAreTrees, NEW r \in LiveJobs, NEW tasks \in SUBSET Branch(r), r \in tasks,
           \A j \in tasks \ {r} : job[j].parent \in tasks
    PROVE  /\ r \in Shown(tasks, r) /\ Shown(tasks, r) \subseteq tasks
           /\ \A j \in tasks \ {r} :
                 j \in Shown(tasks, r) <=> job[j].parent \in Shown(tasks, r) /\ ~job[job[j].parent].folded
<1> DEFINE E == OpenEdges(tasks)
           R == {r}
           W == Reached(tasks, E, R)
<1>1. R \in SUBSET tasks
  OBVIOUS
<1> HIDE DEF R
<1>2. /\ R \subseteq W /\ W \subseteq tasks /\ Joins(tasks, E, W) \subseteq W
      /\ \A T \in SUBSET tasks : R \subseteq T /\ Joins(tasks, E, T) \subseteq T => W \subseteq T
  <2> HIDE DEF E
  <2> QED BY <1>1, ReachedIs
<1> HIDE DEF W
<1>3. ASSUME NEW j \in tasks \ {r}, job[j].parent \in W, ~job[job[j].parent].folded PROVE j \in W
  <2>1. <<job[j].parent, j>> \in E
    BY <1>2, <1>3 DEF OpenEdges
  <2> QED BY <1>2, <1>3, <2>1 DEF Joins
<1>4. ASSUME NEW j \in tasks \ {r}, j \in W PROVE job[j].parent \in W /\ ~job[job[j].parent].folded
  <2> SUFFICES ASSUME ~(job[j].parent \in W /\ ~job[job[j].parent].folded) PROVE FALSE
    OBVIOUS
  <2> DEFINE T == W \ {j}
  <2>1. T \in SUBSET tasks /\ R \subseteq T
    BY <1>2, <1>4 DEF R
  <2>2. ASSUME NEW c \in Joins(tasks, E, T) PROVE c \in T
    <3>1. PICK p \in T : c \in tasks /\ <<p, c>> \in E
      BY DEF Joins
    <3>2. job[c].parent = p /\ ~job[p].folded
      BY <3>1 DEF OpenEdges
    <3>3. c \in W
      BY <1>2, <3>1 DEF Joins
    <3>4. c # j
      BY <3>1, <3>2
    <3> QED BY <3>3, <3>4
  <2>3. W \subseteq T
    <3> HIDE DEF T
    <3> QED BY <1>2, <2>1, <2>2
  <2> QED BY <1>4, <2>3
<1>5. Shown(tasks, r) = W
  BY DEF Shown, W, R
<1> QED BY <1>2, <1>3, <1>4, <1>5 DEF R

LEMMA MapsAreOne ==
    ASSUME JobsAreTrees, NEW u, NEW r \in LiveJobs
    PROVE  MapsAgree(u, r)
<1> SUFFICES ASSUME NEW n \in Limits
             PROVE  /\ ImpactTasks(u, r, NoOne, n, TRUE) = Mindmap(u, r, NoOne, n, TRUE)
                    /\ MindmapEdges(u, r, NoOne, n, TRUE) =
                          {<<job[j].parent, j>> : j \in Mindmap(u, r, NoOne, n, TRUE) \ {r}}
  BY DEF MapsAgree
<1> DEFINE tree == Tree(u, r, NoOne, n, TRUE)
           tasks == tree.tasks
           E == OpenEdges(tasks)
           W == Shown(tasks, r)
<1>1. /\ r \in tasks /\ tasks \in SUBSET Branch(r) /\ Branch(r) \subseteq Jobs
      /\ \A j \in tasks \ {r} : job[j].parent \in tasks
  <2>1. n \in Nat \ {0} /\ NoOne \in Depths
    BY ReadsAssumption DEF Depths
  <2>2. TreeIsFound(u, r, NoOne, n, TRUE, tree)
    BY <2>1, TreeFinds
  <2>3. WholeOf(u, r, NoOne, TRUE) \subseteq Branch(r)
    <3>1. TreeRowsOf(u, TRUE) \in SUBSET LiveJobs
      BY DEF TreeRowsOf
    <3>2. Under(TreeRowsOf(u, TRUE), r) \subseteq Branch(r)
      BY <3>1, UnderIs
    <3> QED BY <3>2 DEF WholeOf, UpTo
  <2>4. Branch(r) \subseteq Jobs
    BY TreesAre DEF Branch
  <2> HIDE DEF tree
  <2> QED BY <2>2, <2>3, <2>4 DEF TreeIsFound
<1>2. ImpactTasks(u, r, NoOne, n, TRUE) =
         LET walk[shown \in SUBSET Jobs] ==
                LET next == {c \in tasks : \E p \in shown : job[c].parent = p /\ ~job[p].folded}
                IN  IF next \subseteq shown THEN shown ELSE walk[shown \cup next]
         IN  walk[{r}]
  BY DEF ImpactTasks
<1>3. Mindmap(u, r, NoOne, n, TRUE) =
         LET hidden[j \in tasks] ==
                j # r /\ LET p == job[j].parent IN job[p].folded \/ hidden[p]
         IN  {j \in tasks : ~hidden[j]}
  BY DEF Mindmap
<1>4. MindmapEdges(u, r, NoOne, n, TRUE) =
         {<<job[c].parent, c>> : c \in {c \in tasks \ {r} : /\ job[c].parent \in Mindmap(u, r, NoOne, n, TRUE)
                                                            /\ ~job[job[c].parent].folded}}
  BY DEF MindmapEdges
<1> HIDE DEF tree, tasks, W
<1>5. /\ r \in W /\ W \subseteq tasks
      /\ \A j \in tasks \ {r} : j \in W <=> job[j].parent \in W /\ ~job[job[j].parent].folded
  BY <1>1, ShownIs DEF W
<1>6. Mindmap(u, r, NoOne, n, TRUE) = W
  <2> DEFINE Step(f) == [j \in tasks |-> j # r /\ (job[job[j].parent].folded \/ f[job[j].parent])]
             hidden == CHOOSE f : f = Step(f)
             found == [j \in tasks |-> j \notin W]
  <2>1. Mindmap(u, r, NoOne, n, TRUE) = {j \in tasks : ~hidden[j]}
    BY <1>3
  <2>2. found = Step(found)
    <3> SUFFICES ASSUME NEW j \in tasks
                 PROVE  (j \notin W) = (j # r /\ (job[job[j].parent].folded \/ found[job[j].parent]))
      OBVIOUS
    <3>1. j # r => (found[job[j].parent] <=> job[j].parent \notin W)
      BY <1>1
    <3> HIDE DEF found
    <3> QED BY <1>5, <3>1
  <2>3. hidden = Step(hidden)
    <3> HIDE DEF Step, found
    <3> QED BY <2>2
  <2> HIDE DEF hidden
  <2>4. \A j \in tasks : hidden[j] <=> j # r /\ (job[job[j].parent].folded \/ hidden[job[j].parent])
    BY <2>3
  <2> HIDE DEF Step
  <2> DEFINE B == {j \in tasks : ~(hidden[j] <=> j \notin W)}
  <2>5. B = {}
    <3> SUFFICES ASSUME B # {} PROVE FALSE
      OBVIOUS
    <3>1. B \in SUBSET LiveJobs
      BY <1>1 DEF Branch
    <3>2. \A j \in B : j \in tasks /\ ~(hidden[j] <=> j \notin W)
      OBVIOUS
    <3>3. \A j \in tasks : j \notin B => (hidden[j] <=> j \notin W)
      OBVIOUS
    <3> HIDE DEF B
    <3>4. PICK j \in B : job[j].parent \notin B
      BY <3>1, TreesAre
    <3>5. j # r
      BY <1>5, <2>4, <3>2
    <3>6. hidden[job[j].parent] <=> job[j].parent \notin W
      BY <1>1, <3>2, <3>3, <3>4, <3>5
    <3> QED BY <1>5, <2>4, <3>2, <3>5, <3>6
  <2> QED BY <1>5, <2>1, <2>5
<1>7. ImpactTasks(u, r, NoOne, n, TRUE) = W
  <2> DEFINE Next1(S) == {c \in tasks : \E p \in S : job[c].parent = p /\ ~job[p].folded}
             Step(f) == [S \in SUBSET Jobs |-> IF Next1(S) \subseteq S THEN S ELSE f[S \cup Next1(S)]]
             walk == CHOOSE f : f = Step(f)
             F == {e \in Jobs \X tasks : job[e[2]].parent = e[1] /\ ~job[e[1]].folded}
             found == [S \in SUBSET Jobs |-> Reached(Jobs, F, S)]
  <2>1. ImpactTasks(u, r, NoOne, n, TRUE) = walk[{r}]
    BY <1>2
  <2>2. \A S \in SUBSET Jobs : Next1(S) = Joins(Jobs, F, S) /\ S \cup Next1(S) \in SUBSET Jobs
    BY <1>1 DEF Joins
  <2> HIDE DEF Next1, F
  <2>3. found = Step(found)
    <3> SUFFICES ASSUME NEW S \in SUBSET Jobs
                 PROVE  found[S] = IF Next1(S) \subseteq S THEN S ELSE found[S \cup Next1(S)]
      OBVIOUS
    <3>1. found[S] = Reached(Jobs, F, S)
      OBVIOUS
    <3>2. found[S \cup Next1(S)] = Reached(Jobs, F, S \cup Next1(S))
      BY <2>2
    <3> HIDE DEF found
    <3> QED BY <2>2, <3>1, <3>2, ReachedIs
  <2>4. walk = Step(walk)
    <3> HIDE DEF Step, found
    <3> QED BY <2>3
  <2> HIDE DEF walk
  <2>5. \A S \in SUBSET Jobs : walk[S] = IF Next1(S) \subseteq S THEN S ELSE walk[S \cup Next1(S)]
    BY <2>4
  <2> HIDE DEF Step
  <2>6. IsWalk(Jobs, F, walk)
    BY <2>2, <2>5 DEF IsWalk
  <2> DEFINE R == {r}
             V == Reached(Jobs, F, R)
  <2>7. R \in SUBSET Jobs /\ R \subseteq W
    BY <1>1, <1>5
  <2> HIDE DEF R
  <2>8. walk[R] = V
    BY <2>6, <2>7, AccessAssumption, WalksFind
  <2>9. /\ R \subseteq V /\ V \subseteq Jobs /\ Joins(Jobs, F, V) \subseteq V
        /\ \A T \in SUBSET Jobs : R \subseteq T /\ Joins(Jobs, F, T) \subseteq T => V \subseteq T
    BY <2>7, ReachedIs
  <2> HIDE DEF V
  <2>10. V \subseteq W
    <3>1. W \in SUBSET Jobs
      BY <1>1, <1>5
    <3>2. ASSUME NEW c \in Joins(Jobs, F, W) PROVE c \in W
      <4>1. PICK p \in W : c \in tasks /\ job[c].parent = p /\ ~job[p].folded
        BY DEF Joins, F
      <4> QED BY <1>5, <4>1
    <3> QED BY <2>7, <2>9, <3>1, <3>2
  <2>11. W \subseteq V
    <3> DEFINE T == V \cap tasks
    <3>1. T \in SUBSET tasks /\ R \subseteq T
      BY <1>1, <2>9 DEF R
    <3>2. ASSUME NEW c \in Joins(tasks, OpenEdges(tasks), T) PROVE c \in T
      <4>1. PICK p \in T : c \in tasks /\ job[c].parent = p /\ ~job[p].folded
        BY DEF Joins, OpenEdges
      <4>2. c \in Joins(Jobs, F, V)
        BY <1>1, <4>1 DEF Joins, F
      <4> QED BY <2>9, <4>1, <4>2
    <3>3. R \in SUBSET tasks
      BY <3>1
    <3> HIDE DEF T
    <3>4. Reached(tasks, OpenEdges(tasks), R) \subseteq T
      BY <3>1, <3>2, <3>3, ReachedIs
    <3> QED BY <3>4 DEF W, Shown, R, T
  <2> QED BY <2>1, <2>8, <2>10, <2>11 DEF R
<1>8. MindmapEdges(u, r, NoOne, n, TRUE) = {<<job[j].parent, j>> : j \in W \ {r}}
  <2>1. {c \in tasks \ {r} : job[c].parent \in W /\ ~job[job[c].parent].folded} = W \ {r}
    BY <1>5
  <2> QED BY <1>4, <1>6, <2>1
<1> QED BY <1>6, <1>7, <1>8

LEMMA ListsAreOne ==
    ASSUME JobsAreKnown, NEW u \in DOMAIN role
    PROVE  ListsAgree(u)
<1> DEFINE open == {j \in LiveJobs : InScope(u, j)}
<1>1. Openable(u) = open
  BY ListsShowWhatOpens DEF ListedIsOpen, Openable
<1>2. /\ open = List(u, TRUE) /\ open = KanbanTasks(u)
      /\ open = Scheduled(u) /\ open = GanttRows(u) /\ open = Checked(u)
  BY DEF List, KanbanTasks, Scheduled, GanttRows, Checked
<1>3. {j \in List(u, FALSE) : u \in job[j].team} \ Parents(u) = AssignedLeaves(u)
  <2>1. \A j : u \in job[j].team => InScope(u, j)
    BY DEF InScope
  <2>2. List(u, FALSE) = {j \in Current : InScope(u, j)}
    BY DEF List, Current
  <2> QED BY <2>1, <2>2 DEF Parents, AssignedLeaves
<1> HIDE DEF open
<1> QED BY <1>1, <1>2, <1>3 DEF ListsAgree

LEMMA ReadsAreOne ==
    ASSUME JobsAreTrees
    PROVE  ReadsAgree
<1>1. JobsAreKnown
  BY TreesAre
<1>2. \A u \in DOMAIN role : \A r \in Openable(u) : r \in LiveJobs
  BY DEF Openable
<1> QED BY <1>1, <1>2, ListsAreOne, SubtreesAreOne, TreesTell, MapsAreOne DEF ReadsAgree

-----------------------------------------------------------------------------
(***************************************************************************)
(* Requests keep the tasks in trees.                                       *)
(***************************************************************************)
AccessInv == AccessTypeOK /\ TreeIn(job)

LEMMA InvariantIsTrees ==
    ASSUME AccessInv
    PROVE  JobsAreTrees
BY DEF AccessInv, AccessTypeOK, JobsAreTrees, JobsAreKnown

LEMMA TreeGrows ==
    ASSUME NEW w, TreeIn(w), NEW v, NEW j, j \notin LiveOf(w), j # NoOne,
           LiveOf(v) = LiveOf(w) \cup {j}, v[j].parent \in LiveOf(w) \cup {NoOne},
           \A i \in LiveOf(w) : v[i].parent = w[i].parent
    PROVE  TreeIn(v)
<1>1. \A i \in LiveOf(v) : v[i].parent \in LiveOf(w) \cup {NoOne}
  BY DEF TreeIn
<1>2. ASSUME NEW S \in SUBSET LiveOf(v), S # {} PROVE \E i \in S : v[i].parent \notin S
  <2>1. CASE S \subseteq {j}
    BY <1>1, <1>2, <2>1
  <2>2. CASE ~(S \subseteq {j})
    <3>1. S \ {j} \in SUBSET LiveOf(w) /\ S \ {j} # {}
      BY <2>2
    <3>2. PICK i \in S \ {j} : w[i].parent \notin S \ {j}
      BY <3>1 DEF TreeIn
    <3>3. i \in LiveOf(w) /\ v[i].parent = w[i].parent
      BY <3>1
    <3>4. v[i].parent # j
      BY <1>1, <3>3
    <3> QED BY <3>2, <3>3, <3>4
  <2> QED BY <2>1, <2>2
<1> QED BY <1>1, <1>2 DEF TreeIn

LEMMA TreeStays ==
    ASSUME NEW w, TreeIn(w), NEW v, LiveOf(v) \subseteq LiveOf(w),
           \A i \in LiveOf(v) :
              v[i].parent = w[i].parent /\ w[i].parent \in LiveOf(v) \cup {NoOne}
    PROVE  TreeIn(v)
<1>1. ASSUME NEW S \in SUBSET LiveOf(v), S # {} PROVE \E i \in S : v[i].parent \notin S
  <2>1. PICK i \in S : w[i].parent \notin S
    BY <1>1 DEF TreeIn
  <2> QED BY <2>1
<1> QED BY <1>1 DEF TreeIn

\* Above the new parent is not the task that moves.
LEMMA TreeMoves ==
    ASSUME JobsAreTrees, NEW j \in LiveJobs, NEW p \in (LiveJobs \cup {NoOne}) \ Branch(j),
           NEW v, LiveOf(v) = LiveJobs, v[j].parent = p,
           \A i \in LiveJobs \ {j} : v[i].parent = job[i].parent
    PROVE  TreeIn(v)
<1>1. /\ JobsAreKnown /\ NoOne \notin LiveJobs
      /\ \A i \in LiveJobs : job[i].parent \in LiveJobs \cup {NoOne}
      /\ \A S \in SUBSET LiveJobs : S # {} => \E i \in S : job[i].parent \notin S
  BY TreesAre
<1>2. \A i \in LiveOf(v) : v[i].parent \in LiveOf(v) \cup {NoOne}
  BY <1>1
<1>3. ASSUME NEW S \in SUBSET LiveOf(v), \A i \in S : v[i].parent \in S PROVE S = {}
  <2>1. CASE j \notin S
    BY <1>1, <1>3, <2>1
  <2>2. CASE j \in S
    <3>1. p \in S /\ p \in LiveJobs /\ j \notin Ancestors(p)
      BY <1>1, <1>3, <2>2 DEF Branch
    <3> DEFINE T == S \cap Ancestors(p)
    <3>2. p \in T /\ T \in SUBSET LiveJobs /\ j \notin T
      BY <1>1, <3>1, AncestorsAre
    <3>3. ASSUME NEW i \in T PROVE job[i].parent \in T
      <4>1. i \in S /\ i \in LiveJobs \ {j} /\ i \in Ancestors(p)
        BY <3>2
      <4>2. job[i].parent \in S /\ job[i].parent \in LiveJobs
        BY <1>3, <4>1
      <4>3. job[i].parent \in Ancestors(p)
        BY <1>1, <3>1, <4>1, <4>2, AncestorsAre
      <4> QED BY <4>2, <4>3
    <3> HIDE DEF T
    <3> QED BY <1>1, <3>2, <3>3
  <2> QED BY <2>1, <2>2
<1> QED BY <1>2, <1>3 DEF TreeIn

LEMMA RowsPut ==
    ASSUME AccessTypeOK, NEW rows, DOMAIN rows \subseteq Jobs, \A i \in DOMAIN rows : rows[i] \in Job,
           PutAll(rows), changes' \in 0 .. MaxChanges
    PROVE  /\ AccessTypeOK' /\ DOMAIN job' = DOMAIN job \cup DOMAIN rows
           /\ \A i \in DOMAIN rows : job'[i] = rows[i]
           /\ \A i \in DOMAIN job \ DOMAIN rows : job'[i] = job[i]
<1>1. /\ DOMAIN job' = DOMAIN job \cup DOMAIN rows
      /\ \A i \in DOMAIN rows : job'[i] = rows[i]
      /\ \A i \in DOMAIN job \ DOMAIN rows : job'[i] = job[i]
      /\ role' = role /\ owner' = owner /\ office' = office
  BY DEF PutAll
<1>2. DOMAIN job' \subseteq Jobs /\ \A i \in DOMAIN job' : job'[i] \in Job
  BY <1>1 DEF AccessTypeOK
<1> QED BY <1>1, <1>2 DEF AccessTypeOK

LEMMA RowPut ==
    ASSUME AccessTypeOK, NEW j \in Jobs, NEW row \in Job, Put(j, row), changes' \in 0 .. MaxChanges
    PROVE  /\ AccessTypeOK' /\ DOMAIN job' = DOMAIN job \cup {j} /\ job'[j] = row
           /\ \A i \in DOMAIN job \ {j} : job'[i] = job[i]
<1> DEFINE rows == [i \in {j} |-> row]
<1>1. DOMAIN rows = {j} /\ rows[j] = row /\ PutAll(rows)
  BY DEF Put
<1> HIDE DEF rows
<1> QED BY <1>1, RowsPut

LEMMA ChangesAreCounted ==
    ASSUME AccessTypeOK, Changing
    PROVE  changes' \in 0 .. MaxChanges
BY AccessAssumption DEF AccessTypeOK, Changing

\* A task that stays where it is.
LEMMA EditKeeps ==
    ASSUME AccessInv, Changing, NEW j \in LiveJobs, NEW row \in Job, Put(j, row),
           row.parent = job[j].parent, ~row.gone
    PROVE  AccessInv'
<1>1. /\ AccessTypeOK' /\ DOMAIN job' = DOMAIN job \cup {j} /\ job'[j] = row
      /\ \A i \in DOMAIN job \ {j} : job'[i] = job[i]
  BY InvariantIsTrees, TreesAre, RowPut, ChangesAreCounted DEF AccessInv
<1>2. LiveOf(job') = LiveJobs /\ LiveOf(job) = LiveJobs
  BY <1>1 DEF LiveOf, LiveJobs
<1>3. \A i \in LiveJobs : job'[i].parent = job[i].parent /\ job[i].parent \in LiveJobs \cup {NoOne}
  BY <1>1, InvariantIsTrees, TreesAre DEF LiveJobs
<1>4. TreeIn(job')
  BY <1>2, <1>3, TreeStays DEF AccessInv
<1> QED BY <1>1, <1>4 DEF AccessInv

LEMMA NewJobKeeps ==
    ASSUME AccessInv, NEW u \in People, NEW j \in Jobs, NEW p \in LiveJobs \cup {NoOne}, NEW team,
           NewJob(u, j, p, team)
    PROVE  AccessInv'
<1> DEFINE row == [parent |-> p, source |-> p # NoOne, reportee |-> u, team |-> team,
                   gone |-> FALSE, replaced |-> NoOne, folded |-> FALSE]
<1>1. /\ LiveJobs \subseteq Jobs /\ LiveOf(job) = LiveJobs /\ NoOne \notin Jobs
      /\ j \notin DOMAIN job /\ team \subseteq DOMAIN role /\ changes' = changes /\ Put(j, row)
  BY InvariantIsTrees, TreesAre, AccessAssumption DEF NewJob, LiveOf, LiveJobs
<1>2. row \in Job /\ row.parent = p /\ ~row.gone
  <2>1. p \in Jobs \cup {NoOne} /\ team \in SUBSET People /\ (p # NoOne) \in BOOLEAN
    BY <1>1 DEF AccessInv, AccessTypeOK
  <2> QED BY <2>1 DEF Job
<1>3. changes' \in 0 .. MaxChanges
  BY <1>1 DEF AccessInv, AccessTypeOK
<1> HIDE DEF row
<1>4. /\ AccessTypeOK' /\ DOMAIN job' = DOMAIN job \cup {j} /\ job'[j] = row
      /\ \A i \in DOMAIN job \ {j} : job'[i] = job[i]
  BY <1>1, <1>2, <1>3, RowPut DEF AccessInv
<1>5. LiveOf(job') = LiveOf(job) \cup {j} /\ j \notin LiveOf(job) /\ j # NoOne
  BY <1>1, <1>2, <1>4 DEF LiveOf
<1>6. \A i \in LiveOf(job) : job'[i].parent = job[i].parent
  BY <1>1, <1>4 DEF LiveOf
<1>7. job'[j].parent \in LiveOf(job) \cup {NoOne}
  BY <1>1, <1>2, <1>4
<1>8. TreeIn(job')
  BY <1>5, <1>6, <1>7, TreeGrows DEF AccessInv
<1> QED BY <1>4, <1>8 DEF AccessInv

LEMMA MoveJobKeeps ==
    ASSUME AccessInv, NEW u, NEW j \in LiveJobs, NEW p, MoveJob(u, j, p)
    PROVE  AccessInv'
<1> DEFINE row == [job[j] EXCEPT !.parent = p]
<1>1. /\ JobsAreTrees /\ LiveJobs \subseteq Jobs /\ LiveOf(job) = LiveJobs
      /\ p \in (LiveJobs \cup {NoOne}) \ Branch(j) /\ Put(j, row) /\ Changing
  BY InvariantIsTrees, TreesAre DEF MoveJob, LiveOf, LiveJobs
<1>2. row \in Job /\ row.parent = p /\ ~row.gone
  <2>1. job[j] \in Job /\ ~job[j].gone /\ p \in Jobs \cup {NoOne}
    BY <1>1 DEF AccessInv, AccessTypeOK, LiveJobs
  <2> QED BY <2>1 DEF Job
<1> HIDE DEF row
<1>3. /\ AccessTypeOK' /\ DOMAIN job' = DOMAIN job \cup {j} /\ job'[j] = row
      /\ \A i \in DOMAIN job \ {j} : job'[i] = job[i]
  BY <1>1, <1>2, RowPut, ChangesAreCounted DEF AccessInv
<1>4. LiveOf(job') = LiveJobs
  BY <1>2, <1>3 DEF LiveOf, LiveJobs
<1>5. \A i \in LiveJobs \ {j} : job'[i].parent = job[i].parent
  BY <1>3 DEF LiveJobs
<1>6. job'[j].parent = p
  BY <1>2, <1>3
<1>7. TreeIn(job')
  BY <1>1, <1>4, <1>5, <1>6, TreeMoves
<1> QED BY <1>3, <1>7 DEF AccessInv

\* With a task go all that are below it.
LEMMA DeleteJobKeeps ==
    ASSUME AccessInv, NEW u, NEW j \in LiveJobs, DeleteJob(u, j)
    PROVE  AccessInv'
<1> DEFINE rows == [d \in Branch(j) |-> [job[d] EXCEPT !.gone = TRUE]]
<1>1. /\ JobsAreKnown /\ LiveJobs \subseteq Jobs /\ LiveOf(job) = LiveJobs
      /\ \A i \in LiveJobs : job[i].parent \in LiveJobs \cup {NoOne}
      /\ Branch(j) \subseteq LiveJobs
  BY InvariantIsTrees, TreesAre DEF LiveOf, LiveJobs, Branch
<1>2. PutAll(rows) /\ Changing
  BY DEF DeleteJob
<1>3. DOMAIN rows = Branch(j) /\ \A d \in Branch(j) : rows[d] \in Job /\ rows[d].gone
  <2>1. \A d \in Branch(j) : job[d] \in Job
    BY <1>1 DEF AccessInv, AccessTypeOK, LiveJobs
  <2> QED BY <2>1 DEF Job
<1> HIDE DEF rows
<1>4. /\ AccessTypeOK' /\ DOMAIN job' = DOMAIN job \cup Branch(j)
      /\ \A i \in Branch(j) : job'[i] = rows[i]
      /\ \A i \in DOMAIN job \ Branch(j) : job'[i] = job[i]
  BY <1>1, <1>2, <1>3, RowsPut, ChangesAreCounted DEF AccessInv
<1>5. LiveOf(job') = LiveJobs \ Branch(j)
  BY <1>1, <1>3, <1>4 DEF LiveOf, LiveJobs
<1>6. ASSUME NEW i \in LiveJobs \ Branch(j)
      PROVE  job'[i].parent = job[i].parent /\ job[i].parent \notin Branch(j)
  <2>1. job[i].parent \in Branch(j) => i \in Branch(j)
    BY <1>1, AncestorsAre DEF Branch
  <2> QED BY <1>4, <2>1 DEF LiveJobs
<1>7. TreeIn(job')
  <2>1. LiveOf(job') \subseteq LiveOf(job)
    BY <1>1, <1>5
  <2>2. \A i \in LiveOf(job') :
           job'[i].parent = job[i].parent /\ job[i].parent \in LiveOf(job') \cup {NoOne}
    BY <1>1, <1>5, <1>6
  <2> QED BY <2>1, <2>2, TreeStays DEF AccessInv
<1> QED BY <1>4, <1>7 DEF AccessInv

LEMMA SetRoleKeeps ==
    ASSUME AccessInv, NEW u \in People, NEW r \in MemberRoles \cup {NoOne}, SetRole(u, r)
    PROVE  AccessInv'
<1>1. changes' \in 0 .. MaxChanges
  BY ChangesAreCounted DEF SetRole, AccessInv
<1>2. DOMAIN role' \subseteq People /\ \A v \in DOMAIN role' : role'[v] \in MemberRoles
  <2>1. CASE r = NoOne
    BY <2>1 DEF SetRole, AccessInv, AccessTypeOK
  <2>2. CASE r # NoOne
    <3>1. r \in MemberRoles /\ role' = [v \in DOMAIN role \cup {u} |-> IF v = u THEN r ELSE role[v]]
      BY <2>2 DEF SetRole
    <3> QED BY <3>1 DEF AccessInv, AccessTypeOK
  <2> QED BY <2>1, <2>2
<1>3. owner' = owner /\ office' = office /\ job' = job
  BY DEF SetRole
<1> QED BY <1>1, <1>2, <1>3 DEF AccessInv, AccessTypeOK

LEMMA AccessInvNext == AccessInv /\ [AccessNext]_accessVars => AccessInv'
<1> SUFFICES ASSUME AccessInv, [AccessNext]_accessVars PROVE AccessInv'
  OBVIOUS
<1>1. \A j \in LiveJobs : job[j] \in Job /\ ~job[j].gone /\ j \in Jobs
  BY DEF AccessInv, AccessTypeOK, LiveJobs
<1>2. DOMAIN role \subseteq People
  BY DEF AccessInv, AccessTypeOK
<1>3. ASSUME NEW u \in People, NEW j \in Jobs, NEW p, NEW team,
             CreateJob(u, j, p, team) \/ BranchJob(u, j, p, team)
      PROVE  AccessInv'
  <2>1. NewJob(u, j, p, team) /\ p \in LiveJobs \cup {NoOne}
    BY <1>3 DEF CreateJob, BranchJob
  <2> QED BY <2>1, NewJobKeeps
<1>4. ASSUME NEW u, NEW j \in LiveJobs, NEW v, SetReportee(u, j, v) PROVE AccessInv'
  <2> DEFINE row == [job[j] EXCEPT !.reportee = v]
  <2>1. v \in People /\ Put(j, row) /\ Changing
    BY <1>2, <1>4 DEF SetReportee
  <2>2. row \in Job /\ row.parent = job[j].parent /\ ~row.gone
    BY <1>1, <2>1 DEF Job
  <2> HIDE DEF row
  <2> QED BY <2>1, <2>2, EditKeeps
<1>5. ASSUME NEW u, NEW j \in LiveJobs, NEW team, SetTeam(u, j, team) PROVE AccessInv'
  <2> DEFINE row == [job[j] EXCEPT !.team = team]
  <2>1. team \in SUBSET People /\ Put(j, row) /\ Changing
    BY <1>2, <1>5 DEF SetTeam
  <2>2. row \in Job /\ row.parent = job[j].parent /\ ~row.gone
    BY <1>1, <2>1 DEF Job
  <2> HIDE DEF row
  <2> QED BY <2>1, <2>2, EditKeeps
<1>6. ASSUME NEW u, NEW j \in LiveJobs, HandBack(u, j) PROVE AccessInv'
  <2> DEFINE v == job[job[j].parent].reportee
             row == [job[j] EXCEPT !.reportee = v]
  <2>1. v \in People /\ Put(j, row) /\ Changing
    BY <1>2, <1>6 DEF HandBack
  <2> HIDE DEF v
  <2>2. row \in Job /\ row.parent = job[j].parent /\ ~row.gone
    BY <1>1, <2>1 DEF Job
  <2> HIDE DEF row
  <2> QED BY <2>1, <2>2, EditKeeps
<1>7. ASSUME NEW u, NEW j \in LiveJobs, NEW k \in LiveJobs, SupersedeJob(u, j, k) PROVE AccessInv'
  <2> DEFINE row == [job[j] EXCEPT !.replaced = k]
  <2>1. k \in Jobs /\ Put(j, row) /\ Changing
    BY <1>1, <1>7 DEF SupersedeJob
  <2>2. row \in Job /\ row.parent = job[j].parent /\ ~row.gone
    BY <1>1, <2>1 DEF Job
  <2> HIDE DEF row
  <2> QED BY <2>1, <2>2, EditKeeps
<1>8. ASSUME NEW u, NEW j \in LiveJobs, FoldJob(u, j) PROVE AccessInv'
  <2> DEFINE folds == ~job[j].folded
             row == [job[j] EXCEPT !.folded = folds]
  <2>1. folds \in BOOLEAN /\ Put(j, row) /\ Changing
    BY <1>8 DEF FoldJob
  <2> HIDE DEF folds
  <2>2. row \in Job /\ row.parent = job[j].parent /\ ~row.gone
    BY <1>1, <2>1 DEF Job
  <2> HIDE DEF row
  <2> QED BY <2>1, <2>2, EditKeeps
<1>9. ASSUME UNCHANGED accessVars PROVE AccessInv'
  BY <1>9 DEF accessVars, AccessInv, AccessTypeOK
<1> QED
  BY <1>3, <1>4, <1>5, <1>6, <1>7, <1>8, <1>9, SetRoleKeeps, MoveJobKeeps, DeleteJobKeeps
     DEF AccessNext

LEMMA AccessInvInit == AccessInit => AccessInv
<1> SUFFICES ASSUME AccessInit PROVE AccessInv
  OBVIOUS
<1>1. PICK P \in SUBSET People : role \in [P -> MemberRoles]
  BY DEF AccessInit
<1>2. job = <<>> /\ owner \in People /\ changes = 0
  BY DEF AccessInit
<1>w. PICK W \in SUBSET People : office \in [W -> WorkspaceRoles]
  BY DEF AccessInit
<1>3. DOMAIN job = {}
  BY <1>2, NoRows
<1>4. AccessTypeOK
  BY <1>1, <1>2, <1>3, <1>w, AccessAssumption DEF AccessTypeOK
<1>5. TreeIn(job)
  BY <1>3 DEF TreeIn, LiveOf
<1> QED BY <1>4, <1>5 DEF AccessInv

LEMMA AccessInvHolds == AccessSpec => []AccessInv
BY AccessInvInit, AccessInvNext, PTL DEF AccessSpec

\* Members have roles and tasks have rows of their types, whatever requests
\* are served.
THEOREM AccessIsTyped == AccessSpec => []AccessTypeOK
<1>1. AccessInv => AccessTypeOK
  BY DEF AccessInv
<1> QED BY <1>1, AccessInvHolds, PTL

\* Whatever the tasks of a project, its members and what they have moved,
\* deleted, superseded and folded: what the lists, the trees, the dashboard,
\* the gantt, the timeline, the documents and the maps show is one picture,
\* and a tree that does not say it was cut is whole.
THEOREM ReadsAlwaysAgree == AccessSpec => []ReadsAgree
<1>1. AccessInv => ReadsAgree
  BY InvariantIsTrees, ReadsAreOne
<1> QED BY <1>1, AccessInvHolds, PTL
=============================================================================
