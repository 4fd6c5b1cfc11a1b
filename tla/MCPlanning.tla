----------------------------- MODULE MCPlanning -----------------------------
(***************************************************************************)
(* Small instances of what surrounds the work on tasks: the order of the   *)
(* cards, dependencies and relations, who may do what to a task, what      *)
(* reads show of it, and the sheets that make tasks. Each behaviour is of  *)
(* one of them, chosen at the start, while the others stay as they are:    *)
(* they share no variable. The board is taken apart likewise: the columns  *)
(* of items, the list of a task, and the tasks.                            *)
(***************************************************************************)
EXTENDS Board, Dependencies, TaskReads, ScheduleImport, TLC

VARIABLE component

planVars == <<component, boardVars, linkVars, accessVars, importVars>>

-----------------------------------------------------------------------------
\* A member who may do all, one who may create only, and one whose role was
\* disabled.
MCEverything == {"create", "update", "delete", "requests"}
MCMemberRoles ==
    {[enabled |-> TRUE, may |-> MCEverything, all |-> FALSE],
     [enabled |-> TRUE, may |-> {"create"}, all |-> FALSE],
     [enabled |-> FALSE, may |-> MCEverything, all |-> TRUE]}

\* An administrator of the workspace, one whose role was disabled, and a member
\* with permissions there: what the reader may be who is no member of the project,
\* or one who may create only.
MCWorkspaceRoles ==
    {[admin |-> TRUE, enabled |-> on, may |-> {}] : on \in BOOLEAN}
        \cup {[admin |-> FALSE, enabled |-> TRUE, may |-> {"member", "view", "update"}]}

MCSymmetry == Permutations(Nodes) \cup Permutations(Linkers)

AnyOf(S) == CHOOSE s \in S : TRUE

-----------------------------------------------------------------------------
(***************************************************************************)
(* The sheets: single activities, two with a dependency, a tree upside     *)
(* down, one stage in two phases, one code on two levels, one that is      *)
(* refused, and two of the other kind, the second with a code on two       *)
(* levels.                                                                 *)
(***************************************************************************)
One == <<1>>
Two == <<1, 1>>
Three == <<1, 1, 1>>
Four == <<1, 1, 1, 1>>
Five == <<1, 1, 1, 1, 1>>

MCCodes == {One, Two, Three, Four, Five}

Row(path, after, span) == [path |-> path, after |-> after, days |-> span]
Activities(rows) == [kind |-> "activities", rows |-> rows]
Wbs(rows) == [kind |-> "wbs", rows |-> rows]

MCSheets ==
    {Activities(<<Row(<<One, Two, Three>>, NoCode, 2)>>),
     Activities(<<Row(<<One, Two, Three>>, NoCode, 1), Row(<<One, Two, Four>>, Three, 1)>>),
     Activities(<<Row(<<Three, Two, One>>, NoCode, 1)>>),
     Activities(<<Row(<<One, Two, Three>>, NoCode, 1), Row(<<Five, Two, Four>>, NoCode, 1)>>),
     Activities(<<Row(<<One, Two, One>>, NoCode, 1)>>),
     Activities(<<Row(<<One, Two, Three>>, NoCode, 1), Row(<<Four, Two, Three>>, NoCode, 1)>>),
     Wbs(<<Row(<<One, Two, Three, Four>>, NoCode, 0)>>),
     Wbs(<<Row(<<One, Two, Three, Four>>, NoCode, 0), Row(<<One, Two, Four, Five>>, NoCode, 0)>>)}

-----------------------------------------------------------------------------
(***************************************************************************)
(* The projects the reads start from: all of Jobs is there, in any tree,   *)
(* one task may be folded and one superseded.  The reader may be the       *)
(* reportee of any and assigned to one; the other is the owner, who sees   *)
(* all.                                                                    *)
(***************************************************************************)
Reader == AnyOf(People)

MCTeams == {{}, {Reader}}

MCTrees == {up \in [Jobs -> Jobs \cup {NoOne}] : \A j \in Jobs : up[j] = NoOne \/ up[j] < j}

\* The task that is replaced and the one that replaces it, or none.
MCReplaced == {<<NoOne, NoOne>>} \cup {pair \in Jobs \X Jobs : pair[1] # pair[2]}

MCProjects ==
    {[j \in Jobs |->
        [parent |-> up[j], source |-> FALSE, reportee |-> who[j],
         team |-> IF j = busy THEN {Reader} ELSE {}, gone |-> FALSE,
         replaced |-> IF j = pair[1] THEN pair[2] ELSE NoOne, folded |-> j = folded]] :
     up \in MCTrees, who \in [Jobs -> People], pair \in MCReplaced,
     busy \in Jobs \cup {NoOne}, folded \in Jobs \cup {NoOne}}

ReadsInit ==
    /\ role \in [People -> {CHOOSE r \in MemberRoles : r.may = {"create"}}]
    /\ owner \in People \ {Reader}
    /\ office = <<>>
    /\ job \in MCProjects
    /\ changes = MaxChanges

\* The one state of the others while a component runs.
NobodysJobs == role = <<>> /\ owner = Reader /\ office = <<>> /\ job = <<>> /\ changes = MaxChanges

NoBoard == column = <<>> /\ rank = <<>> /\ created = <<>> /\ entry = <<>>

PlanInit ==
    /\ ImportInit
    /\ \/ /\ component \in {"columns", "lists", "cards"}
          /\ BoardInit /\ LinksInit /\ live = {} /\ NobodysJobs
          /\ Cardinality(DOMAIN column) <= IF component = "lists" THEN 2 ELSE 1
          /\ component = "cards" => DOMAIN column = {}
          /\ component = "columns" => \A i \in DOMAIN entry : entry[i] = [list |-> AnyOf(Lists), index |-> 0]
          /\ component = "lists" => \A i \in DOMAIN entry : rank[i] = NoRank /\ column[i] = AnyOf(Columns)
       \/ /\ component \in {"dependencies", "relations", "points"}
          /\ NoBoard /\ LinksInit /\ NobodysJobs
          /\ component # "dependencies" => live = Nodes
       \/ /\ component = "access"
          /\ NoBoard /\ LinksInit /\ live = {} /\ AccessInit
          /\ owner # Reader /\ DOMAIN office \subseteq {Reader}
          /\ \A u \in DOMAIN office \cap DOMAIN role : role[u].may = {"create"}
          /\ owner \in DOMAIN role => role[owner].may = MCEverything /\ role[owner].enabled
       \/ /\ component = "reads"
          /\ NoBoard /\ LinksInit /\ live = {} /\ ReadsInit
       \/ /\ component = "imports"
          /\ NoBoard /\ LinksInit /\ live = {} /\ NobodysJobs

ColumnsNext ==
    \E i \in Items, k \in Columns :
       \/ \E n \in GivenRanks \cup {NoRank} : AddItem(i, AnyOf(Lists), k, 0, n) \/ UpdateRank(i, n)
       \/ \E before, after \in Items \cup {Nobody} : MoveItem(i, k, before, after)
       \/ DeleteItem(i)
       \/ RollUp(i, k)

ListsNext ==
    \E i \in Items :
       \/ \E l \in Lists, index \in 0 .. MaxIndex : AddItem(i, l, AnyOf(Columns), index, NoRank)
       \/ \E l \in Lists : AppendItem(i, l, AnyOf(Columns))
       \/ \E index \in 0 .. MaxIndex : UpdateIndex(i, index)
       \/ DeleteItem(i)

BoardStep ==
    /\ \/ component = "columns" /\ ColumnsNext
       \/ component = "lists" /\ ListsNext
       \/ component = "cards" /\ TasksNext
    /\ UNCHANGED <<component, linkVars, accessVars, importVars>>

\* After a save on what others have changed nothing is promised any more.
LinksStep ==
    /\ ~outrun
    /\ \/ component = "dependencies" /\ DependenciesNext
       \/ component = "relations" /\ RelationsNext
       \/ component = "points" /\ PointsNext
    /\ UNCHANGED <<component, boardVars, accessVars, importVars>>

AccessStep ==
    component = "access" /\ AccessNext /\ UNCHANGED <<component, boardVars, linkVars, importVars>>

ImportStep ==
    component = "imports" /\ ImportNext /\ UNCHANGED <<component, boardVars, linkVars, accessVars>>

PlanNext == BoardStep \/ LinksStep \/ AccessStep \/ ImportStep

PlanSpec == PlanInit /\ [][PlanNext]_planVars

-----------------------------------------------------------------------------
\* Every variable of the five has its type.
PlanTypeOK == BoardTypeOK /\ LinksTypeOK /\ AccessTypeOK /\ ImportTypeOK
=============================================================================
