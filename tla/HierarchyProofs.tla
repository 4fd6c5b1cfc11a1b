--------------------------- MODULE HierarchyProofs ---------------------------
(***************************************************************************)
(* The hierarchy of a project is sound, for any number of tasks, users and *)
(* overlapping requests, and so is the progress of its tasks.              *)
(*                                                                         *)
(* Nothing is proved by induction over the tree.  What is above or below a *)
(* task is what every set that is closed under parents, or children, must  *)
(* hold; a move makes no cycle because the part of a cycle outside the     *)
(* moved subtree would be one already; and a stage is derived again by the *)
(* rollup, which is right for completed tasks because a step takes nothing *)
(* from them and puts nothing below them.                                  *)
(***************************************************************************)
EXTENDS TaskHierarchy, Progress, FiniteSetTheorems, WellFoundedInduction, TLAPS

-----------------------------------------------------------------------------
(***************************************************************************)
(* Trees, read through closed sets.                                        *)
(***************************************************************************)
LEMMA LowestStage ==
    ASSUME NEW W, W \subseteq Stages
    PROVE  /\ reduceStages(W) \in {TODO} \cup W /\ reduceStages(W) \in Stages
           /\ reduceStages(W) = DONE <=> W = {DONE}
<1>1. Stages = {TODO, IN_PROGRESS, IN_REVIEW, DONE}
  BY DEF Stages, TODO, IN_PROGRESS, IN_REVIEW, DONE
<1>2. CASE W = {}
  BY <1>1, <1>2 DEF reduceStages, TODO, DONE
<1>3. CASE W # {}
  <2>1. \E s \in W : \A t \in W : s <= t
    <3>1. \A s, t \in W : s \in 1 .. 4 /\ t \in 1 .. 4
      BY <1>1 DEF TODO, IN_PROGRESS, IN_REVIEW, DONE
    <3>2. CASE 1 \in W
      BY <3>1, <3>2
    <3>3. CASE 2 \in W /\ 1 \notin W
      BY <3>1, <3>3
    <3>4. CASE 3 \in W /\ 1 \notin W /\ 2 \notin W
      BY <3>1, <3>4
    <3>5. CASE 1 \notin W /\ 2 \notin W /\ 3 \notin W
      BY <1>3, <3>1, <3>5
    <3> QED
      BY <3>2, <3>3, <3>4, <3>5
  <2>2. PICK s \in W : s = reduceStages(W) /\ \A t \in W : s <= t
    BY <1>3, <2>1 DEF reduceStages
  <2>3. s = DONE => W = {DONE}
    <3>1. \A t \in W : t \in 1 .. 4
      BY <1>1 DEF TODO, IN_PROGRESS, IN_REVIEW, DONE
    <3>2. s = DONE => \A t \in W : t = DONE
      BY <2>2, <3>1 DEF DONE
    <3> QED
      BY <2>2, <3>2
  <2> QED
    BY <1>1, <2>2, <2>3
<1> QED
  BY <1>2, <1>3

LEMMA ChainHolds ==
    ASSUME NEW t \in Tasks
    PROVE  t \in Chain(t) /\ (parent[t] \in Tasks => parent[t] \in Chain(t))
BY DEF Chain

\* The tasks on the way up from an open one are live and not done.
LEMMA OpenHierarchy ==
    ASSUME NEW t \in ParentOf, assertOpenHierarchy(t)
    PROVE  t # NoTask => /\ t \in live /\ stage[t] # DONE
                         /\ parent[t] \in Tasks => parent[t] \in live /\ stage[parent[t]] # DONE
BY ChainHolds DEF assertOpenHierarchy

LEMMA SubtreeHolds ==
    ASSUME NEW t \in Tasks
    PROVE  /\ t \in Subtree(t) /\ Subtree(t) \subseteq Tasks
           /\ \A c \in live : c \in Tasks /\ parent[c] \in Subtree(t) => c \in Subtree(t)
BY DEF Subtree

\* Below a task hangs only what hangs from it, or from what is below it.
LEMMA SubtreeIsLeast ==
    ASSUME live \subseteq Tasks, NEW t \in Tasks, NEW d \in Subtree(t), d # t
    PROVE  d \in live /\ parent[d] \in Subtree(t)
<1> SUFFICES ASSUME ~(d \in live /\ parent[d] \in Subtree(t)) PROVE FALSE
  OBVIOUS
<1> DEFINE S == Subtree(t) \ {d}
<1>1. t \in S /\ S \in SUBSET Tasks
  BY SubtreeHolds
<1>2. ASSUME NEW c \in live, parent[c] \in S PROVE c \in S
  <2>1. c \in Subtree(t)
    BY <1>1, <1>2 DEF Subtree
  <2> QED
    BY <1>2, <2>1
<1>3. \A x \in Subtree(t) : \A T \in SUBSET Tasks :
          t \in T /\ (\A c \in live : parent[c] \in T => c \in T) => x \in T
  BY DEF Subtree
<1>4. d \in S
  <2> HIDE DEF S
  <2> QED
    BY <1>1, <1>2, <1>3
<1> QED
  BY <1>4

\* A task that moves to where nothing below it is makes no cycle, ...
LEMMA MovesAreSafe ==
    ASSUME NEW t \in live, NEW q, live \subseteq Tasks, parent \in [Tasks -> ParentOf],
           Acyclic(live, parent), NotDescendant(t, q)
    PROVE  Acyclic(live, [parent EXCEPT ![t] = q])
<1> DEFINE par == [parent EXCEPT ![t] = q]
<1> SUFFICES ASSUME NEW C \in SUBSET live, C # {}, \A c \in C : par[c] \in C
             PROVE  FALSE
  BY DEF Acyclic
<1>1. par[t] = q /\ \A c \in live : c # t => par[c] = parent[c]
  OBVIOUS
<1> HIDE DEF par
<1>2. t \in C
  BY <1>1 DEF Acyclic
<1>3. q \in C /\ q \notin Subtree(t)
  BY <1>1, <1>2 DEF NotDescendant
<1> DEFINE D == C \ Subtree(t)
<1>4. D \in SUBSET live /\ D # {}
  BY <1>3
<1>5. \A c \in D : parent[c] \in D
  BY <1>1, SubtreeHolds
<1> HIDE DEF D
<1> QED
  BY <1>4, <1>5 DEF Acyclic

LEMMA MovesRollUp ==
    ASSUME NEW t \in live, NEW q, live \subseteq Tasks, parent \in [Tasks -> ParentOf],
           RollsUp(live, parent), link[t] = NoTask, NotDescendant(t, q)
    PROVE  RollsUp(live, [parent EXCEPT ![t] = q])
<1> DEFINE par == [parent EXCEPT ![t] = q]
<1>1. Acyclic(live, par)
  BY MovesAreSafe DEF RollsUp
<1>2. NoTask \notin live
  BY TasksAssumption
<1>3. LinksValid(live, par, link)
  BY <1>2 DEF RollsUp, LinksValid
<1> QED
  BY <1>1, <1>3 DEF RollsUp

\* ... and one that goes with all below it leaves no branch of what stays.
LEMMA DeletionsRollUp ==
    ASSUME NEW t \in live, live \subseteq Tasks, RollsUp(live, parent), link[t] = NoTask
    PROVE  RollsUp(live \ Subtree(t), parent)
<1>1. Acyclic(live \ Subtree(t), parent)
  BY DEF RollsUp, Acyclic
<1>2. ASSUME NEW d \in Tasks, link[d] \in live \ Subtree(t)
      PROVE  d \in live \ Subtree(t) /\ parent[d] = link[d]
  <2>1. d \in live /\ parent[d] = link[d]
    BY <1>2 DEF RollsUp, LinksValid
  <2>2. d # t
    BY <1>2, TasksAssumption
  <2> QED
    BY <1>2, <2>1, <2>2, SubtreeIsLeast
<1> QED
  BY <1>1, <1>2 DEF RollsUp, LinksValid

-----------------------------------------------------------------------------
(***************************************************************************)
(* The hierarchy.                                                          *)
(*                                                                         *)
(* What a supersession has read is an unpaired pair.  As long as no row    *)
(* was overwritten, the rows form a forest that every rollup accepts, a    *)
(* task that does not exist yet is neither parent nor source of a branch,  *)
(* and each stage is what the work below makes it.                         *)
(***************************************************************************)
Created == live \cup deleted

PairsAreUnpaired ==
    \A r \in loaded :
        r.old # r.new /\ r.oldRow.supersededBy = NoTask /\ r.newRow.supersedes = NoTask

NewTasksAreOpen == \A t \in Tasks \ Created : stage[t] = TODO

NewTasksAreUnknown ==
    \A t \in Tasks : parent[t] \in Created \cup {NoTask} /\ link[t] \in Created \cup {NoTask}

FreshTree ==
    /\ NewTasksAreUnknown
    /\ \A t \in live : parent[t] \in live \cup {NoTask}
    /\ RollsUp(live, parent)
    /\ \A t \in live : stage[t] = reduceStages(Work(t, live, parent, own, stage))
    /\ SupersessionIsOneToOne

HierarchyInv ==
    /\ TypeOK /\ PairsAreUnpaired /\ NewTasksAreOpen
    /\ ~overwritten => FreshTree

\* A step takes nothing from a completed task and puts nothing below it.
KeepsDone ==
    \A t \in live : stage[t] = DONE =>
        /\ t \in live' /\ parent'[t] = parent[t] /\ own'[t] = own[t]
        /\ \A c \in Tasks : c \in live' /\ parent'[c] = t <=> c \in live /\ parent[c] = t

\* ... and it stays completed.
DoneStays == KeepsDone /\ \A t \in live : stage[t] = DONE => stage'[t] = DONE

-----------------------------------------------------------------------------
LEMMA StagesStay ==
    ASSUME NEW ow \in [Tasks -> SUBSET Stages], NEW before \in [Tasks -> Stages]
    PROVE  StagesAround(ow, before) \subseteq Stages
<1>1. TODO \in Stages
  BY DEF TODO, Stages, DONE
<1> QED
  BY <1>1 DEF StagesAround

\* What a rollup leaves behind, and what it presupposes.
LEMMA RolledUp ==
    ASSUME stage \in [Tasks -> Stages], own' \in [Tasks -> SUBSET Stages], live' \subseteq Tasks,
           Rollup(live', parent', link', own', stage)
    PROVE  /\ Acyclic(live', parent') /\ LinksValid(live', parent', link')
           /\ stage' \in [Tasks -> Stages]
           /\ \A t \in Tasks \ live' : stage'[t] = stage[t]
           /\ \A t \in live' : stage'[t] = IF stage[t] = DONE THEN DONE
                                         ELSE reduceStages(Work(t, live', parent', own', stage'))
<1>1. /\ Acyclic(live', parent') /\ LinksValid(live', parent', link')
      /\ stage' \in [Tasks -> StagesAround(own', stage)]
      /\ \A t \in Tasks : IF t \in live' THEN Visited(t, live', parent', own', stage, stage')
                          ELSE stage'[t] = stage[t]
  BY DEF Rollup
<1>2. StagesAround(own', stage) \subseteq Stages
  BY StagesStay
<1>3. stage' \in [Tasks -> Stages]
  BY <1>1, <1>2
<1> QED
  BY <1>1, <1>3 DEF Visited

\* If all that is done before is done after, with the same work, every stage is derived.
LEMMA StatusIsRolledUp ==
    ASSUME HierarchyInv, ~overwritten, live' \subseteq Tasks,
           own' \in [Tasks -> SUBSET Stages], Rollup(live', parent', link', own', stage),
           \A t \in live' \ live : stage[t] # DONE, KeepsDone
    PROVE  \A t \in live' : stage'[t] = reduceStages(Work(t, live', parent', own', stage'))
<1>1. stage \in [Tasks -> Stages] /\ own \in [Tasks -> SUBSET Stages] /\ live \subseteq Tasks
  BY DEF HierarchyInv, TypeOK
<1>2. /\ stage' \in [Tasks -> Stages]
      /\ \A t \in live' : stage'[t] = IF stage[t] = DONE THEN DONE
                                      ELSE reduceStages(Work(t, live', parent', own', stage'))
  BY <1>1, RolledUp
<1> SUFFICES ASSUME NEW t \in live', stage[t] = DONE
             PROVE  DONE = reduceStages(Work(t, live', parent', own', stage'))
  BY <1>2
<1>3. /\ t \in live /\ own'[t] = own[t]
      /\ \A c \in Tasks : c \in live' /\ parent'[c] = t <=> c \in live /\ parent[c] = t
  BY DEF KeepsDone
<1>4. Work(t, live, parent, own, stage) = {DONE}
  <2>1. Work(t, live, parent, own, stage) \subseteq Stages
    BY <1>1, <1>3 DEF Work
  <2>2. reduceStages(Work(t, live, parent, own, stage)) = DONE
    BY <1>3 DEF HierarchyInv, FreshTree
  <2> QED
    BY <2>1, <2>2, LowestStage
<1>5. Work(t, live', parent', own', stage') = {DONE}
  <2>1. \A c \in live' : parent'[c] = t => stage'[c] = DONE
    BY <1>1, <1>2, <1>3, <1>4 DEF Work
  <2>2. own'[t] \subseteq {DONE}
    BY <1>3, <1>4 DEF Work
  <2>3. DONE \in own'[t] \/ \E c \in live' : parent'[c] = t
    BY <1>1, <1>3, <1>4 DEF Work
  <2> QED
    BY <2>1, <2>2, <2>3 DEF Work
<1>6. {DONE} \subseteq Stages
  BY DEF Stages, DONE, TODO
<1> QED
  BY <1>5, <1>6, LowestStage

\* All that is left to show of a step that ends in a rollup.
LEMMA RollupKeepsInv ==
    ASSUME HierarchyInv, live' \subseteq Tasks, deleted' \subseteq Tasks,
           parent' \in [Tasks -> ParentOf], reportee' \in [Tasks -> Users \cup {NoUser}],
           own' \in [Tasks -> SUBSET Stages], link' \in [Tasks -> ParentOf],
           admitted' \subseteq admitted, Rollup(live', parent', link', own', stage),
           \A t \in live' \ live : stage[t] # DONE, KeepsDone,
           Created \subseteq live' \cup deleted',
           ~overwritten => /\ \A t \in live' : parent'[t] \in live' \cup {NoTask}
                           /\ \A t \in Tasks : /\ parent'[t] \in live' \cup deleted' \cup {NoTask}
                                               /\ link'[t] \in live' \cup deleted' \cup {NoTask},
           UNCHANGED <<supersededBy, supersedes, members, loaded, overwritten>>
    PROVE  HierarchyInv' /\ DoneStays
<1>1. /\ stage \in [Tasks -> Stages] /\ loaded' = loaded /\ overwritten' = overwritten
      /\ supersededBy' = supersededBy /\ supersedes' = supersedes /\ members' = members
  BY DEF HierarchyInv, TypeOK
<1>2. /\ stage' \in [Tasks -> Stages] /\ Acyclic(live', parent')
      /\ LinksValid(live', parent', link')
      /\ \A t \in Tasks \ live' : stage'[t] = stage[t]
      /\ \A t \in live' : stage[t] = DONE => stage'[t] = DONE
  BY <1>1, RolledUp
<1>3. TypeOK'
  BY <1>1, <1>2 DEF HierarchyInv, TypeOK
<1>4. PairsAreUnpaired'
  BY <1>1 DEF HierarchyInv, PairsAreUnpaired
<1>5. NewTasksAreOpen'
  BY <1>2 DEF HierarchyInv, NewTasksAreOpen, Created
<1>6. ASSUME ~overwritten' PROVE FreshTree'
  <2>1. \A t \in live' : stage'[t] = reduceStages(Work(t, live', parent', own', stage'))
    BY <1>1, <1>6, StatusIsRolledUp
  <2>2. SupersessionIsOneToOne'
    BY <1>1, <1>6 DEF HierarchyInv, FreshTree, SupersessionIsOneToOne
  <2>3. NewTasksAreUnknown'
    BY <1>1, <1>6 DEF NewTasksAreUnknown, Created
  <2>4. (\A t \in live : stage[t] = reduceStages(Work(t, live, parent, own, stage)))'
    BY <2>1
  <2>5. RollsUp(live, parent)'
    BY <1>2 DEF RollsUp
  <2> QED
    BY <1>1, <1>6, <2>2, <2>3, <2>4, <2>5 DEF FreshTree
<1>7. DoneStays
  BY <1>2 DEF KeepsDone, DoneStays
<1> QED
  BY <1>3, <1>4, <1>5, <1>6, <1>7 DEF HierarchyInv

-----------------------------------------------------------------------------
(***************************************************************************)
(* Creating and branching.                                                 *)
(***************************************************************************)
\* What every step may use of the types.
LEMMA TreeTypes ==
    ASSUME HierarchyInv
    PROVE  /\ live \subseteq Tasks /\ deleted \subseteq Tasks /\ NoTask \notin Tasks
           /\ parent \in [Tasks -> ParentOf] /\ link \in [Tasks -> ParentOf]
           /\ stage \in [Tasks -> Stages] /\ own \in [Tasks -> SUBSET Stages]
           /\ reportee \in [Tasks -> Users \cup {NoUser}] /\ members \subseteq Users
           /\ admitted \subseteq [user : Users, parent : ParentOf]
BY TasksAssumption DEF HierarchyInv, TypeOK

LEMMA TodoIsAStage == {TODO} \subseteq Stages /\ TODO # DONE
BY DEF TODO, Stages, DONE

LEMMA TaskIsInserted ==
    ASSUME HierarchyInv, NEW t, NEW u \in Users, NEW p \in ParentOf,
           assertOpenHierarchy(p), Insert(t, u, p), own' \in [Tasks -> SUBSET Stages],
           \A x \in Tasks : x # t /\ stage[x] = DONE => own'[x] = own[x],
           Rollup(live', parent', link', own', stage), admitted' \subseteq admitted
    PROVE  HierarchyInv' /\ DoneStays
<1>1. /\ t \in Tasks /\ t \notin live /\ t \notin deleted
      /\ live' = live \cup {t} /\ deleted' = deleted
      /\ parent' = [parent EXCEPT ![t] = p] /\ reportee' = [reportee EXCEPT ![t] = u]
      /\ link' = [link EXCEPT ![t] = p]
      /\ UNCHANGED <<supersededBy, supersedes, members, loaded, overwritten>>
  BY DEF Insert
<1>2. p # NoTask => p \in live /\ stage[p] # DONE
  BY OpenHierarchy
<1>3. \A x \in live' \ live : stage[x] # DONE
  BY <1>1, TodoIsAStage DEF HierarchyInv, NewTasksAreOpen, Created
<1>4. KeepsDone
  BY <1>1, <1>2, TreeTypes DEF KeepsDone
<1>5. ~overwritten => /\ \A x \in live' : parent'[x] \in live' \cup {NoTask}
                      /\ \A x \in Tasks : /\ parent'[x] \in live' \cup deleted' \cup {NoTask}
                                          /\ link'[x] \in live' \cup deleted' \cup {NoTask}
  BY <1>1, <1>2, TreeTypes DEF HierarchyInv, FreshTree, NewTasksAreUnknown, Created
<1>6. /\ live' \subseteq Tasks /\ deleted' \subseteq Tasks /\ parent' \in [Tasks -> ParentOf]
      /\ link' \in [Tasks -> ParentOf] /\ reportee' \in [Tasks -> Users \cup {NoUser}]
      /\ Created \subseteq live' \cup deleted'
  BY <1>1, TreeTypes DEF Created
<1> QED
  BY <1>1, <1>3, <1>4, <1>5, <1>6, RollupKeepsInv

LEMMA TaskIsCreated ==
    ASSUME HierarchyInv, NEW r \in admitted, NEW t \in Tasks, Create(r, t)
    PROVE  HierarchyInv' /\ DoneStays
<1>1. r.user \in Users /\ r.parent \in ParentOf
  BY TreeTypes
<1>2. PICK w \in FirstWork : own' = [own EXCEPT ![t] = w]
  BY DEF Create
<1>3. w \in SUBSET Stages
  BY TodoIsAStage DEF FirstWork
<1>4. own' \in [Tasks -> SUBSET Stages] /\ \A x \in Tasks : x # t => own'[x] = own[x]
  BY <1>2, <1>3, TreeTypes
<1>5. /\ assertOpenHierarchy(r.parent) /\ Insert(t, r.user, r.parent)
      /\ Rollup(live', parent', link', own', stage) /\ admitted' \subseteq admitted
  BY DEF Create
<1> QED
  BY <1>1, <1>4, <1>5, TaskIsInserted

LEMMA TaskIsBranched ==
    ASSUME HierarchyInv, NEW u \in Users, NEW p \in Tasks, NEW t \in Tasks, Branch(u, p, t)
    PROVE  HierarchyInv' /\ DoneStays
<1>1. PICK s \in own[p] \ {IN_REVIEW, DONE}, w \in FirstWork :
        \E rest \in {own[p], own[p] \ {s}} : own' = [own EXCEPT ![p] = rest, ![t] = w]
  BY DEF Branch
<1>2. PICK rest \in {own[p], own[p] \ {s}} : own' = [own EXCEPT ![p] = rest, ![t] = w]
  BY <1>1
<1>3. w \in SUBSET Stages /\ rest \in SUBSET Stages
  BY TodoIsAStage, TreeTypes DEF FirstWork
<1>4. p \in live /\ stage[p] # DONE
  BY OpenHierarchy, TasksAssumption DEF Branch, ParentOf
<1>5. /\ own' \in [Tasks -> SUBSET Stages]
      /\ \A x \in Tasks : x # t /\ stage[x] = DONE => own'[x] = own[x]
  BY <1>2, <1>3, <1>4, TreeTypes
<1>6. /\ assertOpenHierarchy(p) /\ Insert(t, u, p) /\ p \in ParentOf
      /\ Rollup(live', parent', link', own', stage) /\ admitted' \subseteq admitted
  BY DEF Branch, ParentOf
<1> QED
  BY <1>5, <1>6, TaskIsInserted

-----------------------------------------------------------------------------
(***************************************************************************)
(* Moving, deleting and working.                                           *)
(***************************************************************************)
LEMMA TaskIsMoved ==
    ASSUME HierarchyInv, NEW t \in Tasks, NEW q \in ParentOf, Reparent(t, q)
    PROVE  HierarchyInv' /\ DoneStays
<1>1. /\ parent' = [parent EXCEPT ![t] = q] /\ live' = live /\ deleted' = deleted
      /\ own' = own /\ link' = link /\ reportee' = reportee /\ admitted' = admitted
      /\ UNCHANGED <<supersededBy, supersedes, members, loaded, overwritten>>
      /\ Rollup(live, parent', link, own, stage)
      /\ assertOpenHierarchy(t) /\ assertOpenHierarchy(q)
  BY DEF Reparent, MayMove, pending
<1>2. /\ t \in live /\ stage[t] # DONE
      /\ parent[t] \in Tasks => stage[parent[t]] # DONE
      /\ q # NoTask => q \in live /\ stage[q] # DONE
  BY <1>1, OpenHierarchy, TasksAssumption DEF ParentOf
<1>3. KeepsDone
  BY <1>1, <1>2, TreeTypes DEF KeepsDone
<1>4. Rollup(live', parent', link', own', stage)
  BY <1>1
<1>5. parent' \in [Tasks -> ParentOf] /\ Created \subseteq live' \cup deleted'
  BY <1>1, TreeTypes DEF Created
<1>6. ~overwritten => /\ \A x \in live' : parent'[x] \in live' \cup {NoTask}
                      /\ \A x \in Tasks : /\ parent'[x] \in live' \cup deleted' \cup {NoTask}
                                          /\ link'[x] \in live' \cup deleted' \cup {NoTask}
  BY <1>1, <1>2, TreeTypes DEF HierarchyInv, FreshTree, NewTasksAreUnknown, Created
<1>7. /\ live' \subseteq Tasks /\ deleted' \subseteq Tasks /\ own' \in [Tasks -> SUBSET Stages]
      /\ link' \in [Tasks -> ParentOf] /\ reportee' \in [Tasks -> Users \cup {NoUser}]
      /\ admitted' \subseteq admitted /\ \A x \in live' \ live : stage[x] # DONE
  BY <1>1, TreeTypes
<1> QED
  BY <1>1, <1>3, <1>4, <1>5, <1>6, <1>7, RollupKeepsInv

LEMMA SubtreeIsDeleted ==
    ASSUME HierarchyInv, NEW t \in Tasks, Delete(t)
    PROVE  HierarchyInv' /\ DoneStays
<1>1. /\ live' = live \ Subtree(t) /\ deleted' = deleted \cup Subtree(t)
      /\ parent' = parent /\ own' = own /\ link' = link /\ reportee' = reportee
      /\ admitted' = admitted
      /\ UNCHANGED <<supersededBy, supersedes, members, loaded, overwritten>>
      /\ Rollup(live', parent, link, own, stage)
      /\ assertOpenHierarchy(t) /\ \A d \in Subtree(t) : stage[d] # DONE
  BY DEF Delete, MayDelete, Deletable, pending
<1>2. /\ t \in live /\ stage[t] # DONE
      /\ parent[t] \in Tasks => stage[parent[t]] # DONE
  BY <1>1, OpenHierarchy, TasksAssumption DEF ParentOf
<1>3. Subtree(t) \subseteq Tasks
  BY SubtreeHolds
<1>4. \A c \in live : parent[c] \in Subtree(t) => c \in Subtree(t)
  BY SubtreeHolds, TreeTypes
<1>5. ASSUME NEW x \in live, stage[x] = DONE, NEW c \in Subtree(t) PROVE parent[c] # x
  <2>1. CASE c = t
    BY <1>2, <1>5, <2>1, TreeTypes
  <2>2. CASE c # t
    BY <1>1, <1>5, <2>2, SubtreeIsLeast, TreeTypes
  <2> QED
    BY <2>1, <2>2
<1>6. KeepsDone
  BY <1>1, <1>3, <1>5 DEF KeepsDone
<1>7. Rollup(live', parent', link', own', stage)
  BY <1>1
<1>8. Created \subseteq live' \cup deleted'
  BY <1>1 DEF Created
<1>9. ~overwritten => /\ \A x \in live' : parent'[x] \in live' \cup {NoTask}
                      /\ \A x \in Tasks : /\ parent'[x] \in live' \cup deleted' \cup {NoTask}
                                          /\ link'[x] \in live' \cup deleted' \cup {NoTask}
  BY <1>1, <1>4 DEF HierarchyInv, FreshTree, NewTasksAreUnknown, Created
<1>10. /\ live' \subseteq Tasks /\ deleted' \subseteq Tasks /\ own' \in [Tasks -> SUBSET Stages]
       /\ parent' \in [Tasks -> ParentOf]
       /\ link' \in [Tasks -> ParentOf] /\ reportee' \in [Tasks -> Users \cup {NoUser}]
       /\ admitted' \subseteq admitted /\ \A x \in live' \ live : stage[x] # DONE
  BY <1>1, <1>3, TreeTypes
<1> QED
  BY <1>1, <1>6, <1>7, <1>8, <1>9, <1>10, RollupKeepsInv

LEMMA OwnWorkIsSet ==
    ASSUME HierarchyInv, NEW t \in Tasks, NEW w, t \in live, stage[t] # DONE, SetOwn(t, w)
    PROVE  HierarchyInv' /\ DoneStays
<1>1. /\ own' = [own EXCEPT ![t] = w] /\ w \subseteq WorkStages
      /\ live' = live /\ deleted' = deleted /\ parent' = parent /\ link' = link
      /\ reportee' = reportee /\ admitted' = admitted
      /\ UNCHANGED <<supersededBy, supersedes, members, loaded, overwritten>>
      /\ Rollup(live, parent, link, own', stage)
  BY DEF SetOwn, pending
<1>2. own' \in [Tasks -> SUBSET Stages]
  BY <1>1, TreeTypes, HierarchyBounds
<1>3. KeepsDone
  BY <1>1, TreeTypes DEF KeepsDone
<1>4. Rollup(live', parent', link', own', stage)
  BY <1>1
<1>5. ~overwritten => /\ \A x \in live' : parent'[x] \in live' \cup {NoTask}
                      /\ \A x \in Tasks : /\ parent'[x] \in live' \cup deleted' \cup {NoTask}
                                          /\ link'[x] \in live' \cup deleted' \cup {NoTask}
  BY <1>1 DEF HierarchyInv, FreshTree, NewTasksAreUnknown, Created
<1>6. /\ live' \subseteq Tasks /\ deleted' \subseteq Tasks /\ parent' \in [Tasks -> ParentOf]
      /\ link' \in [Tasks -> ParentOf] /\ reportee' \in [Tasks -> Users \cup {NoUser}]
      /\ admitted' \subseteq admitted /\ Created \subseteq live' \cup deleted'
      /\ \A x \in live' \ live : stage[x] # DONE
  BY <1>1, TreeTypes DEF Created
<1> QED
  BY <1>1, <1>2, <1>3, <1>4, <1>5, <1>6, RollupKeepsInv

LEMMA WorkGoesOn ==
    ASSUME HierarchyInv, NEW t \in Tasks, AddWork(t) \/ RemoveWork(t) \/ AdvanceWork(t)
    PROVE  HierarchyInv' /\ DoneStays
<1>1. /\ t \in live /\ stage[t] # DONE
      /\ \E w : SetOwn(t, w)
  <2>1. assertOpenHierarchy(t) => t \in live /\ stage[t] # DONE
    BY OpenHierarchy, TasksAssumption DEF ParentOf
  <2> QED
    BY <2>1 DEF AddWork, RemoveWork, AdvanceWork
<1> QED
  BY <1>1, OwnWorkIsSet

-----------------------------------------------------------------------------
(***************************************************************************)
(* Requests between their reads and the lock, and the people of the tasks. *)
(***************************************************************************)
\* What no step below changes, unless it says so.
Forest == <<live, deleted, parent, stage, own, link>>

LEMMA ForestStays ==
    ASSUME HierarchyInv, UNCHANGED Forest
    PROVE  /\ DoneStays /\ NewTasksAreOpen'
           /\ ~overwritten => /\ NewTasksAreUnknown'
                              /\ (\A t \in live : parent[t] \in live \cup {NoTask})'
                              /\ RollsUp(live, parent)'
                              /\ (\A t \in live : stage[t] = reduceStages(Work(t, live, parent, own, stage)))'
<1>1. /\ live' = live /\ deleted' = deleted /\ parent' = parent /\ stage' = stage /\ own' = own
      /\ link' = link
  BY DEF Forest
<1>2. DoneStays
  BY <1>1 DEF DoneStays, KeepsDone
<1>3. NewTasksAreOpen'
  BY <1>1 DEF HierarchyInv, NewTasksAreOpen, Created
<1>4. ASSUME ~overwritten
      PROVE  /\ NewTasksAreUnknown' /\ RollsUp(live, parent)'
             /\ (\A t \in live : parent[t] \in live \cup {NoTask})'
             /\ (\A t \in live : stage[t] = reduceStages(Work(t, live, parent, own, stage)))'
  BY <1>1, <1>4 DEF HierarchyInv, FreshTree, NewTasksAreUnknown, Created, RollsUp, Acyclic,
                    LinksValid, Work
<1> QED
  BY <1>2, <1>3, <1>4

\* Requests are admitted, and refused; users join and leave.
LEMMA RequestsAndMembers ==
    ASSUME HierarchyInv, UNCHANGED <<live, deleted, rows, own, link, overwritten>>,
           admitted' \subseteq [user : Users, parent : ParentOf], members' \subseteq Users,
           loaded' \subseteq [old : Tasks, new : Tasks, oldRow : Rows, newRow : Rows],
           PairsAreUnpaired'
    PROVE  HierarchyInv' /\ DoneStays
<1>1. /\ UNCHANGED Forest
      /\ UNCHANGED <<reportee, supersededBy, supersedes, overwritten>>
  BY DEF Forest, rows
<1>2. TypeOK'
  BY <1>1 DEF HierarchyInv, TypeOK, Forest
<1>3. ~overwritten => SupersessionIsOneToOne'
  BY <1>1 DEF HierarchyInv, FreshTree, SupersessionIsOneToOne
<1> QED
  BY <1>1, <1>2, <1>3, ForestStays DEF HierarchyInv, FreshTree

LEMMA RowsAreTyped ==
    ASSUME HierarchyInv, NEW t \in Tasks
    PROVE  Row(t) \in Rows
BY DEF HierarchyInv, TypeOK, Row, Rows

LEMMA SupersessionIsLoaded ==
    ASSUME HierarchyInv, NEW old \in Tasks, NEW new \in Tasks, LoadSupersede(old, new)
    PROVE  HierarchyInv' /\ DoneStays
<1> DEFINE r == [old |-> old, new |-> new, oldRow |-> Row(old), newRow |-> Row(new)]
<1>1. /\ old # new /\ supersededBy[old] = NoTask /\ supersedes[new] = NoTask
      /\ loaded' = loaded \cup {r}
      /\ UNCHANGED <<live, deleted, rows, own, link, overwritten>>
      /\ admitted' = admitted /\ members' = members
  BY DEF LoadSupersede, Unpaired
<1>2. /\ r \in [old : Tasks, new : Tasks, oldRow : Rows, newRow : Rows]
      /\ r.old # r.new /\ r.oldRow.supersededBy = NoTask /\ r.newRow.supersedes = NoTask
  BY <1>1, RowsAreTyped DEF Row
<1> HIDE DEF r
<1>3. PairsAreUnpaired'
  BY <1>1, <1>2 DEF HierarchyInv, PairsAreUnpaired
<1>4. loaded' \subseteq [old : Tasks, new : Tasks, oldRow : Rows, newRow : Rows]
  BY <1>1, <1>2 DEF HierarchyInv, TypeOK
<1> QED
  BY <1>1, <1>3, <1>4, RequestsAndMembers, TreeTypes

\* On fresh rows a supersession only pairs the two tasks.
LEMMA TaskIsSuperseded ==
    ASSUME HierarchyInv, NEW r \in loaded, Supersede(r)
    PROVE  HierarchyInv' /\ (~overwritten' => DoneStays /\ reportee' = reportee)
<1>1. PICK old \in Tasks, new \in Tasks, oldRow \in Rows, newRow \in Rows :
         /\ old = r.old /\ new = r.new /\ oldRow = r.oldRow /\ newRow = r.newRow
         /\ old # new /\ oldRow.supersededBy = NoTask /\ newRow.supersedes = NoTask
  BY DEF HierarchyInv, TypeOK, PairsAreUnpaired
<1>2. /\ old \in live /\ new \in live
      /\ parent' = [parent EXCEPT ![old] = oldRow.parent, ![new] = newRow.parent]
      /\ stage' = [stage EXCEPT ![old] = oldRow.stage, ![new] = newRow.stage]
      /\ reportee' = [reportee EXCEPT ![old] = oldRow.reportee, ![new] = newRow.reportee]
      /\ supersededBy' = [supersededBy EXCEPT ![old] = new, ![new] = newRow.supersededBy]
      /\ supersedes' = [supersedes EXCEPT ![old] = oldRow.supersedes, ![new] = old]
      /\ overwritten' = (overwritten \/ Row(old) # oldRow \/ Row(new) # newRow)
      /\ loaded' \subseteq loaded
      /\ UNCHANGED <<live, deleted, own, link, members, admitted>>
  BY <1>1 DEF Supersede, Managed
<1>3. /\ oldRow.parent \in ParentOf /\ oldRow.stage \in Stages
      /\ oldRow.reportee \in Users \cup {NoUser} /\ oldRow.supersedes \in ParentOf
      /\ newRow.parent \in ParentOf /\ newRow.stage \in Stages
      /\ newRow.reportee \in Users \cup {NoUser} /\ newRow.supersededBy \in ParentOf
      /\ new \in ParentOf /\ old \in ParentOf
  BY DEF Rows, ParentOf
<1>4. overwritten' \in BOOLEAN
  BY <1>2
<1>5. TypeOK'
  BY <1>2, <1>3, <1>4 DEF HierarchyInv, TypeOK
<1>6. PairsAreUnpaired'
  BY <1>2 DEF HierarchyInv, PairsAreUnpaired
<1>7. NewTasksAreOpen'
  BY <1>2, TreeTypes DEF HierarchyInv, NewTasksAreOpen, Created
<1>8. ASSUME ~overwritten'
      PROVE  UNCHANGED Forest /\ reportee' = reportee /\ ~overwritten /\ SupersessionIsOneToOne'
  <2>1. ~overwritten /\ Row(old) = oldRow /\ Row(new) = newRow
    BY <1>2, <1>8
  <2>2. /\ oldRow.parent = parent[old] /\ oldRow.stage = stage[old]
        /\ oldRow.reportee = reportee[old] /\ oldRow.supersededBy = supersededBy[old]
        /\ oldRow.supersedes = supersedes[old]
    BY <2>1 DEF Row
  <2>3. /\ newRow.parent = parent[new] /\ newRow.stage = stage[new]
        /\ newRow.reportee = reportee[new] /\ newRow.supersededBy = supersededBy[new]
        /\ newRow.supersedes = supersedes[new]
    BY <2>1 DEF Row
  <2>4. parent' = parent /\ stage' = stage /\ reportee' = reportee
    BY <1>2, <2>2, <2>3, TreeTypes
  <2>5. /\ supersededBy \in [Tasks -> ParentOf] /\ supersedes \in [Tasks -> ParentOf]
        /\ NoTask \notin Tasks
    BY TasksAssumption DEF HierarchyInv, TypeOK
  <2>6. \A t, s \in Tasks : supersededBy[t] = s <=> supersedes[s] = t
    BY <2>1 DEF HierarchyInv, FreshTree, SupersessionIsOneToOne
  <2>7. \A t \in Tasks : /\ supersededBy'[t] = IF t = old THEN new ELSE supersededBy[t]
                         /\ supersedes'[t] = IF t = new THEN old ELSE supersedes[t]
    BY <1>1, <1>2, <2>2, <2>3, <2>5
  <2>8. supersededBy[old] = NoTask /\ supersedes[new] = NoTask
    BY <1>1, <2>2, <2>3
  <2>9. SupersessionIsOneToOne'
    BY <1>1, <2>5, <2>6, <2>7, <2>8 DEF SupersessionIsOneToOne
  <2> QED
    BY <1>2, <2>1, <2>4, <2>9 DEF Forest
<1>9. ~overwritten' => FreshTree'
  BY <1>8, ForestStays DEF FreshTree
<1>10. ~overwritten' => DoneStays /\ reportee' = reportee
  BY <1>8, ForestStays
<1> QED
  BY <1>5, <1>6, <1>7, <1>9, <1>10 DEF HierarchyInv

LEMMA ReporteeIsRemoved ==
    ASSUME HierarchyInv, NEW t \in Tasks, RemoveReportee(t)
    PROVE  HierarchyInv' /\ DoneStays
<1>1. /\ reportee' = [reportee EXCEPT ![t] = reportee[parent[t]]] /\ parent[t] \in Tasks
      /\ UNCHANGED <<live, deleted, parent, stage, supersededBy, supersedes, own, link, members,
                     overwritten>>
      /\ admitted' = admitted /\ loaded' = loaded
  BY TreeTypes DEF RemoveReportee, pending
<1>2. UNCHANGED Forest /\ overwritten' = overwritten
  BY <1>1 DEF Forest
<1>3. TypeOK'
  BY <1>1 DEF HierarchyInv, TypeOK
<1>4. PairsAreUnpaired'
  BY <1>1 DEF HierarchyInv, PairsAreUnpaired
<1>5. ~overwritten => SupersessionIsOneToOne'
  BY <1>1 DEF HierarchyInv, FreshTree, SupersessionIsOneToOne
<1> QED
  BY <1>2, <1>3, <1>4, <1>5, ForestStays DEF HierarchyInv, FreshTree

-----------------------------------------------------------------------------
(***************************************************************************)
(* All steps.                                                              *)
(***************************************************************************)
LEMMA HierarchyStarts == Init => HierarchyInv
<1> SUFFICES ASSUME Init PROVE HierarchyInv
  OBVIOUS
<1>1. TypeOK
  BY TodoIsAStage DEF Init, TypeOK, ParentOf
<1>2. PairsAreUnpaired /\ NewTasksAreOpen
  BY DEF Init, PairsAreUnpaired, NewTasksAreOpen
<1>3. NewTasksAreUnknown
  BY DEF Init, NewTasksAreUnknown
<1>4. RollsUp(live, parent)
  BY DEF Init, RollsUp, Acyclic, LinksValid
<1>5. SupersessionIsOneToOne
  BY TasksAssumption DEF Init, SupersessionIsOneToOne
<1> QED
  BY <1>1, <1>2, <1>3, <1>4, <1>5 DEF HierarchyInv, FreshTree, Init

LEMMA HierarchySteps ==
    ASSUME HierarchyInv, [Next]_vars
    PROVE  HierarchyInv' /\ (~overwritten' => DoneStays)
<1>1. ASSUME UNCHANGED vars PROVE HierarchyInv' /\ DoneStays
  <2>1. /\ UNCHANGED <<live, deleted, rows, own, link, overwritten>>
        /\ admitted' = admitted /\ loaded' = loaded /\ members' = members
    BY <1>1 DEF vars, pending
  <2>2. PairsAreUnpaired'
    BY <2>1 DEF HierarchyInv, PairsAreUnpaired
  <2>3. loaded' \subseteq [old : Tasks, new : Tasks, oldRow : Rows, newRow : Rows]
    BY <2>1 DEF HierarchyInv, TypeOK
  <2> QED
    BY <2>1, <2>2, <2>3, RequestsAndMembers, TreeTypes
\* Admissions, refusals, users.
<1>2. ASSUME UNCHANGED <<live, deleted, rows, own, link, overwritten>>,
             admitted' \subseteq [user : Users, parent : ParentOf], members' \subseteq Users,
             loaded' \subseteq loaded
      PROVE  HierarchyInv' /\ DoneStays
  <2>1. PairsAreUnpaired'
    BY <1>2 DEF HierarchyInv, PairsAreUnpaired
  <2>2. loaded' \subseteq [old : Tasks, new : Tasks, oldRow : Rows, newRow : Rows]
    BY <1>2 DEF HierarchyInv, TypeOK
  <2> QED
    BY <1>2, <2>1, <2>2, RequestsAndMembers
<1>3. CASE Structure
  <2>1. ASSUME NEW u \in Users, NEW p \in ParentOf, Admit(u, p) PROVE HierarchyInv' /\ DoneStays
    <3>1. [user |-> u, parent |-> p] \in [user : Users, parent : ParentOf]
      OBVIOUS
    <3>2. admitted' \subseteq [user : Users, parent : ParentOf]
      BY <2>1, <3>1, TreeTypes DEF Admit
    <3> QED
      BY <1>2, <2>1, <3>2, TreeTypes DEF Admit
  <2>2. ASSUME NEW r \in admitted, CreateFails(r) PROVE HierarchyInv' /\ DoneStays
    BY <1>2, <2>2, TreeTypes DEF CreateFails
  <2> QED
    BY <1>3, <2>1, <2>2, TaskIsCreated, TaskIsBranched, TaskIsMoved, SubtreeIsDeleted DEF Structure
<1>4. CASE OwnWork
  BY <1>4, WorkGoesOn DEF OwnWork
<1>5. CASE Ownership
  <2>1. ASSUME NEW r \in loaded, SupersedeFails(r) PROVE HierarchyInv' /\ DoneStays
    BY <1>2, <2>1, TreeTypes DEF SupersedeFails
  <2>2. ASSUME NEW u \in Users, Offboard(u) \/ Join(u) PROVE HierarchyInv' /\ DoneStays
    <3>1. members' \subseteq Users
      BY <2>2, TreeTypes DEF Offboard, Join
    <3> QED
      BY <1>2, <2>2, <3>1, TreeTypes DEF Offboard, Join, pending
  <2> QED
    BY <1>5, <2>1, <2>2, SupersessionIsLoaded, TaskIsSuperseded, ReporteeIsRemoved DEF Ownership
<1> QED
  BY <1>1, <1>3, <1>4, <1>5 DEF Next

LEMMA HierarchyInvariance == Spec => []HierarchyInv
<1>1. HierarchyInv /\ [Next]_vars => HierarchyInv'
  BY HierarchySteps
<1> QED
  BY <1>1, HierarchyStarts, PTL DEF Spec

-----------------------------------------------------------------------------
\* Creating, branching, moving, superseding and deleting leave a forest of live tasks, in
\* which every move and every deletion that passes its checks is accepted by the rollup.
THEOREM TreeIsAlwaysSound == Spec => []TreeIsSound
<1>1. HierarchyInv => TreeIsSound
  <2> SUFFICES ASSUME HierarchyInv, ~overwritten
               PROVE  RollupNeverAborts /\ \A t \in live : parent[t] \in live \cup {NoTask}
    BY DEF TreeIsSound, RollupNeverAborts, ParentsLive
  <2>1. RollsUp(live, parent) /\ \A t \in live : parent[t] \in live \cup {NoTask}
    BY DEF HierarchyInv, FreshTree
  <2>2. ASSUME NEW t \in live, NEW q, MayMove(t, q)
        PROVE  RollsUp(live, [parent EXCEPT ![t] = q])
    BY <2>1, <2>2, MovesRollUp, TreeTypes DEF MayMove
  <2>3. ASSUME NEW t \in live, MayDelete(t)
        PROVE  RollsUp(live \ Subtree(t), parent)
    BY <2>1, <2>3, DeletionsRollUp, TreeTypes DEF MayDelete, Deletable
  <2> QED
    BY <2>1, <2>2, <2>3 DEF RollupNeverAborts
<1> QED
  BY <1>1, HierarchyInvariance, PTL

\* The stage of every task, and not only of those the last request touched, is the lowest
\* of the work below it, however requests overlap, as long as no stale row was saved.
THEOREM StatusIsAlwaysDerived == Spec => []StatusIsDerived
<1>1. HierarchyInv => StatusIsDerived
  BY DEF HierarchyInv, FreshTree, StatusIsDerived
<1> QED
  BY <1>1, HierarchyInvariance, PTL

\* Then no request adds, moves, reopens or leaves work under a task that is done.
THEOREM NoOpenWorkUnderDoneAlwaysIfFresh == Spec => []NoOpenWorkUnderDoneIfFresh
<1>1. HierarchyInv => NoOpenWorkUnderDoneIfFresh
  <2> SUFFICES ASSUME HierarchyInv, ~overwritten, NEW t \in live, stage[t] = DONE
               PROVE  OpenUnderDone(t) = {}
    BY DEF NoOpenWorkUnderDoneIfFresh, NoOpenWorkUnderDone
  <2>1. Work(t, live, parent, own, stage) \subseteq Stages
    BY TreeTypes DEF Work
  <2>2. reduceStages(Work(t, live, parent, own, stage)) = DONE
    BY DEF HierarchyInv, FreshTree
  <2>3. Work(t, live, parent, own, stage) = {DONE}
    BY <2>1, <2>2, LowestStage
  <2> QED
    BY <2>3 DEF OpenUnderDone, Children, Work
<1> QED
  BY <1>1, HierarchyInvariance, PTL

\* A task is superseded by one task, which supersedes that one, unless two requests that
\* read the same rows were both saved.
THEOREM SupersessionIsAlwaysOneToOneIfFresh == Spec => []SupersessionIsOneToOneIfFresh
<1>1. HierarchyInv => SupersessionIsOneToOneIfFresh
  BY DEF HierarchyInv, FreshTree, SupersessionIsOneToOneIfFresh
<1> QED
  BY <1>1, HierarchyInvariance, PTL

\* A completed task stays completed, live, where it is and with the work it has, whatever
\* is done above it, below it or by requests that read it earlier.
THEOREM DoneStaysTerminal == Spec => DoneIsTerminal
<1> DEFINE Kept == \A t \in live : stage[t] = DONE /\ ~overwritten' =>
                      /\ t \in live' /\ stage'[t] = DONE
                      /\ parent'[t] = parent[t] /\ own'[t] = own[t]
                      /\ {c \in live' : parent'[c] = t} = Children(t)
<1>1. HierarchyInv /\ [Next]_vars => [Kept]_vars
  <2> SUFFICES ASSUME HierarchyInv, [Next]_vars PROVE Kept
    OBVIOUS
  <2>1. ~overwritten' => DoneStays
    BY HierarchySteps
  <2>2. live \subseteq Tasks /\ live' \subseteq Tasks
    BY HierarchySteps DEF HierarchyInv, TypeOK
  <2> QED
    BY <2>1, <2>2 DEF DoneStays, KeepsDone, Children
<1> QED
  BY <1>1, HierarchyInvariance, PTL DEF Spec, DoneIsTerminal

\* The reviewer of a live task keeps the membership without which nobody else could review
\* its work, whoever is offboarded, replaced or superseded.
THEOREM ReporteeIsAlwaysKept == Spec => ReporteeIsKept
<1> DEFINE Kept == ~overwritten' => \A t \in live \cap live' :
                      reportee[t] \in members => reportee'[t] \in members'
<1>1. HierarchyInv /\ [Next]_vars => [Kept]_vars
  <2> SUFFICES ASSUME HierarchyInv, Next, ~overwritten', NEW t \in live \cap live',
                      reportee[t] \in members
               PROVE  reportee'[t] \in members'
    BY DEF vars, rows
  <2>1. CASE reportee' = reportee /\ members \subseteq members'
    BY <2>1
  <2>2. CASE Structure
    <3>1. ASSUME NEW x, NEW u, NEW p, Insert(x, u, p) PROVE reportee'[t] \in members'
      BY <3>1, TreeTypes DEF Insert
    <3> QED
      BY <2>1, <2>2, <3>1
         DEF Structure, Admit, CreateFails, Create, Branch, Reparent, Delete, rows
  <2>3. CASE OwnWork
    BY <2>1, <2>3 DEF OwnWork, AddWork, RemoveWork, AdvanceWork, SetOwn
  <2>4. CASE Ownership
    <3>1. ASSUME NEW r \in loaded, Supersede(r) PROVE reportee'[t] \in members'
      <4>1. reportee' = reportee /\ members' = members
        BY <3>1, TaskIsSuperseded DEF Supersede
      <4> QED
        BY <2>1, <4>1
    <3>2. ASSUME NEW s \in Tasks, RemoveReportee(s) PROVE reportee'[t] \in members'
      BY <3>2, TreeTypes DEF RemoveReportee, Successor
    <3>3. ASSUME NEW u \in Users, Offboard(u) PROVE reportee'[t] \in members'
      BY <3>3 DEF Offboard, rows
    <3> QED
      BY <2>1, <2>4, <3>1, <3>2, <3>3 DEF Ownership, LoadSupersede, SupersedeFails, Join, rows
  <2> QED
    BY <2>2, <2>3, <2>4 DEF Next
<1> QED
  BY <1>1, HierarchyInvariance, PTL DEF Spec, ReporteeIsKept

-----------------------------------------------------------------------------
(***************************************************************************)
(* Progress.                                                               *)
(*                                                                         *)
(* The recalculation is defined by recursion over the tree.  That it does  *)
(* what its equations say needs no induction: of the sets of tasks it has  *)
(* no values for, a minimal one would have a task without one below it.    *)
(***************************************************************************)
LEMMA MinimalSubset ==
    ASSUME NEW D, IsFiniteSet(D), NEW F, F \subseteq SUBSET D, F # {}
    PROVE  \E A \in F : \A B \in F : B \subseteq A => B = A
<1>1. F \subseteq FiniteSubsetsOf(D)
  BY FS_FiniteSubsetsOfFinite
<1>2. \E A \in F : \A B \in F : ~(<<B, A>> \in StrictSubsetOrdering(D))
  BY <1>1, FS_StrictSubsetOrderingWellFounded, WFMin
<1>3. PICK A \in F : \A B \in F : ~(<<B, A>> \in StrictSubsetOrdering(D))
  BY <1>2
<1>4. ASSUME NEW B \in F, B \subseteq A PROVE B = A
  <2>1. A \in SUBSET D /\ B \in SUBSET D
    OBVIOUS
  <2>2. B # A => <<B, A>> \in StrictSubsetOrdering(D)
    BY <1>4, <2>1 DEF StrictSubsetOrdering
  <2> QED
    BY <1>3, <2>2
<1> QED
  BY <1>4

\* The sum of n hundreds, ...
LEMMA TotalOfHundreds ==
    ASSUME NEW S, NEW f, f = [x \in S |-> 100], IsFiniteSet(S)
    PROVE  Total(f) = 100 * Cardinality(S)
<1> DEFINE Pick(s) == CHOOSE x \in s : TRUE
           Sums(it) == [s \in SUBSET S |->
                          IF s = {} THEN 0 ELSE LET x == Pick(s) IN f[x] + it[s \ {x}]]
           hundreds == [s \in SUBSET S |-> 100 * Cardinality(s)]
<1>1. Total(f) = (CHOOSE it : it = Sums(it))[S]
  <2>1. DOMAIN f = S
    OBVIOUS
  <2> QED
    BY <2>1 DEF Total, MapThenSumSet, MapThenFoldSet
<1>2. ASSUME NEW s \in SUBSET S, s # {}
      PROVE  /\ Pick(s) \in s /\ f[Pick(s)] = 100 /\ s \ {Pick(s)} \in SUBSET S
             /\ Cardinality(s) \in Nat /\ Cardinality(s \ {Pick(s)}) = Cardinality(s) - 1
  <2>1. Pick(s) \in s
    BY <1>2
  <2> HIDE DEF Pick
  <2>2. IsFiniteSet(s)
    BY FS_Subset
  <2>3. Cardinality(s) \in Nat /\ Cardinality(s \ {Pick(s)}) = Cardinality(s) - 1
    BY <2>1, <2>2, FS_CardinalityType, FS_RemoveElement
  <2> QED
    BY <2>1, <2>3
<1>3. ASSUME NEW s \in SUBSET S PROVE hundreds[s] = Sums(hundreds)[s]
  <2>1. CASE s = {}
    BY <2>1, FS_EmptySet
  <2>2. CASE s # {}
    <3> HIDE DEF Pick
    <3>1. Sums(hundreds)[s] = 100 + 100 * Cardinality(s \ {Pick(s)})
      BY <1>2, <2>2
    <3> QED
      BY <1>2, <2>2, <3>1
  <2> QED
    BY <2>1, <2>2
<1>4. hundreds = Sums(hundreds)
  BY <1>3
<1> DEFINE it == CHOOSE it : it = Sums(it)
<1> HIDE DEF Pick
<1>5. it = Sums(it)
  <2> HIDE DEF hundreds, Sums
  <2> QED
    BY <1>4
<1> HIDE DEF it
<1>6. \A s \in SUBSET S : it[s] = Sums(it)[s]
  BY <1>5
<1>7. it[S] = 100 * Cardinality(S)
  <2> DEFINE F == {s \in SUBSET S : it[s] # 100 * Cardinality(s)}
  <2> SUFFICES ASSUME F # {} PROVE FALSE
    OBVIOUS
  <2>1. PICK s \in F : \A u \in F : u \subseteq s => u = s
    <3> HIDE DEF F
    <3>1. F \subseteq SUBSET S
      BY DEF F
    <3> QED
      BY <3>1, MinimalSubset
  <2>2. s # {}
    <3>1. it[{}] = 0
      BY <1>6
    <3> QED
      BY <3>1, FS_EmptySet
  <2>3. s \ {Pick(s)} \notin F
    BY <1>2, <2>1, <2>2
  <2>4. it[s] = 100 + it[s \ {Pick(s)}]
    BY <1>2, <1>6, <2>1, <2>2
  <2>5. it[s \ {Pick(s)}] = 100 * (Cardinality(s) - 1)
    BY <1>2, <2>1, <2>2, <2>3
  <2>6. Cardinality(s) \in Nat
    BY <1>2, <2>1, <2>2
  <2>7. it[s] = 100 * Cardinality(s)
    <3> HIDE DEF F
    <3> QED
      BY <2>4, <2>5, <2>6
  <2> QED
    BY <2>1, <2>7
<1> QED
  BY <1>1, <1>7 DEF it

\* ... whose mean is a hundred.
LEMMA MeanOfHundreds ==
    ASSUME NEW p, NEW flat, IsFiniteSet(flat), {q \in flat : p[q].ticked} = flat,
           NEW S, IsFiniteSet(S), flat \cup S # {}
    PROVE  Mean(p, flat, [x \in S |-> 100]) = 100
<1> DEFINE value == [x \in S |-> 100]
           n == Cardinality(flat)
           m == Cardinality(S)
<1>1. n \in Nat /\ m \in Nat /\ n + m # 0
  BY FS_CardinalityType, FS_EmptySet
<1>3. DOMAIN value = S /\ Total(value) = 100 * m
  BY TotalOfHundreds
<1> HIDE DEF n, m
<1>4. Mean(p, flat, value) = Rounded(100 * n + 100 * m, n + m)
  BY <1>3 DEF Mean, n, m
<1>5. \A k \in Nat \ {0} : Rounded(100 * k, k) = 100
  <2> SUFFICES ASSUME NEW k \in Nat \ {0} PROVE (2 * (100 * k) + k) \div (2 * k) = 100
    BY DEF Rounded
  <2>1. 2 * (100 * k) + k = 100 * (2 * k) + k /\ 0 <= k /\ k < 2 * k
    OBVIOUS
  <2>2. \A d \in Nat \ {0}, r \in Nat : r < d => (100 * d + r) \div d = 100
    OBVIOUS
  <2> QED
    BY <2>1, <2>2
<1>6. 100 * n + 100 * m = 100 * (n + m) /\ n + m \in Nat \ {0}
  BY <1>1
<1> QED
  BY <1>4, <1>5, <1>6

\* Every part of a tree has a task with none of it below.
Grounded(w) == \A S \in SUBSET DOMAIN w : S # {} => \E t \in S : Below(w, t) \cap S = {}

\* Items that were branched are tasks below theirs.
Fitting(w, p) ==
    \A q \in DOMAIN p : p[q].child # NoWork =>
        /\ p[q].child \in DOMAIN w /\ w[p[q].child].parent = p[q].of
        /\ w[p[q].child].linked = TRUE

LEMMA FinishedAgrees ==
    ASSUME NEW w, NEW p, NEW f, NEW g, NEW t, \A c \in Below(w, t) : f[c] = g[c]
    PROVE  IsFinished(w, p, f, t) = IsFinished(w, p, g, t)
<1>1. IsFinished(w, p, f, t) \in BOOLEAN /\ IsFinished(w, p, g, t) \in BOOLEAN
  BY DEF IsFinished
<1>2. IsFinished(w, p, f, t) <=> IsFinished(w, p, g, t)
  BY DEF IsFinished
<1> QED
  BY <1>1, <1>2

LEMMA ValuesAgree ==
    ASSUME NEW w, NEW p, Fitting(w, p), NEW f, NEW g, NEW t,
           \A c \in Below(w, t) : f[c] = g[c]
    PROVE  ValueOf(w, p, f, t) = ValueOf(w, p, g, t)
<1> DEFINE managed == {q \in Of(p, t) : p[q].managed}
           flat == {q \in managed : p[q].child = NoWork}
           counted == Below(w, t) \cup {p[q].child : q \in managed \ flat}
<1>1. counted \subseteq Below(w, t)
  BY DEF Fitting, Below, Of
<1> HIDE DEF managed, flat
<1>2. [c \in counted |-> f[c]] = [c \in counted |-> g[c]]
  BY <1>1
<1> QED
  BY <1>2 DEF ValueOf, managed, flat

\* What has values for the tasks below each of its tasks can be extended.
LEMMA RoomBelow ==
    ASSUME NEW w, IsFiniteSet(DOMAIN w), Grounded(w), NEW Good, Good \subseteq SUBSET DOMAIN w,
           {} \in Good,
           \A S \in Good : \A t \in DOMAIN w \ S : Below(w, t) \subseteq S => S \cup {t} \in Good
    PROVE  DOMAIN w \in Good
<1> DEFINE D == DOMAIN w
           F == {D \ S : S \in Good}
<1> HIDE DEF D
<1>1. PICK A \in F : \A B \in F : B \subseteq A => B = A
  <2>1. F \subseteq SUBSET D
    OBVIOUS
  <2>2. D \ {} \in F
    OBVIOUS
  <2> HIDE DEF F
  <2>3. IsFiniteSet(D)
    BY DEF D
  <2> QED
    BY <2>1, <2>2, <2>3, MinimalSubset
<1>2. PICK S \in Good : A = D \ S
  OBVIOUS
<1>3. ASSUME A # {} PROVE FALSE
  <2>1. PICK t \in A : Below(w, t) \cap A = {}
    BY <1>2, <1>3 DEF Grounded, D
  <2>2. Below(w, t) \subseteq S
    BY <1>2, <2>1 DEF Below, D
  <2>3. S \cup {t} \in Good
    BY <1>2, <2>1, <2>2 DEF D
  <2>4. D \ (S \cup {t}) \in F
    BY <2>3
  <2> QED
    BY <1>1, <1>2, <2>1, <2>4
<1>4. S = D
  BY <1>2, <1>3 DEF D
<1> QED
  BY <1>4 DEF D

LEMMA FinishedTurns ==
    ASSUME NEW w, IsFiniteSet(DOMAIN w), Grounded(w), NEW p, NEW fin, fin = Finished(w, p)
    PROVE  \A t \in DOMAIN w : fin[t] \in BOOLEAN /\ (fin[t] <=> IsFinished(w, p, fin, t))
<1> DEFINE D == DOMAIN w
           Turns(S, f) == f = [t \in S |-> IsFinished(w, p, f, t)]
           Closed(S) == \A t \in S : Below(w, t) \subseteq S
           Good == {S \in SUBSET D : Closed(S) /\ \E f : Turns(S, f)}
<1>1. {} \in Good
  <2>1. Turns({}, [t \in {} |-> TRUE])
    OBVIOUS
  <2> QED
    BY <2>1
<1>2. ASSUME NEW S \in Good, NEW t \in D \ S, Below(w, t) \subseteq S
      PROVE  S \cup {t} \in Good
  <2>1. PICK f : Turns(S, f)
    OBVIOUS
  <2> DEFINE T == S \cup {t}
             g == [x \in T |-> IF x = t THEN IsFinished(w, p, f, t) ELSE f[x]]
  <2>2. \A x \in S : g[x] = f[x]
    BY <1>2
  <2>3. ASSUME NEW x \in T PROVE IsFinished(w, p, g, x) = IsFinished(w, p, f, x)
    <3>1. Below(w, x) \subseteq S
      BY <1>2, <2>3
    <3> HIDE DEF g
    <3> QED
      BY <2>2, <3>1, FinishedAgrees
  <2>4. Turns(T, g)
    <3>1. \A x \in S : f[x] = IsFinished(w, p, f, x)
      BY <2>1
    <3>2. g = [x \in T |-> IsFinished(w, p, f, x)]
      BY <3>1
    <3> HIDE DEF g
    <3>3. [x \in T |-> IsFinished(w, p, f, x)] = [x \in T |-> IsFinished(w, p, g, x)]
      BY <2>3
    <3> QED
      BY <3>2, <3>3
  <2>5. Closed(T)
    BY <1>2
  <2> HIDE DEF Turns, g
  <2> QED
    BY <1>2, <2>4, <2>5
<1>3. D \in Good
  <2> HIDE DEF Turns, Closed
  <2>1. Good \subseteq SUBSET D
    OBVIOUS
  <2> HIDE DEF Good
  <2> QED
    BY <1>1, <1>2, <2>1, RoomBelow
<1>4. \E f : Turns(D, f)
  BY <1>3
<1>5. fin = CHOOSE f : Turns(D, f)
  BY DEF Finished
<1>6. Turns(D, fin)
  <2> HIDE DEF Turns
  <2> QED
    BY <1>4, <1>5
<1>7. ASSUME NEW t \in D PROVE fin[t] = IsFinished(w, p, fin, t)
  BY <1>6, <1>7
<1>8. ASSUME NEW t \in D PROVE IsFinished(w, p, fin, t) \in BOOLEAN
  BY DEF IsFinished
<1> QED
  BY <1>7, <1>8

LEMMA ValuesTurn ==
    ASSUME NEW w, IsFiniteSet(DOMAIN w), Grounded(w), NEW p, Fitting(w, p),
           NEW value, value = Values(w, p)
    PROVE  \A t \in DOMAIN w : value[t] = ValueOf(w, p, value, t)
<1> DEFINE D == DOMAIN w
           Turns(S, f) == f = [t \in S |-> ValueOf(w, p, f, t)]
           Closed(S) == \A t \in S : Below(w, t) \subseteq S
           Good == {S \in SUBSET D : Closed(S) /\ \E f : Turns(S, f)}
<1>1. {} \in Good
  <2>1. Turns({}, [t \in {} |-> 0])
    OBVIOUS
  <2> QED
    BY <2>1
<1>2. ASSUME NEW S \in Good, NEW t \in D \ S, Below(w, t) \subseteq S
      PROVE  S \cup {t} \in Good
  <2>1. PICK f : Turns(S, f)
    OBVIOUS
  <2> DEFINE T == S \cup {t}
             g == [x \in T |-> IF x = t THEN ValueOf(w, p, f, t) ELSE f[x]]
  <2>2. \A x \in S : g[x] = f[x]
    BY <1>2
  <2>3. ASSUME NEW x \in T PROVE ValueOf(w, p, g, x) = ValueOf(w, p, f, x)
    <3>1. Below(w, x) \subseteq S
      BY <1>2, <2>3
    <3> HIDE DEF g
    <3> QED
      BY <2>2, <3>1, ValuesAgree
  <2>4. Turns(T, g)
    <3>1. \A x \in S : f[x] = ValueOf(w, p, f, x)
      BY <2>1
    <3>2. g = [x \in T |-> ValueOf(w, p, f, x)]
      BY <3>1
    <3> HIDE DEF g
    <3>3. [x \in T |-> ValueOf(w, p, f, x)] = [x \in T |-> ValueOf(w, p, g, x)]
      BY <2>3
    <3> QED
      BY <3>2, <3>3
  <2>5. Closed(T)
    BY <1>2
  <2> HIDE DEF Turns, g
  <2> QED
    BY <1>2, <2>4, <2>5
<1>3. D \in Good
  <2> HIDE DEF Turns, Closed
  <2>1. Good \subseteq SUBSET D
    OBVIOUS
  <2> HIDE DEF Good
  <2> QED
    BY <1>1, <1>2, <2>1, RoomBelow
<1>4. \E f : Turns(D, f)
  BY <1>3
<1>5. value = CHOOSE f : Turns(D, f)
  BY DEF Values
<1>6. Turns(D, value)
  <2> HIDE DEF Turns
  <2> QED
    BY <1>4, <1>5
<1> QED
  BY <1>6

(***************************************************************************)
(* The invariant: a recalculation finds a tree of tasks whose completed    *)
(* ones have no open work, and leaves the same.                            *)
(***************************************************************************)
WorkFields == {"parent", "progress", "done", "linked"}

RowsKept(w) ==
    /\ DOMAIN w \subseteq Works /\ w = [t \in DOMAIN w |-> w[t]]
    /\ \A t \in DOMAIN w : /\ DOMAIN w[t] = WorkFields /\ w[t].done \in BOOLEAN
                           /\ w[t].parent \in DOMAIN w \cup {NoWork}

PointsKept(p) == DOMAIN p \subseteq Points /\ p \in [DOMAIN p -> Point]

DoneIsWhole(w, p) ==
    \A t \in DOMAIN w : w[t].done =>
        /\ \A q \in Of(p, t) : p[q].child = NoWork => p[q].ticked = TRUE
        /\ \A c \in Below(w, t) : w[c].done

SoundRows(w, p) ==
    RowsKept(w) /\ PointsKept(p) /\ Grounded(w) /\ Fitting(w, p) /\ DoneIsWhole(w, p)

PatchesKnow(ps, w) ==
    /\ ps \in [Patchers -> Patch]
    /\ \A c \in Patchers : ps[c].phase = "one" => ps[c].of \in DOMAIN w

ProgressInv ==
    /\ SoundRows(work, point) /\ PatchesKnow(patch, work) /\ skipped \in BOOLEAN
    /\ ProgressIsSound

-----------------------------------------------------------------------------
LEMMA RowsRoll ==
    ASSUME NEW w, NEW p, SoundRows(w, p), NEW fin,
           \A t \in DOMAIN w : fin[t] \in BOOLEAN /\ (fin[t] <=> IsFinished(w, p, fin, t)),
           NEW rolled, rolled = RolledWork(w, fin), NEW items, items = RolledPoints(p, fin)
    PROVE  SoundRows(rolled, items) /\ DOMAIN rolled = DOMAIN w
<1>1. DOMAIN rolled = DOMAIN w /\ rolled = [t \in DOMAIN w |-> rolled[t]]
  BY DEF RolledWork
<1>2. ASSUME NEW t \in DOMAIN w
      PROVE  /\ rolled[t].parent = w[t].parent /\ rolled[t].linked = w[t].linked
             /\ rolled[t].done \in BOOLEAN /\ (rolled[t].done <=> w[t].done \/ fin[t])
             /\ DOMAIN rolled[t] = WorkFields
  <2>1. DOMAIN w[t] = WorkFields /\ w[t].done \in BOOLEAN
    BY DEF SoundRows, RowsKept
  <2>2. rolled[t] = IF fin[t] /\ ~w[t].done
                    THEN [w[t] EXCEPT !.done = TRUE, !.progress = 100] ELSE w[t]
    BY DEF RolledWork
  <2>3. CASE fin[t] /\ ~w[t].done
    <3>1. rolled[t] = [w[t] EXCEPT !.done = TRUE, !.progress = 100]
      BY <2>2, <2>3
    <3> QED
      BY <2>1, <2>3, <3>1 DEF WorkFields
  <2>4. CASE ~(fin[t] /\ ~w[t].done)
    <3>1. rolled[t] = w[t]
      BY <2>2, <2>4
    <3> QED
      BY <2>1, <2>4, <3>1
  <2> QED
    BY <2>3, <2>4
<1>3. DOMAIN items = DOMAIN p /\ items = [q \in DOMAIN p |-> items[q]]
  BY DEF RolledPoints
<1>4. ASSUME NEW q \in DOMAIN p
      PROVE  /\ items[q] \in Point /\ items[q].of = p[q].of /\ items[q].child = p[q].child
             /\ p[q].child = NoWork => items[q] = p[q]
  <2>1. p[q] \in Point
    BY DEF SoundRows, PointsKept
  <2>2. items[q] = IF p[q].child = NoWork THEN p[q] ELSE [p[q] EXCEPT !.ticked = fin[p[q].child]]
    BY DEF RolledPoints
  <2>3. CASE p[q].child = NoWork
    BY <2>1, <2>2, <2>3
  <2>4. CASE p[q].child # NoWork
    <3>1. fin[p[q].child] \in BOOLEAN
      BY <2>4 DEF SoundRows, Fitting
    <3>2. items[q] = [p[q] EXCEPT !.ticked = fin[p[q].child]]
      BY <2>2, <2>4
    <3> QED
      BY <2>1, <2>4, <3>1, <3>2 DEF Point
  <2> QED
    BY <2>3, <2>4
<1>5. \A t : Below(rolled, t) = Below(w, t) /\ Of(items, t) = Of(p, t)
  BY <1>1, <1>2, <1>3, <1>4 DEF Below, Of
<1>6. RowsKept(rolled) /\ PointsKept(items)
  BY <1>1, <1>2, <1>3, <1>4 DEF SoundRows, RowsKept, PointsKept
<1>7. Grounded(rolled) /\ Fitting(rolled, items)
  <2>1. Grounded(rolled)
    BY <1>1, <1>5 DEF SoundRows, Grounded
  <2>2. Fitting(rolled, items)
    BY <1>1, <1>2, <1>3, <1>4 DEF SoundRows, Fitting
  <2> QED
    BY <2>1, <2>2
<1>8. ASSUME NEW t \in DOMAIN w, rolled[t].done
      PROVE  /\ \A q \in Of(p, t) : p[q].child = NoWork => p[q].ticked = TRUE
             /\ \A c \in Below(w, t) : rolled[c].done
  <2>1. \A c \in Below(w, t) : c \in DOMAIN w
    BY DEF Below
  <2>2. CASE w[t].done
    BY <1>2, <2>1, <2>2 DEF SoundRows, DoneIsWhole
  <2>3. CASE ~w[t].done
    <3>1. IsFinished(w, p, fin, t)
      BY <1>2, <1>8, <2>3
    <3>2. \A q \in Of(p, t) : p[q].ticked \in BOOLEAN
      BY DEF SoundRows, PointsKept, Point, Of
    <3>3. \A c \in Below(w, t) : fin[c]
      BY <2>3, <3>1 DEF IsFinished
    <3>4. \A q \in Of(p, t) : p[q].child = NoWork => p[q].ticked
      BY <2>3, <3>1 DEF IsFinished
    <3> QED
      BY <1>2, <2>1, <3>2, <3>3, <3>4
  <2> QED
    BY <2>2, <2>3
<1>9. DoneIsWhole(rolled, items)
  <2>1. ASSUME NEW t \in DOMAIN w, rolled[t].done, NEW q \in Of(p, t), items[q].child = NoWork
        PROVE  items[q].ticked = TRUE
    BY <1>4, <1>8, <2>1 DEF Of
  <2> SUFFICES ASSUME NEW t \in DOMAIN rolled, rolled[t].done
               PROVE  /\ \A q \in Of(items, t) : items[q].child = NoWork => items[q].ticked = TRUE
                      /\ \A c \in Below(rolled, t) : rolled[c].done
    BY DEF DoneIsWhole
  <2>2. t \in DOMAIN w /\ Of(items, t) = Of(p, t) /\ Below(rolled, t) = Below(w, t)
    BY <1>1, <1>5
  <2> QED
    BY <1>8, <2>1, <2>2
<1> QED
  BY <1>1, <1>6, <1>7, <1>9 DEF SoundRows

LEMMA FiniteRows ==
    ASSUME NEW w, NEW p, SoundRows(w, p)
    PROVE  IsFiniteSet(DOMAIN w) /\ IsFiniteSet(DOMAIN p)
BY FS_Subset, WorksAssumption DEF SoundRows, RowsKept, PointsKept

\* What the mean of a task is made of.
ManagedFlat(p, t) == {q \in Of(p, t) : p[q].managed /\ p[q].child = NoWork}

LEMMA CountedIsBelow ==
    ASSUME NEW w, NEW p, SoundRows(w, p), NEW value, NEW t
    PROVE  ValueOf(w, p, value, t)
              = IF ManagedFlat(p, t) \cup Below(w, t) = {}
                THEN IF w[t].done THEN 100 ELSE w[t].progress
                ELSE Mean(p, ManagedFlat(p, t), [c \in Below(w, t) |-> value[c]])
<1> DEFINE managed == {q \in Of(p, t) : p[q].managed}
           some == {q \in managed : p[q].child = NoWork}
           counted == Below(w, t) \cup {p[q].child : q \in managed \ some}
<1>1. some = ManagedFlat(p, t)
  BY DEF ManagedFlat
<1>2. counted = Below(w, t)
  BY DEF SoundRows, Fitting, Below, Of
<1>3. ValueOf(w, p, value, t)
        = IF some \cup counted = {} THEN IF w[t].done THEN 100 ELSE w[t].progress
          ELSE Mean(p, some, [c \in counted |-> value[c]])
  BY DEF ValueOf
<1> HIDE DEF some, counted
<1> QED
  BY <1>1, <1>2, <1>3

\* Of the completed tasks without all their progress, one would have none below.
LEMMA DoneHasAll ==
    ASSUME NEW w, NEW p, SoundRows(w, p), NEW value,
           \A t \in DOMAIN w : value[t] = ValueOf(w, p, value, t)
    PROVE  \A t \in DOMAIN w : w[t].done => value[t] = 100
<1> DEFINE S == {t \in DOMAIN w : w[t].done /\ value[t] # 100}
<1> SUFFICES ASSUME S # {} PROVE FALSE
  OBVIOUS
<1>1. PICK t \in S : Below(w, t) \cap S = {}
  <2>1. S \in SUBSET DOMAIN w
    OBVIOUS
  <2> HIDE DEF S
  <2> QED
    BY <2>1 DEF SoundRows, Grounded
<1>2. t \in DOMAIN w /\ w[t].done /\ value[t] # 100
  BY <1>1
<1> DEFINE flat == ManagedFlat(p, t)
           tasks == Below(w, t)
<1>3. value[t] = IF flat \cup tasks = {} THEN IF w[t].done THEN 100 ELSE w[t].progress
                 ELSE Mean(p, flat, [c \in tasks |-> value[c]])
  BY <1>2, CountedIsBelow
<1>4. flat \cup tasks # {}
  <2> HIDE DEF flat, tasks
  <2> QED
    BY <1>2, <1>3
<1>5. \A c \in tasks : value[c] = 100
  <2>1. \A c \in tasks : c \in DOMAIN w /\ w[c].done
    BY <1>2 DEF SoundRows, DoneIsWhole, Below
  <2> QED
    BY <1>1, <2>1
<1>6. {q \in flat : p[q].ticked} = flat
  BY <1>2 DEF SoundRows, DoneIsWhole, ManagedFlat
<1>7. IsFiniteSet(flat) /\ IsFiniteSet(tasks)
  <2>1. flat \in SUBSET DOMAIN p /\ tasks \in SUBSET DOMAIN w
    BY DEF Of, Below, ManagedFlat
  <2> HIDE DEF flat, tasks
  <2> QED
    BY <2>1, FiniteRows, FS_Subset
<1> HIDE DEF flat, tasks
<1>8. [c \in tasks |-> value[c]] = [c \in tasks |-> 100]
  BY <1>5
<1>9. Mean(p, flat, [c \in tasks |-> 100]) = 100
  BY <1>4, <1>6, <1>7, MeanOfHundreds
<1> QED
  BY <1>2, <1>3, <1>4, <1>8, <1>9

LEMMA RefusedKnow ==
    ASSUME NEW ps, ps \in [Patchers -> Patch], NEW w
    PROVE  PatchesKnow(Refuse(ps, w), w)
<1>1. IdlePatch \in Patch /\ IdlePatch.phase # "one"
  BY DEF IdlePatch, Patch
<1> QED
  BY <1>1 DEF Refuse, PatchesKnow

\* A recalculation of sound rows leaves sound rows, with the percentages derived.
LEMMA RecalculationIsSound ==
    ASSUME NEW w, NEW p, SoundRows(w, p), NEW ps, ps \in [Patchers -> Patch],
           Recalculate(ps, w, p)
    PROVE  ProgressInv'
<1> DEFINE fin == Finished(w, p)
           rolled == RolledWork(w, fin)
           items == RolledPoints(p, fin)
           value == Values(rolled, items)
           saved == [t \in DOMAIN w |-> [rolled[t] EXCEPT !.progress = value[t]]]
<1>1. work' = saved /\ point' = items /\ patch' = Refuse(ps, saved) /\ skipped' = FALSE
  BY DEF Recalculate
<1>2. \A t \in DOMAIN w : fin[t] \in BOOLEAN /\ (fin[t] <=> IsFinished(w, p, fin, t))
  <2>1. IsFiniteSet(DOMAIN w) /\ Grounded(w)
    BY FiniteRows DEF SoundRows
  <2> QED
    BY <2>1, FinishedTurns
<1> HIDE DEF fin
<1>3. SoundRows(rolled, items) /\ DOMAIN rolled = DOMAIN w
  <2> HIDE DEF rolled, items
  <2> QED
    BY <1>2, RowsRoll DEF rolled, items
<1> HIDE DEF rolled, items
<1>4. \A t \in DOMAIN rolled : value[t] = ValueOf(rolled, items, value, t)
  <2>1. IsFiniteSet(DOMAIN rolled) /\ Grounded(rolled) /\ Fitting(rolled, items)
    BY <1>3, FiniteRows DEF SoundRows
  <2> QED
    BY <2>1, ValuesTurn
<1> HIDE DEF value
<1>5. \A t \in DOMAIN rolled : rolled[t].done => value[t] = 100
  BY <1>3, <1>4, DoneHasAll
<1>6. DOMAIN saved = DOMAIN rolled /\ saved = [t \in DOMAIN rolled |-> saved[t]]
  BY <1>3
<1>7. ASSUME NEW t \in DOMAIN rolled
      PROVE  /\ saved[t].parent = rolled[t].parent /\ saved[t].done = rolled[t].done
             /\ saved[t].linked = rolled[t].linked
             /\ saved[t].progress = value[t] /\ DOMAIN saved[t] = WorkFields
  <2>1. DOMAIN rolled[t] = WorkFields
    BY <1>3 DEF SoundRows, RowsKept
  <2>2. saved[t] = [rolled[t] EXCEPT !.progress = value[t]]
    BY <1>3
  <2> QED
    BY <2>1, <2>2 DEF WorkFields
<1> HIDE DEF saved
<1>8. \A t : Below(saved, t) = Below(rolled, t)
  BY <1>6, <1>7 DEF Below
<1>9. SoundRows(saved, items)
  <2>1. RowsKept(saved) /\ PointsKept(items)
    BY <1>3, <1>6, <1>7 DEF SoundRows, RowsKept
  <2>2. Grounded(saved)
    BY <1>3, <1>6, <1>8 DEF SoundRows, Grounded
  <2>3. Fitting(saved, items)
    BY <1>3, <1>6, <1>7 DEF SoundRows, Fitting
  <2>4. DoneIsWhole(saved, items)
    <3> SUFFICES ASSUME NEW t \in DOMAIN rolled, rolled[t].done
                 PROVE  /\ \A q \in Of(items, t) : items[q].child = NoWork => items[q].ticked = TRUE
                        /\ \A c \in Below(rolled, t) : saved[c].done
      BY <1>6, <1>7, <1>8 DEF DoneIsWhole
    <3>1. \A c \in Below(rolled, t) : c \in DOMAIN rolled
      BY DEF Below
    <3> QED
      BY <1>3, <1>7, <3>1 DEF SoundRows, DoneIsWhole
  <2> QED
    BY <2>1, <2>2, <2>3, <2>4 DEF SoundRows
<1>10. SoundRows(work', point')
  BY <1>1, <1>9
<1>11. PatchesKnow(patch', work')
  BY <1>1, RefusedKnow
<1>12. ASSUME NEW t \in DOMAIN saved, ManagedFlat(items, t) \cup Below(saved, t) # {}
       PROVE  saved[t].progress
                  = Mean(items, ManagedFlat(items, t), [c \in Below(saved, t) |-> saved[c].progress])
  <2>1. value[t] = ValueOf(rolled, items, value, t)
    BY <1>4, <1>6
  <2>2. ValueOf(rolled, items, value, t)
          = Mean(items, ManagedFlat(items, t), [c \in Below(rolled, t) |-> value[c]])
    <3>1. ValueOf(rolled, items, value, t)
            = IF ManagedFlat(items, t) \cup Below(rolled, t) = {}
              THEN IF rolled[t].done THEN 100 ELSE rolled[t].progress
              ELSE Mean(items, ManagedFlat(items, t), [c \in Below(rolled, t) |-> value[c]])
      BY <1>3, CountedIsBelow
    <3>2. ManagedFlat(items, t) \cup Below(rolled, t) # {}
      BY <1>8, <1>12
    <3> QED
      BY <3>1, <3>2
  <2>3. [c \in Below(rolled, t) |-> value[c]] = [c \in Below(saved, t) |-> saved[c].progress]
    BY <1>7, <1>8 DEF Below
  <2> QED
    BY <1>6, <1>7, <2>1, <2>2, <2>3
<1>13. ProgressIsSound'
  <2>1. DoneIsFull'
    BY <1>1, <1>5, <1>6, <1>7 DEF DoneIsFull
  <2>2. ProgressIsDerived'
    BY <1>1, <1>12 DEF ProgressIsDerived, ManagedFlat, Mean, Rounded
  <2> QED
    BY <2>1, <2>2 DEF ProgressIsSound, ProgressIsDerivedIfRecalculated
<1> QED
  BY <1>1, <1>10, <1>11, <1>13 DEF ProgressInv

-----------------------------------------------------------------------------
(***************************************************************************)
(* What each handler writes before the recalculation is sound.             *)
(***************************************************************************)
LEMMA OpenIsNotDone ==
    ASSUME NEW t, Open(t), t # NoWork
    PROVE  t \in DOMAIN work /\ ~work[t].done
BY DEF Open, WorkBelow

\* What is done has only items that were there, or that are not below it.
PointsWhole(p) ==
    \A q \in DOMAIN p : p[q].child = NoWork =>
        \/ p[q].ticked = TRUE
        \/ q \in DOMAIN point /\ p[q] = point[q]
        \/ p[q].of \notin DOMAIN work
        \/ ~work[p[q].of].done

LEMMA DoneRowsStayWhole ==
    ASSUME SoundRows(work, point), NEW w, NEW p, PointsWhole(p),
           \A x \in DOMAIN w : w[x].done =>
               x \in DOMAIN work /\ work[x].done /\ Below(w, x) \subseteq Below(work, x),
           \A x \in DOMAIN w \cap DOMAIN work : work[x].done => w[x].done
    PROVE  DoneIsWhole(w, p)
<1> SUFFICES ASSUME NEW t \in DOMAIN w, w[t].done
             PROVE  /\ \A q \in Of(p, t) : p[q].child = NoWork => p[q].ticked = TRUE
                    /\ \A c \in Below(w, t) : w[c].done
  BY DEF DoneIsWhole
<1>1. t \in DOMAIN work /\ work[t].done /\ Below(w, t) \subseteq Below(work, t)
  OBVIOUS
<1>2. \A c \in Below(w, t) : c \in DOMAIN w /\ c \in DOMAIN work /\ work[c].done
  BY <1>1 DEF SoundRows, DoneIsWhole, Below
<1>3. ASSUME NEW q \in Of(p, t), p[q].child = NoWork PROVE p[q].ticked = TRUE
  <2>1. q \in DOMAIN p /\ p[q].of = t
    BY DEF Of
  <2>2. \/ p[q].ticked = TRUE
        \/ q \in DOMAIN point /\ p[q] = point[q]
    BY <1>1, <1>3, <2>1 DEF PointsWhole
  <2>3. CASE q \in DOMAIN point /\ p[q] = point[q]
    <3>1. q \in Of(point, t) /\ point[q].child = NoWork
      BY <1>3, <2>1, <2>3 DEF Of
    <3>2. point[q].ticked = TRUE
      BY <1>1, <3>1 DEF SoundRows, DoneIsWhole
    <3> QED
      BY <2>3, <3>2
  <2> QED
    BY <2>2, <2>3
<1> QED
  BY <1>2, <1>3

\* The tasks and t, below u.
WithRow(w, t, u) ==
    /\ RowsKept(w) /\ Grounded(w)
    /\ DOMAIN w = DOMAIN work \cup {t} /\ \A x \in DOMAIN work : w[x] = work[x]
    /\ w[t].parent = u /\ w[t].done = FALSE
    /\ \A x : x # u => Below(w, x) = Below(work, x)

LEMMA RowAdded ==
    ASSUME SoundRows(work, point), NEW t \in Works \ DOMAIN work,
           NEW u \in DOMAIN work \cup {NoWork}, NEW v, NEW linked
    PROVE  /\ WithRow(Added(work, {t}, NewWork(u, v, linked)), t, u)
           /\ Added(work, {t}, NewWork(u, v, linked))[t].linked = linked
<1> DEFINE w == Added(work, {t}, NewWork(u, v, linked))
<1>1. /\ DOMAIN w = DOMAIN work \cup {t} /\ w = [x \in DOMAIN w |-> w[x]]
      /\ \A x \in DOMAIN work : w[x] = work[x]
      /\ w[t] = NewWork(u, v, linked)
  BY DEF Added
<1> HIDE DEF w
<1>2. /\ w[t].parent = u /\ w[t].done = FALSE /\ DOMAIN w[t] = WorkFields
      /\ w[t].linked = linked
  <2>1. w[t] = [parent |-> u, progress |-> v, done |-> FALSE, linked |-> linked]
    BY <1>1 DEF NewWork
  <2> HIDE DEF SoundRows
  <2> QED
    BY <2>1 DEF WorkFields
<1>3. RowsKept(w)
  BY <1>1, <1>2 DEF SoundRows, RowsKept
<1>4. \A x : Below(w, x) \subseteq Below(work, x) \cup {t} /\ (x # u => Below(w, x) = Below(work, x))
  BY <1>1, <1>2 DEF Below
<1>5. Below(w, t) = {}
  <2>1. t # u /\ \A c \in DOMAIN work : work[c].parent # t
    BY WorksAssumption DEF SoundRows, RowsKept
  <2> QED
    BY <1>1, <1>2, <2>1 DEF Below
<1>6. ASSUME NEW S \in SUBSET DOMAIN w, S # {}
      PROVE  \E x \in S : Below(w, x) \cap S = {}
  <2>1. CASE t \in S
    BY <1>5, <2>1
  <2>2. CASE t \notin S
    <3>1. S \in SUBSET DOMAIN work
      BY <1>1, <2>2
    <3>2. PICK x \in S : Below(work, x) \cap S = {}
      BY <1>6, <3>1 DEF SoundRows, Grounded
    <3>3. Below(w, x) \subseteq Below(work, x) \cup {t}
      BY <1>4
    <3>4. Below(w, x) \cap S = {}
      BY <2>2, <3>2, <3>3
    <3> QED
      BY <3>4
  <2> QED
    BY <2>1, <2>2
<1>7. WithRow(w, t, u) /\ w[t].linked = linked
  BY <1>1, <1>2, <1>3, <1>4, <1>6 DEF WithRow, Grounded
<1> QED
  BY <1>7 DEF w

LEMMA WorkBelowHolds ==
    ASSUME NEW t \in DOMAIN work
    PROVE  /\ t \in WorkBelow(t) /\ WorkBelow(t) \subseteq DOMAIN work
           /\ \A x \in WorkBelow(t) : Below(work, x) \subseteq WorkBelow(t)
<1>1. t \in WorkBelow(t) /\ WorkBelow(t) \subseteq DOMAIN work
  BY DEF WorkBelow
<1>2. ASSUME NEW x \in WorkBelow(t), NEW c \in Below(work, x) PROVE c \in WorkBelow(t)
  <2> SUFFICES ASSUME NEW S \in SUBSET DOMAIN work, t \in S,
                      \A y \in S : Below(work, y) \subseteq S
               PROVE  c \in S
    BY DEF WorkBelow, Below
  <2>1. x \in S
    BY DEF WorkBelow
  <2> QED
    BY <2>1
<1> QED
  BY <1>1, <1>2

LEMMA WorkBelowIsLeast ==
    ASSUME NEW t \in DOMAIN work, NEW d \in WorkBelow(t), d # t
    PROVE  work[d].parent \in WorkBelow(t)
<1> SUFFICES ASSUME work[d].parent \notin WorkBelow(t) PROVE FALSE
  OBVIOUS
<1> DEFINE S == WorkBelow(t) \ {d}
<1>1. S \in SUBSET DOMAIN work /\ t \in S
  BY WorkBelowHolds
<1>2. \A x \in S : Below(work, x) \subseteq S
  BY WorkBelowHolds DEF Below
<1>3. d \notin S
  OBVIOUS
<1> HIDE DEF S
<1>4. d \in S
  BY <1>1, <1>2 DEF WorkBelow
<1> QED
  BY <1>3, <1>4

LEMMA RowsRemoved ==
    ASSUME SoundRows(work, point), NEW t \in DOMAIN work, ~work[t].linked,
           NEW rest, rest = DOMAIN work \ WorkBelow(t),
           NEW w, w = [u \in rest |-> work[u]],
           NEW p, p = [q \in {x \in DOMAIN point : point[x].of \in rest} |-> point[q]]
    PROVE  SoundRows(w, p)
<1>1. DOMAIN w = rest /\ rest \subseteq DOMAIN work /\ \A u \in rest : w[u] = work[u]
  OBVIOUS
<1>2. /\ DOMAIN p = {x \in DOMAIN point : point[x].of \in rest}
      /\ \A q \in DOMAIN p : q \in DOMAIN point /\ p[q] = point[q] /\ point[q].of \in rest
  OBVIOUS
<1>3. ASSUME NEW u \in rest PROVE work[u].parent \in rest \cup {NoWork}
  <2>1. work[u].parent \in DOMAIN work \cup {NoWork}
    BY <1>1 DEF SoundRows, RowsKept
  <2>2. work[u].parent \notin WorkBelow(t)
    BY <1>1, WorkBelowHolds DEF Below
  <2> QED
    BY <2>1, <2>2
<1>4. RowsKept(w)
  <2>1. w = [x \in DOMAIN w |-> w[x]]
    OBVIOUS
  <2> QED
    BY <1>1, <1>3, <2>1 DEF SoundRows, RowsKept
<1>5. PointsKept(p)
  BY <1>2 DEF SoundRows, PointsKept
<1>6. \A x : Below(w, x) \subseteq Below(work, x)
  BY <1>1 DEF Below
<1>7. Grounded(w)
  <2> SUFFICES ASSUME NEW S \in SUBSET rest, S # {}
               PROVE  \E x \in S : Below(w, x) \cap S = {}
    BY <1>1 DEF Grounded
  <2>1. PICK x \in S : Below(work, x) \cap S = {}
    BY <1>1 DEF SoundRows, Grounded
  <2> QED
    BY <1>6, <2>1
<1>8. Fitting(w, p)
  <2> SUFFICES ASSUME NEW q \in DOMAIN p, p[q].child # NoWork
               PROVE  /\ p[q].child \in rest /\ work[p[q].child].parent = p[q].of
                      /\ work[p[q].child].linked = TRUE
    BY <1>1 DEF Fitting
  <2> DEFINE d == p[q].child
  <2>1. /\ d \in DOMAIN work /\ work[d].parent = p[q].of /\ work[d].linked = TRUE
        /\ p[q].of \in rest
    BY <1>2 DEF SoundRows, Fitting
  <2>2. d # t
    BY <2>1
  <2>3. d \notin WorkBelow(t)
    BY <2>1, <2>2, WorkBelowIsLeast
  <2> QED
    BY <2>1, <2>3
<1>9. DoneIsWhole(w, p)
  <2>1. PointsWhole(p)
    BY <1>2 DEF PointsWhole
  <2> QED
    BY <1>1, <1>6, <2>1, DoneRowsStayWhole
<1> QED
  BY <1>4, <1>5, <1>7, <1>8, <1>9 DEF SoundRows

LEMMA RowMoved ==
    ASSUME SoundRows(work, point), NEW t \in DOMAIN work, ~work[t].linked,
           NEW u \in DOMAIN work \cup {NoWork}, u \notin WorkBelow(t), u # NoWork => ~work[u].done,
           NEW w, w = [work EXCEPT ![t].parent = u]
    PROVE  SoundRows(w, point)
<1>1. /\ DOMAIN w = DOMAIN work /\ w = [x \in DOMAIN work |-> w[x]]
      /\ \A x \in DOMAIN work : x # t => w[x] = work[x]
  OBVIOUS
<1>2. /\ w[t].parent = u /\ w[t].done = work[t].done /\ w[t].linked = work[t].linked
      /\ DOMAIN w[t] = WorkFields
  <2>1. DOMAIN work[t] = WorkFields
    BY DEF SoundRows, RowsKept
  <2>2. w[t] = [work[t] EXCEPT !.parent = u]
    OBVIOUS
  <2> QED
    BY <2>1, <2>2 DEF WorkFields
<1> HIDE DEF SoundRows
<1>3. RowsKept(w)
  BY <1>1, <1>2 DEF SoundRows, RowsKept
<1>4. \A x, c : c \in Below(w, x) => c \in Below(work, x) \/ (c = t /\ x = u)
  BY <1>1, <1>2 DEF Below
<1>5. Grounded(w)
  <2> SUFFICES ASSUME NEW S \in SUBSET DOMAIN work, S # {},
                      \A x \in S : Below(w, x) \cap S # {}
               PROVE  FALSE
    BY <1>1 DEF Grounded
  <2> DEFINE T == S \cap WorkBelow(t)
  <2>1. ASSUME NEW x \in T PROVE Below(work, x) \cap T # {}
    <3>1. PICK c \in S : c \in Below(w, x)
      OBVIOUS
    <3>2. x # u
      OBVIOUS
    <3>3. c \in Below(work, x)
      BY <1>4, <3>1, <3>2
    <3> QED
      BY <3>3, WorkBelowHolds
  <2>2. CASE T # {}
    <3>1. T \in SUBSET DOMAIN work
      OBVIOUS
    <3> HIDE DEF T
    <3> QED
      BY <2>1, <2>2, <3>1 DEF SoundRows, Grounded
  <2>3. CASE T = {}
    <3>1. t \notin S
      BY <2>3, WorkBelowHolds
    <3>2. \A x \in S : Below(work, x) \cap S # {}
      BY <1>4, <3>1
    <3> QED
      BY <3>2 DEF SoundRows, Grounded
  <2> QED
    BY <2>2, <2>3
<1>6. Fitting(w, point)
  <2> SUFFICES ASSUME NEW q \in DOMAIN point, point[q].child # NoWork
               PROVE  /\ point[q].child \in DOMAIN work
                      /\ w[point[q].child].parent = point[q].of
                      /\ w[point[q].child].linked = TRUE
    BY <1>1 DEF Fitting
  <2>1. /\ point[q].child \in DOMAIN work /\ work[point[q].child].parent = point[q].of
        /\ work[point[q].child].linked = TRUE
    BY DEF SoundRows, Fitting
  <2> QED
    BY <1>1, <2>1
<1>7. DoneIsWhole(w, point)
  <2>1. PointsWhole(point)
    BY DEF PointsWhole
  <2>2. ASSUME NEW x \in DOMAIN w, w[x].done
        PROVE  x \in DOMAIN work /\ work[x].done /\ Below(w, x) \subseteq Below(work, x)
    <3>1. x \in DOMAIN work /\ work[x].done
      BY <1>1, <1>2, <2>2
    <3>2. x # u
      BY <3>1, WorksAssumption DEF SoundRows, RowsKept
    <3> QED
      BY <1>4, <3>1, <3>2
  <2>3. \A x \in DOMAIN w \cap DOMAIN work : work[x].done => w[x].done
    BY <1>1, <1>2
  <2> QED
    BY <2>1, <2>2, <2>3, DoneRowsStayWhole
<1> QED
  BY <1>3, <1>5, <1>6, <1>7 DEF SoundRows

LEMMA ProgressGiven ==
    ASSUME SoundRows(work, point), NEW t \in DOMAIN work, NEW v,
           NEW w, w = [work EXCEPT ![t].progress = v]
    PROVE  /\ SoundRows(w, point) /\ DOMAIN w = DOMAIN work
           /\ \A x \in DOMAIN work : /\ w[x].parent = work[x].parent /\ w[x].done = work[x].done
                                     /\ w[x].progress = IF x = t THEN v ELSE work[x].progress
<1>1. /\ DOMAIN w = DOMAIN work /\ w = [x \in DOMAIN work |-> w[x]]
      /\ \A x \in DOMAIN work : x # t => w[x] = work[x]
  OBVIOUS
<1>2. /\ w[t].parent = work[t].parent /\ w[t].done = work[t].done
      /\ w[t].linked = work[t].linked /\ w[t].progress = v /\ DOMAIN w[t] = WorkFields
  <2>1. DOMAIN work[t] = WorkFields
    BY DEF SoundRows, RowsKept
  <2>2. w[t] = [work[t] EXCEPT !.progress = v]
    OBVIOUS
  <2> QED
    BY <2>1, <2>2 DEF WorkFields
<1>3. \A x \in DOMAIN work :
          /\ w[x].parent = work[x].parent /\ w[x].done = work[x].done
          /\ w[x].linked = work[x].linked /\ DOMAIN w[x] = DOMAIN work[x]
  <2>1. DOMAIN work[t] = WorkFields
    BY DEF SoundRows, RowsKept
  <2> QED
    BY <1>1, <1>2, <2>1
<1>4. \A x : Below(w, x) = Below(work, x)
  BY <1>1, <1>3 DEF Below
<1>5. RowsKept(w) /\ Grounded(w)
  <2>1. RowsKept(w)
    BY <1>1, <1>3 DEF SoundRows, RowsKept
  <2>2. Grounded(w)
    BY <1>1, <1>4 DEF SoundRows, Grounded
  <2> QED
    BY <2>1, <2>2
<1>6. Fitting(w, point)
  BY <1>1, <1>3 DEF SoundRows, Fitting
<1>7. DoneIsWhole(w, point)
  <2>1. PointsWhole(point)
    BY DEF PointsWhole
  <2>2. ASSUME NEW x \in DOMAIN w, w[x].done
        PROVE  x \in DOMAIN work /\ work[x].done /\ Below(w, x) \subseteq Below(work, x)
    BY <1>1, <1>3, <1>4, <2>2
  <2>3. \A x \in DOMAIN w \cap DOMAIN work : work[x].done => w[x].done
    BY <1>1, <1>3
  <2> QED
    BY <2>1, <2>2, <2>3, DoneRowsStayWhole
<1> QED
  BY <1>1, <1>2, <1>3, <1>5, <1>6, <1>7 DEF SoundRows

-----------------------------------------------------------------------------
LEMMA RowAddedIsSound ==
    ASSUME SoundRows(work, point), NEW t \in Works \ DOMAIN work,
           NEW u \in DOMAIN work \cup {NoWork}, Open(u),
           NEW w, WithRow(w, t, u),
           NEW p, PointsKept(p), PointsWhole(p),
           \A q \in DOMAIN p : p[q].child # NoWork =>
               \/ q \in DOMAIN point /\ p[q] = point[q]
               \/ p[q].child = t /\ p[q].of = u /\ w[t].linked = TRUE
    PROVE  SoundRows(w, p)
<1>1. /\ RowsKept(w) /\ Grounded(w)
      /\ DOMAIN w = DOMAIN work \cup {t} /\ \A x \in DOMAIN work : w[x] = work[x]
      /\ \A x : x # u => Below(w, x) = Below(work, x)
  BY DEF WithRow
<1>2. w[t].parent = u /\ w[t].done = FALSE
  BY DEF WithRow
<1>3. Fitting(w, p)
  <2> SUFFICES ASSUME NEW q \in DOMAIN p, p[q].child # NoWork
               PROVE  /\ p[q].child \in DOMAIN w /\ w[p[q].child].parent = p[q].of
                      /\ w[p[q].child].linked = TRUE
    BY DEF Fitting
  <2>1. CASE q \in DOMAIN point /\ p[q] = point[q]
    <3>1. /\ point[q].child \in DOMAIN work /\ work[point[q].child].parent = point[q].of
          /\ work[point[q].child].linked = TRUE
      BY <2>1 DEF SoundRows, Fitting
    <3> QED
      BY <1>1, <2>1, <3>1
  <2>2. CASE p[q].child = t /\ p[q].of = u /\ w[t].linked = TRUE
    BY <1>1, <1>2, <2>2
  <2> QED
    BY <2>1, <2>2
<1>4. DoneIsWhole(w, p)
  <2>1. ASSUME NEW x \in DOMAIN w, w[x].done
        PROVE  x \in DOMAIN work /\ work[x].done /\ Below(w, x) \subseteq Below(work, x)
    <3>1. x \in DOMAIN work /\ work[x].done
      BY <1>1, <1>2, <2>1
    <3>2. x # u
      BY <3>1, OpenIsNotDone, WorksAssumption DEF SoundRows, RowsKept
    <3> QED
      BY <1>1, <3>1, <3>2
  <2>2. \A x \in DOMAIN w \cap DOMAIN work : work[x].done => w[x].done
    BY <1>1
  <2> QED
    BY <2>1, <2>2, DoneRowsStayWhole
<1> QED
  BY <1>1, <1>3, <1>4 DEF SoundRows

LEMMA PointsWrittenAreSound ==
    ASSUME SoundRows(work, point), NEW p, PointsKept(p), PointsWhole(p),
           \A q \in DOMAIN p : p[q].child # NoWork => q \in DOMAIN point /\ p[q] = point[q]
    PROVE  SoundRows(work, p)
<1>1. Fitting(work, p)
  BY DEF SoundRows, Fitting
<1>2. DoneIsWhole(work, p)
  BY DoneRowsStayWhole
<1> QED
  BY <1>1, <1>2 DEF SoundRows

\* A task does not have an item before it is there itself.
LEMMA ItemsOfTasks ==
    ASSUME SoundRows(work, point), NEW q, Flat(q), Open(point[q].of)
    PROVE  /\ q \in DOMAIN point /\ point[q] \in Point /\ point[q].child = NoWork
           /\ point[q].of \in DOMAIN work /\ ~work[point[q].of].done
<1>1. q \in DOMAIN point /\ point[q] \in Point /\ point[q].child = NoWork
  BY DEF Flat, SoundRows, PointsKept
<1>2. point[q].of # NoWork
  BY <1>1, WorksAssumption DEF Point
<1> QED
  BY <1>1, <1>2, OpenIsNotDone

\* The item that becomes a task, and is one of its task's items no longer.
WithBranch(p, q, t) ==
    /\ DOMAIN p = DOMAIN point /\ \A x \in DOMAIN point : x # q => p[x] = point[x]
    /\ p[q].child = t /\ p[q].of = point[q].of

Branched(q, t) == [point EXCEPT ![q].child = t]

LEMMA ItemBranched ==
    ASSUME SoundRows(work, point), NEW q, Flat(q), Open(point[q].of), NEW t \in Works \ DOMAIN work
    PROVE  /\ WithBranch(Branched(q, t), q, t)
           /\ PointsKept(Branched(q, t)) /\ PointsWhole(Branched(q, t))
<1> DEFINE p == Branched(q, t)
<1>1. q \in DOMAIN point /\ point[q] \in Point
  BY ItemsOfTasks
<1>2. DOMAIN point \subseteq Points /\ point \in [DOMAIN point -> Point]
  BY DEF SoundRows, PointsKept
<1>3. [point[q] EXCEPT !.child = t] \in Point
  BY <1>1 DEF Point
<1>4. /\ DOMAIN p = DOMAIN point /\ \A x \in DOMAIN point : x # q => p[x] = point[x]
      /\ p[q] = [point[q] EXCEPT !.child = t]
  BY <1>1, <1>2 DEF Branched
<1>5. p[q].child = t /\ p[q].of = point[q].of
  BY <1>1, <1>4 DEF Point
<1>6. p \in [DOMAIN point -> Point]
  BY <1>1, <1>2, <1>3 DEF Branched
<1> HIDE DEF p
<1>7. t # NoWork
  BY WorksAssumption
<1>8. PointsWhole(p)
  BY <1>4, <1>5, <1>7 DEF PointsWhole
<1>9. WithBranch(p, q, t) /\ PointsKept(p) /\ PointsWhole(p)
  BY <1>2, <1>4, <1>5, <1>6, <1>8 DEF PointsKept, WithBranch
<1> QED
  BY <1>9 DEF p

\* The items of a package that is added.
WithItems(p, f, new) ==
    /\ DOMAIN p = DOMAIN f \cup new /\ PointsKept(p) /\ PointsWhole(p)
    /\ \A x \in DOMAIN f \ new : p[x] = f[x]
    /\ \A x \in new : p[x].child = NoWork

LEMMA ItemsAdded ==
    ASSUME NEW f, PointsKept(f), PointsWhole(f), NEW new \in SUBSET Points,
           NEW t \in Works, NEW managed \in BOOLEAN, t \in DOMAIN work => ~work[t].done
    PROVE  WithItems(Added(f, new, NewPoint(t, managed)), f, new)
<1> DEFINE p == Added(f, new, NewPoint(t, managed))
<1>1. /\ DOMAIN p = DOMAIN f \cup new
      /\ p = [x \in DOMAIN f \cup new |-> IF x \in new THEN NewPoint(t, managed) ELSE f[x]]
  BY DEF Added
<1> HIDE DEF p
<1>2. /\ NewPoint(t, managed) \in Point /\ NewPoint(t, managed).child = NoWork
      /\ NewPoint(t, managed).of = t
  BY DEF NewPoint, Point
<1>3. PointsKept(p)
  BY <1>1, <1>2 DEF PointsKept
<1>4. \A x \in DOMAIN f \ new : p[x] = f[x]
  BY <1>1
<1>5. \A x \in new : p[x].child = NoWork /\ p[x].of = t
  BY <1>1, <1>2
<1>6. PointsWhole(p)
  BY <1>1, <1>4, <1>5 DEF PointsWhole
<1>7. WithItems(p, f, new)
  BY <1>1, <1>3, <1>4, <1>5, <1>6 DEF WithItems
<1> QED
  BY <1>7 DEF p

LEMMA HeldPatches ==
    ASSUME ProgressInv
    PROVE  /\ SoundRows(work, point) /\ patch \in [Patchers -> Patch]
           /\ \A c : Answered(c) \in [Patchers -> Patch]
<1>1. patch \in [Patchers -> Patch]
  BY DEF ProgressInv, PatchesKnow
<1>2. IdlePatch \in Patch
  BY DEF IdlePatch, Patch
<1> QED
  BY <1>1, <1>2 DEF ProgressInv, Answered

LEMMA PointsStayWhole ==
    ASSUME SoundRows(work, point)
    PROVE  PointsKept(point) /\ PointsWhole(point)
BY DEF SoundRows, PointsWhole

-----------------------------------------------------------------------------
(***************************************************************************)
(* Every transaction, one by one.                                          *)
(***************************************************************************)
LEMMA AddTaskIsSound ==
    ASSUME ProgressInv, NEW t \in Works, NEW u \in DOMAIN work \cup {NoWork}, NEW v,
           AddTask(t, u, v)
    PROVE  ProgressInv'
<1> DEFINE w == Added(work, {t}, NewWork(u, v, u # NoWork))
<1>1. t \in Works \ DOMAIN work /\ Open(u) /\ Recalculate(patch, w, point)
  BY DEF AddTask
<1>2. SoundRows(work, point) /\ PointsKept(point) /\ PointsWhole(point)
  BY HeldPatches, PointsStayWhole
<1>3. WithRow(w, t, u)
  BY <1>1, <1>2, RowAdded
<1> HIDE DEF w
<1>4. SoundRows(w, point)
  BY <1>1, <1>2, <1>3, RowAddedIsSound
<1> QED
  BY <1>1, <1>4, HeldPatches, RecalculationIsSound

LEMMA AddPointIsSound ==
    ASSUME ProgressInv, NEW q \in Points, NEW t, AddPoint(q, t)
    PROVE  ProgressInv'
<1> DEFINE p == Added(point, {q}, NewPoint(t, FALSE))
<1>1. q \notin DOMAIN point /\ t \in DOMAIN work /\ Open(t) /\ Recalculate(patch, work, p)
  BY DEF AddPoint
<1>2. SoundRows(work, point) /\ PointsKept(point) /\ PointsWhole(point)
  BY HeldPatches, PointsStayWhole
<1>3. t \in Works /\ ~work[t].done
  BY <1>1, <1>2, OpenIsNotDone, WorksAssumption DEF SoundRows, RowsKept
<1>4. WithItems(p, point, {q})
  <2>1. {q} \in SUBSET Points /\ FALSE \in BOOLEAN
    OBVIOUS
  <2> QED
    BY <1>2, <1>3, <2>1, ItemsAdded
<1> HIDE DEF p
<1>5. SoundRows(work, p)
  <2>1. \A x \in DOMAIN p : p[x].child # NoWork => x \in DOMAIN point /\ p[x] = point[x]
    BY <1>4 DEF WithItems
  <2>2. PointsKept(p) /\ PointsWhole(p)
    BY <1>4 DEF WithItems
  <2> QED
    BY <1>2, <2>1, <2>2, PointsWrittenAreSound
<1> QED
  BY <1>1, <1>5, HeldPatches, RecalculationIsSound

LEMMA BranchPointIsSound ==
    ASSUME ProgressInv, NEW q, NEW t, NEW v, BranchPoint(q, t, v)
    PROVE  ProgressInv'
<1> DEFINE u == point[q].of
           w == Added(work, {t}, NewWork(u, v, TRUE))
           p == Branched(q, t)
<1>1. Flat(q) /\ Open(u) /\ t \in Works \ DOMAIN work /\ Recalculate(patch, w, p)
  BY DEF BranchPoint, Branched
<1>2. SoundRows(work, point)
  BY HeldPatches
<1>3. WithBranch(p, q, t) /\ PointsKept(p) /\ PointsWhole(p)
  BY <1>1, <1>2, ItemBranched
<1>4. u \in DOMAIN work
  BY <1>1, <1>2, ItemsOfTasks
<1>5. WithRow(w, t, u) /\ w[t].linked = TRUE
  BY <1>1, <1>2, <1>4, RowAdded
<1> HIDE DEF p, w
<1>6. \A x \in DOMAIN p : p[x].child # NoWork =>
          \/ x \in DOMAIN point /\ p[x] = point[x]
          \/ p[x].child = t /\ p[x].of = u /\ w[t].linked = TRUE
  BY <1>3, <1>5 DEF WithBranch
<1> HIDE DEF u
<1>7. SoundRows(w, p)
  BY <1>1, <1>2, <1>3, <1>4, <1>5, <1>6, RowAddedIsSound
<1> QED
  BY <1>1, <1>7, HeldPatches, RecalculationIsSound

LEMMA AddPackageIsSound ==
    ASSUME ProgressInv, NEW t, NEW ps \in SUBSET Points, NEW q, AddPackage(t, ps, q)
    PROVE  ProgressInv'
<1>1. t \in Works \ DOMAIN work /\ ps \cap DOMAIN point = {}
  BY DEF AddPackage
<1>2. SoundRows(work, point) /\ PointsKept(point) /\ PointsWhole(point)
  BY HeldPatches, PointsStayWhole
<1>3. CASE Recalculate(patch, Added(work, {t}, NewWork(NoWork, 0, FALSE)),
                       Added(point, ps, NewPoint(t, TRUE)))
  <2> DEFINE w == Added(work, {t}, NewWork(NoWork, 0, FALSE))
             p == Added(point, ps, NewPoint(t, TRUE))
  <2>1. WithItems(p, point, ps)
    BY <1>1, <1>2, ItemsAdded
  <2>2. WithRow(w, t, NoWork)
    BY <1>1, <1>2, RowAdded
  <2>3. Recalculate(patch, w, p)
    BY <1>3
  <2> HIDE DEF w, p
  <2>4. Open(NoWork)
    BY DEF Open
  <2>5. /\ PointsKept(p) /\ PointsWhole(p)
        /\ \A x \in DOMAIN p : p[x].child # NoWork => x \in DOMAIN point /\ p[x] = point[x]
    BY <2>1 DEF WithItems
  <2>6. SoundRows(w, p)
    BY <1>1, <1>2, <2>2, <2>4, <2>5, RowAddedIsSound
  <2> QED
    BY <2>3, <2>6, HeldPatches, RecalculationIsSound
<1>4. CASE /\ Flat(q) /\ Open(point[q].of)
           /\ Recalculate(patch, Added(work, {t}, NewWork(point[q].of, 0, TRUE)),
                          Added([point EXCEPT ![q].child = t], ps, NewPoint(t, TRUE)))
  <2> DEFINE u == point[q].of
             w == Added(work, {t}, NewWork(u, 0, TRUE))
             f == Branched(q, t)
             p == Added(f, ps, NewPoint(t, TRUE))
  <2>1. WithBranch(f, q, t) /\ PointsKept(f) /\ PointsWhole(f)
    BY <1>1, <1>2, <1>4, ItemBranched
  <2>2. u \in DOMAIN work /\ Open(u)
    BY <1>2, <1>4, ItemsOfTasks
  <2>3. Recalculate(patch, w, p)
    BY <1>4 DEF Branched
  <2>4. WithRow(w, t, u) /\ w[t].linked = TRUE
    BY <1>1, <1>2, <2>2, RowAdded
  <2> HIDE DEF f, w
  <2>5. WithItems(p, f, ps)
    BY <1>1, <2>1, ItemsAdded
  <2> HIDE DEF p
  <2>6. \A x \in DOMAIN p : p[x].child # NoWork =>
            \/ x \in DOMAIN point /\ p[x] = point[x]
            \/ p[x].child = t /\ p[x].of = u /\ w[t].linked = TRUE
    BY <2>1, <2>4, <2>5 DEF WithItems, WithBranch
  <2>7. PointsKept(p) /\ PointsWhole(p)
    BY <2>5 DEF WithItems
  <2> HIDE DEF u
  <2>8. SoundRows(w, p)
    BY <1>1, <1>2, <2>2, <2>4, <2>6, <2>7, RowAddedIsSound
  <2> QED
    BY <2>3, <2>8, HeldPatches, RecalculationIsSound
<1> QED
  BY <1>3, <1>4 DEF AddPackage

LEMMA AcceptIsSound ==
    ASSUME ProgressInv, NEW q, Accept(q)
    PROVE  ProgressInv'
<1> DEFINE p == [point EXCEPT ![q].ticked = TRUE]
<1>1. Flat(q) /\ Open(point[q].of) /\ Recalculate(patch, work, p)
  BY DEF Accept
<1>2. SoundRows(work, point) /\ DOMAIN point \subseteq Points /\ point \in [DOMAIN point -> Point]
  BY HeldPatches DEF SoundRows, PointsKept
<1>3. q \in DOMAIN point /\ point[q] \in Point /\ point[q].child = NoWork
  BY <1>1, <1>2, ItemsOfTasks
<1>4. /\ DOMAIN p = DOMAIN point /\ \A x \in DOMAIN point : x # q => p[x] = point[x]
      /\ p[q] = [point[q] EXCEPT !.ticked = TRUE]
  BY <1>2, <1>3
<1>5. p[q] \in Point /\ p[q].child = NoWork /\ p[q].ticked = TRUE
  BY <1>3, <1>4 DEF Point
<1>6. PointsKept(p) /\ PointsWhole(p)
  <2>1. p \in [DOMAIN point -> Point]
    BY <1>2, <1>3, <1>4, <1>5
  <2>2. PointsWhole(p)
    BY <1>4, <1>5 DEF PointsWhole
  <2> QED
    BY <1>2, <1>4, <2>1, <2>2 DEF PointsKept
<1>7. \A x \in DOMAIN p : p[x].child # NoWork => x \in DOMAIN point /\ p[x] = point[x]
  BY <1>4, <1>5
<1> HIDE DEF p
<1>8. SoundRows(work, p)
  BY <1>2, <1>6, <1>7, PointsWrittenAreSound
<1> QED
  BY <1>1, <1>8, HeldPatches, RecalculationIsSound

LEMMA RemovePointIsSound ==
    ASSUME ProgressInv, NEW q, RemovePoint(q)
    PROVE  ProgressInv'
<1> DEFINE p == [x \in DOMAIN point \ {q} |-> point[x]]
<1>1. Recalculate(patch, work, p)
  BY DEF RemovePoint
<1>2. SoundRows(work, point) /\ DOMAIN point \subseteq Points /\ point \in [DOMAIN point -> Point]
  BY HeldPatches DEF SoundRows, PointsKept
<1>3. DOMAIN p \subseteq DOMAIN point /\ \A x \in DOMAIN p : p[x] = point[x]
  OBVIOUS
<1>4. PointsKept(p) /\ PointsWhole(p)
  BY <1>2, <1>3 DEF PointsKept, PointsWhole
<1> HIDE DEF p
<1>5. SoundRows(work, p)
  BY <1>2, <1>3, <1>4, PointsWrittenAreSound
<1> QED
  BY <1>1, <1>5, HeldPatches, RecalculationIsSound

LEMMA DeleteWorkIsSound ==
    ASSUME ProgressInv, NEW t, DeleteWork(t)
    PROVE  ProgressInv'
<1> DEFINE rest == DOMAIN work \ WorkBelow(t)
           w == [u \in rest |-> work[u]]
           p == [q \in {x \in DOMAIN point : point[x].of \in rest} |-> point[q]]
<1>1. t \in DOMAIN work /\ ~work[t].linked /\ Recalculate(patch, w, p)
  BY DEF DeleteWork
<1>2. SoundRows(work, point)
  BY HeldPatches
<1>3. SoundRows(w, p)
  BY <1>1, <1>2, RowsRemoved
<1> HIDE DEF w, p
<1> QED
  BY <1>1, <1>3, HeldPatches, RecalculationIsSound

LEMMA MoveBulkIsSound ==
    ASSUME ProgressInv, NEW t, NEW u \in DOMAIN work \cup {NoWork}, MoveBulk(t, u)
    PROVE  ProgressInv'
<1> DEFINE w == [work EXCEPT ![t].parent = u]
<1>1. /\ t \in DOMAIN work /\ ~work[t].linked /\ u \notin WorkBelow(t) /\ Open(u)
      /\ Recalculate(patch, w, point)
  BY DEF MoveBulk
<1>2. SoundRows(work, point)
  BY HeldPatches
<1>3. u # NoWork => ~work[u].done
  BY <1>1, OpenIsNotDone
<1>4. SoundRows(w, point)
  BY <1>1, <1>2, <1>3, RowMoved
<1> HIDE DEF w
<1> QED
  BY <1>1, <1>4, HeldPatches, RecalculationIsSound

\* updateTaskProgress() and bulkUpdateTasks().
LEMMA GivenAndRecalculated ==
    ASSUME ProgressInv, NEW c, NEW v, SaveProgress(c, v) \/ SaveBulk(c, v), c \in Patchers
    PROVE  ProgressInv'
<1> DEFINE t == patch[c].of
           w == [work EXCEPT ![t].progress = v]
<1>1. Recalculate(Answered(c), w, point)
  BY DEF SaveProgress, SaveBulk
<1>2. SoundRows(work, point) /\ Answered(c) \in [Patchers -> Patch]
  BY HeldPatches
<1>3. t \in DOMAIN work
  BY DEF SaveProgress, SaveBulk, ProgressInv, PatchesKnow
<1> HIDE DEF t
<1>4. SoundRows(w, point)
  BY <1>2, <1>3, ProgressGiven
<1> HIDE DEF w
<1> QED
  BY <1>1, <1>2, <1>4, RecalculationIsSound

LEMMA ReportProgressIsSound ==
    ASSUME ProgressInv, NEW t, NEW v, ReportProgress(t, v)
    PROVE  ProgressInv'
<1> DEFINE w == [work EXCEPT ![t].progress = v]
<1>1. t \in DOMAIN work /\ Recalculate(patch, w, point)
  BY DEF ReportProgress
<1>2. SoundRows(w, point)
  BY <1>1, HeldPatches, ProgressGiven
<1> HIDE DEF w
<1> QED
  BY <1>1, <1>2, HeldPatches, RecalculationIsSound

\* updateTask() recalculates nothing: only what is completed stays whole.
LEMMA SavePatchIsSound ==
    ASSUME ProgressInv, NEW c \in Patchers, NEW v, SavePatch(c, v)
    PROVE  ProgressInv'
<1> DEFINE t == patch[c].of
           w == [work EXCEPT ![t].progress = v]
<1>1. /\ MayGive(t, v) /\ work' = w /\ patch' = Refuse(Answered(c), work')
      /\ skipped' = (skipped \/ work' # work) /\ point' = point
  BY DEF SavePatch
<1>2. /\ SoundRows(work, point) /\ Answered(c) \in [Patchers -> Patch]
      /\ skipped \in BOOLEAN /\ ProgressIsSound
  BY HeldPatches DEF ProgressInv
<1>3. t \in DOMAIN work
  BY DEF SavePatch, ProgressInv, PatchesKnow
<1> HIDE DEF t
<1>4. /\ SoundRows(w, point) /\ DOMAIN w = DOMAIN work
      /\ \A x \in DOMAIN work : /\ w[x].parent = work[x].parent /\ w[x].done = work[x].done
                                /\ w[x].progress = IF x = t THEN v ELSE work[x].progress
  BY <1>2, <1>3, ProgressGiven
<1> HIDE DEF w
<1>5. SoundRows(work', point')
  BY <1>1, <1>4
<1>6. PatchesKnow(patch', work')
  BY <1>1, <1>2, RefusedKnow
<1>7. skipped' \in BOOLEAN
  BY <1>1
<1>8. ProgressIsDerivedIfRecalculated'
  <2> SUFFICES ASSUME ~skipped' PROVE ProgressIsDerived'
    BY DEF ProgressIsDerivedIfRecalculated
  <2>1. ~skipped /\ work' = work
    BY <1>1
  <2>2. ProgressIsDerived
    BY <1>2, <2>1 DEF ProgressIsSound, ProgressIsDerivedIfRecalculated
  <2> QED
    BY <1>1, <2>1, <2>2 DEF ProgressIsDerived
<1>9. DoneIsFull'
  <2>1. DoneIsFull
    BY <1>2 DEF ProgressIsSound
  <2> QED
    BY <1>1, <1>3, <1>4, <2>1 DEF DoneIsFull, MayGive
<1> QED
  BY <1>5, <1>6, <1>7, <1>8, <1>9 DEF ProgressInv, ProgressIsSound

LEMMA WaitingIsSound ==
    ASSUME ProgressInv, NEW c \in Patchers, NEW t,
           LoadOne(c, t) \/ LoadBulk(c, t) \/ GivesUp(c)
    PROVE  ProgressInv'
<1>1. UNCHANGED <<work, point, skipped>>
  BY DEF LoadOne, LoadBulk, ReadsWork, GivesUp
<1>2. PatchesKnow(patch', work')
  <2>1. PatchesKnow(patch, work) /\ patch \in [Patchers -> Patch] /\ DOMAIN work \subseteq Works
    BY DEF ProgressInv, PatchesKnow, SoundRows, RowsKept
  <2>2. CASE LoadOne(c, t) \/ LoadBulk(c, t)
    <3>1. PICK phase \in {"one", "bulk"} : ReadsWork(c, phase, t)
      BY <2>2 DEF LoadOne, LoadBulk
    <3>2. t \in DOMAIN work /\ patch' = [patch EXCEPT ![c] = [phase |-> phase, of |-> t]]
      BY <3>1 DEF ReadsWork
    <3>3. [phase |-> phase, of |-> t] \in Patch
      BY <2>1, <3>2 DEF Patch
    <3> QED
      BY <1>1, <2>1, <3>2, <3>3 DEF PatchesKnow
  <2>3. CASE GivesUp(c)
    <3>1. patch' = [patch EXCEPT ![c] = IdlePatch]
      BY <2>3 DEF GivesUp, Answered
    <3>2. IdlePatch \in Patch /\ IdlePatch.phase # "one"
      BY DEF IdlePatch, Patch
    <3> QED
      BY <1>1, <2>1, <3>1, <3>2 DEF PatchesKnow
  <2> QED
    BY <2>2, <2>3
<1> QED
  BY <1>1, <1>2 DEF ProgressInv, ProgressIsSound, ProgressIsDerivedIfRecalculated, ProgressIsDerived,
                    DoneIsFull

LEMMA ProgressStarts == ProgressInit => ProgressInv
<1> SUFFICES ASSUME ProgressInit PROVE ProgressInv
  OBVIOUS
<1>1. /\ DOMAIN work = {} /\ DOMAIN point = {} /\ skipped = FALSE
      /\ work = [t \in DOMAIN work |-> work[t]] /\ point \in [DOMAIN point -> Point]
      /\ patch = [c \in Patchers |-> IdlePatch]
  BY DEF ProgressInit
<1>2. SoundRows(work, point)
  BY <1>1 DEF SoundRows, RowsKept, PointsKept, Grounded, Fitting, DoneIsWhole
<1>3. PatchesKnow(patch, work)
  <2>1. IdlePatch \in Patch /\ IdlePatch.phase # "one"
    BY DEF IdlePatch, Patch
  <2> QED
    BY <1>1, <2>1 DEF PatchesKnow
<1>4. ProgressIsSound
  BY <1>1 DEF ProgressIsSound, ProgressIsDerivedIfRecalculated, ProgressIsDerived, DoneIsFull
<1> QED
  BY <1>1, <1>2, <1>3, <1>4 DEF ProgressInv

LEMMA ProgressStaysSound == ProgressInv /\ [ProgressNext]_progressVars => ProgressInv'
<1> SUFFICES ASSUME ProgressInv, [ProgressNext]_progressVars PROVE ProgressInv'
  OBVIOUS
<1>1. ASSUME Adds PROVE ProgressInv'
  BY <1>1, AddTaskIsSound, AddPointIsSound, BranchPointIsSound, AddPackageIsSound DEF Adds
<1>2. ASSUME WorkIsDone PROVE ProgressInv'
  BY <1>2, AcceptIsSound, RemovePointIsSound, DeleteWorkIsSound, MoveBulkIsSound,
           ReportProgressIsSound DEF WorkIsDone
<1>3. ASSUME NEW c \in Patchers, Asks(c) PROVE ProgressInv'
  BY <1>3, WaitingIsSound, GivenAndRecalculated, SavePatchIsSound DEF Asks
<1>4. CASE UNCHANGED progressVars
  BY <1>4 DEF progressVars, ProgressInv, ProgressIsSound, ProgressIsDerivedIfRecalculated,
              ProgressIsDerived, DoneIsFull
<1> QED
  BY <1>1, <1>2, <1>3, <1>4 DEF ProgressNext

(***************************************************************************)
(* However tasks and items are added, branched, done, moved and deleted    *)
(* under the requests that give percentages, a task with work below it has *)
(* the rounded mean of its package's items and of its subtasks as soon as  *)
(* recalculateProjectTaskProgress() has run, and a completed task always   *)
(* has all of its progress.                                                *)
(***************************************************************************)
THEOREM ProgressIsAlwaysSound == ProgressSpec => []ProgressIsSound
<1>1. ProgressInv => ProgressIsSound
  BY DEF ProgressInv
<1> QED
  BY <1>1, ProgressStarts, ProgressStaysSound, PTL DEF ProgressSpec
=============================================================================
