------------------------- MODULE ChecklistRefinement -------------------------
(***************************************************************************)
(* ChecklistWorkflow implements ReviewCycle: every step of the checklist   *)
(* is a step in the life of at most one item, or changes nothing that      *)
(* ReviewCycle can see.                                                    *)
(***************************************************************************)
EXTENDS ChecklistWorkflowProofs

Phase(item, there) ==
    IF ~there THEN "absent"
    ELSE IF item.branched THEN IF item.completed THEN "finished" ELSE "delegated"
    ELSE IF item.completed THEN "accepted"
    ELSE IF UnderReview(item) THEN "review" ELSE "open"

LEMMA PhaseIs ==
    ASSUME NEW i \in Items
    PROVE  /\ PhaseOf(i) = Phase(items[i], i \in present)
           /\ PhaseOf(i)' = Phase(items'[i], i \in present')
BY DEF PhaseOf, Phase, UnderReview

(***************************************************************************)
(* The task is completed exactly when it has items and all are over: true  *)
(* of any consistent rows, so before and after a step.                     *)
(***************************************************************************)
LEMMA DerivedCloses ==
    ASSUME NEW rows \in SUBSET Items, NEW its \in [Items -> Item], NEW stage,
           \A i \in Items : Agrees(its[i]), Derived(stage, rows, its)
    PROVE  (stage = DONE) = Cycle!Closes([i \in Items |-> Phase(its[i], i \in rows)])
<1> DEFINE ph == [i \in Items |-> Phase(its[i], i \in rows)]
<1>1. \A i \in Items :
        /\ ph[i] = "absent" <=> i \notin rows
        /\ ph[i] \in {"accepted", "finished"} <=> i \in rows /\ its[i].completed
  BY DEF Phase
<1>2. Cycle!Closes(ph) <=> rows # {} /\ \A i \in rows : its[i].completed
  BY <1>1 DEF Cycle!Closes, Cycle!Over
<1>3. ASSUME rows # {}, \A i \in rows : its[i].completed PROVE stage = DONE
  <2>1. \A i \in rows : its[i].stage = DONE
    BY <1>3 DEF Agrees
  <2>2. {its[i].stage : i \in rows} = {DONE}
    BY <1>3, <2>1
  <2>3. reduceStages({DONE}) = DONE
    BY DEF reduceStages, DONE
  <2>4. QED
    BY <2>2, <2>3 DEF Derived
<1>4. stage = DONE <=> Cycle!Closes(ph)
  BY <1>2, <1>3 DEF Derived
<1>5. (stage = DONE) \in BOOLEAN /\ Cycle!Closes(ph) \in BOOLEAN
  BY DEF Cycle!Closes
<1>6. QED
  BY <1>4, <1>5

LEMMA ClosesBeforeAndAfter ==
    ASSUME IInv, IInv'
    PROVE  /\ taskCompleted = Cycle!Closes([i \in Items |-> PhaseOf(i)])
           /\ taskCompleted' = Cycle!Closes([i \in Items |-> PhaseOf(i)'])
<1>1. taskCompleted = Cycle!Closes([i \in Items |-> Phase(items[i], i \in present)])
  BY DerivedCloses DEF IInv, TypeOK, Consistent, taskCompleted
<1>2. taskCompleted' = Cycle!Closes([i \in Items |-> Phase(items'[i], i \in present')])
  BY DerivedCloses DEF IInv, TypeOK, Consistent, taskCompleted
<1>3. /\ [i \in Items |-> PhaseOf(i)] = [i \in Items |-> Phase(items[i], i \in present)]
      /\ [i \in Items |-> PhaseOf(i)'] = [i \in Items |-> Phase(items'[i], i \in present')]
  BY PhaseIs
<1>4. QED
  BY <1>1, <1>2, <1>3

-----------------------------------------------------------------------------
(***************************************************************************)
(* A step that leaves every phase and every number of attempts alone, and  *)
(* one that moves a single item.                                           *)
(***************************************************************************)
SameAttempts == \A j \in Items : Len(submissions'[j]) = Len(submissions[j])

LEMMA StutterStep ==
    ASSUME IInv, IInv', SameAttempts, \A j \in Items : PhaseOf(j)' = PhaseOf(j)
    PROVE  UNCHANGED Cycle!cycle
<1>1. [j \in Items |-> PhaseOf(j)'] = [j \in Items |-> PhaseOf(j)]
  OBVIOUS
<1>2. [j \in Items |-> Len(submissions'[j])] = [j \in Items |-> Len(submissions[j])]
  BY DEF SameAttempts
<1>3. taskCompleted' = taskCompleted
  BY <1>1, ClosesBeforeAndAfter
<1>4. QED
  BY <1>1, <1>2, <1>3 DEF Cycle!cycle

OnlyItem(i) == \A j \in Items \ {i} : items'[j] = items[j] /\ (j \in present' <=> j \in present)

LEMMA BecomesStep ==
    ASSUME IInv, IInv', NEW i \in Items, OnlyItem(i), NEW from, NEW to,
           PhaseOf(i) = from, PhaseOf(i)' = to
    PROVE  Cycle!Becomes(i, from, to)
<1>1. \A j \in Items \ {i} : PhaseOf(j)' = PhaseOf(j)
  <2>1. ASSUME NEW j \in Items \ {i} PROVE PhaseOf(j)' = PhaseOf(j)
    <3>1. items'[j] = items[j] /\ (j \in present' <=> j \in present)
      BY DEF OnlyItem
    <3>2. QED
      BY <3>1, PhaseIs DEF Phase
  <2>2. QED
    BY <2>1
<1>2. [j \in Items |-> PhaseOf(j)'] = [[j \in Items |-> PhaseOf(j)] EXCEPT ![i] = to]
  BY <1>1
<1>3. taskCompleted' = Cycle!Closes([j \in Items |-> PhaseOf(j)'])
  BY ClosesBeforeAndAfter
<1>4. QED
  BY <1>2, <1>3 DEF Cycle!Becomes

LEMMA KeptStep ==
    ASSUME IInv, IInv', NEW i \in Items, OnlyItem(i), SameAttempts, PhaseOf(i)' = PhaseOf(i)
    PROVE  UNCHANGED Cycle!cycle
<1>1. ASSUME NEW j \in Items \ {i} PROVE PhaseOf(j)' = PhaseOf(j)
  <2>1. items'[j] = items[j] /\ (j \in present' <=> j \in present)
    BY DEF OnlyItem
  <2>2. QED
    BY <2>1, PhaseIs DEF Phase
<1>2. QED
  BY <1>1, StutterStep

\* [Next]_cycle of the abstract specification.
CycleStep == Cycle!Next \/ UNCHANGED Cycle!cycle

LEMMA ExecutedRefines ==
    ASSUME IInv, IInv', NEW i \in present, NEW u \in members, NEW to \in Statuses,
           NEW intent \in Intents, NEW reviewNote \in BOOLEAN, NEW version \in Nat,
           Executed(i, u, to, intent, reviewNote, version)
    PROVE  CycleStep
<1>1. TypeOK /\ i \in Items /\ u \in Users /\ items[i] \in Item
  BY DEF IInv, TypeOK
<1>2. /\ items'[i] = Persisted(items[i], to, version)
      /\ submissions'[i] = NextAttempts(i, u, intent, reviewNote)
      /\ \A j \in Items \ {i} : items'[j] = items[j] /\ submissions'[j] = submissions[j]
  BY <1>1, ExecutedType
<1>3. /\ ~items[i].completed /\ ~items[i].branched /\ ValidMove(items[i], to, intent)
      /\ present' = present /\ stageOf[items[i].status] # DONE
  BY DEF Executed
<1>4. /\ items'[i].status = to /\ ~items'[i].branched
      /\ items'[i].completed <=> stageOf[to] = DONE
  BY <1>1, <1>2, <1>3, PersistedAgrees
<1>5. OnlyItem(i)
  BY <1>2, <1>3 DEF OnlyItem
<1>6. /\ PhaseOf(i) = IF UnderReview(items[i]) THEN "review" ELSE "open"
      /\ PhaseOf(i)' = IF stageOf[to] = DONE THEN "accepted"
                       ELSE IF stageOf[to] = IN_REVIEW THEN "review" ELSE "open"
  BY <1>1, <1>3, <1>4, PhaseIs DEF Phase, UnderReview
<1>7. /\ intent = "SUBMIT" => Len(submissions'[i]) = Len(submissions[i]) + 1
      /\ intent # "SUBMIT" => Len(submissions'[i]) = Len(submissions[i])
  BY <1>1, <1>2, NextAttemptsEffect DEF Executed, Intents, Decisions
<1>8. intent # "SUBMIT" => SameAttempts
  BY <1>2, <1>7 DEF SameAttempts
<1>9. CASE intent = "SUBMIT"
  <2>1. PhaseOf(i) = "open" /\ PhaseOf(i)' = "review"
    BY <1>3, <1>6, <1>9 DEF ValidMove, IN_REVIEW, DONE
  <2>2. Cycle!Becomes(i, "open", "review")
    BY <2>1, <1>1, <1>5, BecomesStep
  <2>3. [j \in Items |-> Len(submissions'[j])]
          = [[j \in Items |-> Len(submissions[j])] EXCEPT ![i] = @ + 1]
    BY <1>1, <1>2, <1>7, <1>9
  <2>4. QED
    BY <2>2, <2>3, <1>1 DEF CycleStep, Cycle!Next, Cycle!Submit
<1>10. CASE intent = "ACCEPT"
  <2>1. PhaseOf(i) = "review" /\ PhaseOf(i)' = "accepted"
    BY <1>3, <1>6, <1>10 DEF ValidMove
  <2>2. Cycle!Becomes(i, "review", "accepted")
    BY <2>1, <1>1, <1>5, BecomesStep
  <2>3. [j \in Items |-> Len(submissions'[j])] = [j \in Items |-> Len(submissions[j])]
    BY <1>8, <1>10 DEF SameAttempts
  <2>4. QED
    BY <2>2, <2>3, <1>1 DEF CycleStep, Cycle!Next, Cycle!Accept
<1>11. CASE intent \in {"REJECT", "WITHDRAW"}
  <2>1. PhaseOf(i) = "review" /\ PhaseOf(i)' = "open"
    BY <1>3, <1>6, <1>11 DEF ValidMove
  <2>2. Cycle!Becomes(i, "review", "open")
    BY <2>1, <1>1, <1>5, BecomesStep
  <2>3. [j \in Items |-> Len(submissions'[j])] = [j \in Items |-> Len(submissions[j])]
    BY <1>8, <1>11 DEF SameAttempts
  <2>4. QED
    BY <2>2, <2>3, <1>1 DEF CycleStep, Cycle!Next, Cycle!Return
<1>12. CASE intent = "MOVE"
  <2>1. PhaseOf(i)' = PhaseOf(i)
    BY <1>3, <1>6, <1>12 DEF ValidMove, UnderReview, IN_REVIEW, DONE
  <2>2. QED
    BY <2>1, <1>1, <1>5, <1>8, <1>12, KeptStep DEF CycleStep
<1>13. QED
  BY <1>9, <1>10, <1>11, <1>12 DEF Intents

LEMMA NotedRefines ==
    ASSUME IInv, IInv', TypeOK, NEW i \in present, NEW u \in Users, NEW n \in Nat,
           NEW notes \in Seq(Nat), NEW version \in Nat, Noted(i, u, n, notes, version)
    PROVE  CycleStep
<1>1. i \in Items /\ items[i] \in Item
  BY DEF TypeOK
<1>2. /\ items'[i] = [items[i] EXCEPT !.version = version]
      /\ Len(submissions'[i]) = Len(submissions[i])
      /\ \A j \in Items \ {i} : items'[j] = items[j] /\ submissions'[j] = submissions[j]
  <2>1. /\ i \in Items
        /\ n \in 1 .. Len(submissions[i])
        /\ items' \in [Items -> Item]
        /\ submissions' \in [Items -> Seq(Submission)]
        /\ items'[i] = [items[i] EXCEPT !.version = version]
        /\ Len(submissions'[i]) = Len(submissions[i])
        /\ \A m \in 1 .. Len(submissions[i]) :
             submissions'[i][m] = IF m = n THEN [submissions[i][n] EXCEPT !.notes = notes]
                                  ELSE submissions[i][m]
        /\ \A j \in Items \ {i} : items'[j] = items[j] /\ submissions'[j] = submissions[j]
    BY NotedType
  <2>2. QED
    BY <2>1
<1>3. /\ items'[i].status = items[i].status /\ items'[i].completed = items[i].completed
      /\ items'[i].branched = items[i].branched /\ present' = present
  BY <1>1, <1>2 DEF Item, Noted
<1>4. PhaseOf(i)' = PhaseOf(i)
  BY <1>1, <1>3, PhaseIs DEF Phase, UnderReview
<1>5. OnlyItem(i) /\ SameAttempts
  BY <1>2, <1>3 DEF OnlyItem, SameAttempts
<1>6. QED
  BY <1>1, <1>4, <1>5, KeptStep DEF CycleStep

(***************************************************************************)
(* Definition edits move one item and submit nothing.                      *)
(***************************************************************************)
LEMMA EditRefines ==
    ASSUME IInv, IInv', NEW i \in Items, OnlyItem(i), UNCHANGED submissions,
           \/ PhaseOf(i)' = PhaseOf(i)
           \/ /\ PhaseOf(i) = "absent" /\ PhaseOf(i)' = "open"
              /\ ~taskCompleted /\ submissions[i] = <<>>
           \/ /\ PhaseOf(i) = "open" /\ PhaseOf(i)' = "absent"
              /\ ~taskCompleted /\ submissions[i] = <<>>
           \/ PhaseOf(i) = "open" /\ PhaseOf(i)' = "delegated"
           \/ PhaseOf(i) = "delegated" /\ PhaseOf(i)' = "finished"
    PROVE  CycleStep
<1>1. /\ SameAttempts
      /\ [j \in Items |-> Len(submissions'[j])] = [j \in Items |-> Len(submissions[j])]
  BY DEF SameAttempts
<1>2. submissions[i] = <<>> => [j \in Items |-> Len(submissions[j])][i] = 0
  OBVIOUS
<1>3. CASE PhaseOf(i)' = PhaseOf(i)
  BY <1>1, <1>3, KeptStep DEF CycleStep
<1>4. CASE /\ PhaseOf(i) = "absent" /\ PhaseOf(i)' = "open"
           /\ ~taskCompleted /\ submissions[i] = <<>>
  <2>1. Cycle!Becomes(i, "absent", "open")
    BY <1>4, BecomesStep
  <2>2. QED
    BY <2>1, <1>1, <1>2, <1>4 DEF CycleStep, Cycle!Next, Cycle!Define
<1>5. CASE /\ PhaseOf(i) = "open" /\ PhaseOf(i)' = "absent"
           /\ ~taskCompleted /\ submissions[i] = <<>>
  <2>1. Cycle!Becomes(i, "open", "absent")
    BY <1>5, BecomesStep
  <2>2. QED
    BY <2>1, <1>1, <1>2, <1>5 DEF CycleStep, Cycle!Next, Cycle!Drop
<1>6. CASE PhaseOf(i) = "open" /\ PhaseOf(i)' = "delegated"
  <2>1. Cycle!Becomes(i, "open", "delegated")
    BY <1>6, BecomesStep
  <2>2. QED
    BY <2>1, <1>1 DEF CycleStep, Cycle!Next, Cycle!Delegate
<1>7. CASE PhaseOf(i) = "delegated" /\ PhaseOf(i)' = "finished"
  <2>1. Cycle!Becomes(i, "delegated", "finished")
    BY <1>7, BecomesStep
  <2>2. QED
    BY <2>1, <1>1 DEF CycleStep, Cycle!Next, Cycle!Finish
<1>8. QED
  BY <1>3, <1>4, <1>5, <1>6, <1>7

LEMMA DefinitionsRefine ==
    ASSUME IInv, IInv', Definitions
    PROVE  CycleStep
<1>1. items \in [Items -> Item] /\ present \subseteq Items
  BY DEF IInv, TypeOK
<1>2. UNCHANGED submissions
  BY DefinitionsHistory
<1>3. NewItem \in Item /\ Phase(NewItem, TRUE) = "open"
  BY NewItemType, NewItemConsistent DEF Phase, NewItem
<1>4. ASSUME NEW i \in Items, AddItem(i) PROVE CycleStep
  <2>1. /\ OnlyItem(i) /\ i \notin present /\ i \in present' /\ items'[i] = NewItem
        /\ ~taskCompleted /\ submissions[i] = <<>>
    BY <1>1, <1>4 DEF AddItem, OnlyItem, assertOpenHierarchy, IInv, Blank
  <2>2. PhaseOf(i) = "absent" /\ PhaseOf(i)' = "open"
    BY <2>1, <1>3, PhaseIs DEF Phase
  <2>3. QED
    BY <2>1, <2>2, <1>2, EditRefines
<1>5. ASSUME NEW i \in Items, DeleteItem(i) PROVE CycleStep
  <2>1. /\ OnlyItem(i) /\ i \in present /\ i \notin present'
        /\ ~taskCompleted /\ submissions[i] = <<>>
        /\ ~items[i].branched /\ ~items[i].completed
    BY <1>1, <1>5 DEF DeleteItem, OnlyItem, assertOpenHierarchy
  <2>2. ~UnderReview(items[i])
    BY <2>1 DEF IInv, Consistent, Reviewed
  <2>3. PhaseOf(i) = "open" /\ PhaseOf(i)' = "absent"
    BY <2>1, <2>2, PhaseIs DEF Phase
  <2>4. QED
    BY <2>1, <2>3, <1>2, EditRefines
<1>6. ASSUME NEW i \in Items, BranchItem(i) PROVE CycleStep
  <2>1. PICK writes \in {1, 2} :
          items' = [items EXCEPT ![i] = [NewItem EXCEPT !.branched = TRUE,
                                                        !.version = items[i].version + writes]]
    BY <1>6 DEF BranchItem
  <2>2. OnlyItem(i) /\ i \in present /\ i \in present'
    BY <2>1, <1>1, <1>6 DEF BranchItem, OnlyItem
  <2>3. items'[i].branched /\ ~items'[i].completed
    BY <2>1, <1>1, <1>3, NewItemConsistent DEF Item
  <2>4. ~items[i].completed /\ ~items[i].branched /\ ~UnderReview(items[i])
    <3>1. items[i].stage # IN_REVIEW /\ ~items[i].completed /\ ~items[i].branched
      BY <1>6 DEF BranchItem, Branchable
    <3>2. QED
      BY <3>1 DEF IInv, Consistent, Agrees, UnderReview, NoStage, IN_REVIEW
  <2>5. PhaseOf(i) = "open" /\ PhaseOf(i)' = "delegated"
    BY <2>2, <2>3, <2>4, PhaseIs DEF Phase
  <2>6. QED
    BY <2>2, <2>5, <1>2, EditRefines
<1>7. ASSUME NEW i \in Items, NEW stage \in Stages, ChildMoves(i, stage) PROVE CycleStep
  <2>1. /\ OnlyItem(i) /\ i \in present /\ i \in present'
        /\ items[i].branched /\ items[i].stage # DONE
    BY <1>1, <1>7 DEF ChildMoves, OnlyItem
  <2>2. items'[i].branched
    BY <1>1, <1>7 DEF ChildMoves, Item
  <2>3. ~items[i].completed
    BY <2>1 DEF IInv, Consistent, Agrees
  <2>4. /\ PhaseOf(i) = "delegated"
        /\ PhaseOf(i)' = IF items'[i].completed THEN "finished" ELSE "delegated"
    BY <2>1, <2>2, <2>3, PhaseIs DEF Phase
  <2>5. QED
    BY <2>1, <2>4, <1>2, EditRefines
<1>8. ASSUME NEW i \in Items, UpdateItem(i) PROVE CycleStep
  <2>1. /\ OnlyItem(i) /\ i \in present /\ i \in present'
        /\ items' = [items EXCEPT ![i].version = items[i].version + 1]
    BY <1>1, <1>8 DEF UpdateItem, OnlyItem
  <2>2. /\ items'[i].status = items[i].status /\ items'[i].completed = items[i].completed
        /\ items'[i].branched = items[i].branched
    BY <2>1, <1>1 DEF Item
  <2>3. PhaseOf(i)' = PhaseOf(i)
    BY <2>1, <2>2, PhaseIs DEF Phase, UnderReview
  <2>4. QED
    BY <2>1, <2>3, <1>2, EditRefines
<1>9. QED
  BY <1>4, <1>5, <1>6, <1>7, <1>8 DEF Definitions

(***************************************************************************)
(* The checklist of a task implements the review cycle: for any number of  *)
(* users, items, keys and statuses, items go through open, review and      *)
(* accepted (or delegated and finished) one step at a time, and the task   *)
(* closes in the same transaction as its last item.                        *)
(***************************************************************************)
THEOREM Refinement == Spec => ImplementsReviewCycle
<1>1. Init => Cycle!Init
  <2> SUFFICES ASSUME Init PROVE Cycle!Init
    OBVIOUS
  <2>1. \A i \in Items : PhaseOf(i) = "absent"
    BY PhaseIs DEF Init, Phase
  <2>2. \A i \in Items : Len(submissions[i]) = 0
    BY DEF Init
  <2>3. taskCompleted = FALSE
    BY DEF Init, taskCompleted, TODO, DONE
  <2>4. QED
    BY <2>1, <2>2, <2>3 DEF Cycle!Init
<1>2. IInv /\ IInv' /\ [Next]_vars => [Cycle!Next]_(Cycle!cycle)
  <2> SUFFICES ASSUME IInv, IInv', [Next]_vars PROVE CycleStep
    BY DEF CycleStep
  <2>1. ASSUME NEW i \in present, NEW u \in members, NEW to \in Statuses, NEW intent \in Intents,
               NEW reviewNote \in BOOLEAN, NEW version \in Nat,
               Executed(i, u, to, intent, reviewNote, version)
        PROVE  CycleStep
    BY <2>1, ExecutedRefines
  <2>2. ASSUME NEW i \in present, NEW u \in members, NEW n \in Nat, NEW notes \in Seq(Nat),
               NEW version \in Nat, Noted(i, u, n, notes, version)
        PROVE  CycleStep
    <3>1. TypeOK /\ u \in Users
      BY DEF IInv, TypeOK
    <3>2. QED
      BY <2>2, <3>1, NotedRefines
  <2>3. CASE UNCHANGED <<present, items, submissions>>
    <3>1. SameAttempts /\ \A j \in Items : PhaseOf(j)' = PhaseOf(j)
      BY <2>3, PhaseIs DEF SameAttempts
    <3>2. QED
      BY <3>1, StutterStep DEF CycleStep
  <2>4. QED
    BY <2>1, <2>2, <2>3, StepCases, DefinitionsRefine
<1>3. QED
  BY <1>1, <1>2, Invariance, PTL DEF Spec, ImplementsReviewCycle, Cycle!Spec

=============================================================================
