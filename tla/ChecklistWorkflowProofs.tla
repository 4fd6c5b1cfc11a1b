----------------------- MODULE ChecklistWorkflowProofs -----------------------
(***************************************************************************)
(* Theorems about ChecklistWorkflow for every set of users, items, keys    *)
(* and statuses, and every bound.                                          *)
(***************************************************************************)
EXTENDS ChecklistWorkflow, SequenceTheorems, TLAPS

(***************************************************************************)
(* A project has a status for each canonical stage, and only one.          *)
(***************************************************************************)
LEMMA StatusOfStage ==
    ASSUME NEW s \in Stages
    PROVE  StatusOf(s) \in Statuses /\ stageOf[StatusOf(s)] = s
BY CanonicalMapping DEF StatusOf

(***************************************************************************)
(* The lowest of some stages is one of them, and none is lower.            *)
(***************************************************************************)
LEMMA LowestStage ==
    ASSUME NEW S \in SUBSET Stages, S # {}
    PROVE  /\ reduceStages(S) \in S
           /\ \A s \in S : reduceStages(S) <= s
<1>1. \E s \in S : \A t \in S : s <= t
  <2>1. CASE TODO \in S
    BY <2>1 DEF Stages, TODO, DONE
  <2>2. CASE TODO \notin S /\ IN_PROGRESS \in S
    BY <2>2 DEF Stages, TODO, DONE, IN_PROGRESS
  <2>3. CASE TODO \notin S /\ IN_PROGRESS \notin S /\ IN_REVIEW \in S
    BY <2>3 DEF Stages, TODO, DONE, IN_PROGRESS, IN_REVIEW
  <2>4. CASE TODO \notin S /\ IN_PROGRESS \notin S /\ IN_REVIEW \notin S
    <3>1. \A s \in S : s = DONE
      BY <2>4 DEF Stages, TODO, DONE, IN_PROGRESS, IN_REVIEW
    <3>2. QED
      BY <3>1 DEF DONE
  <2>5. QED
    BY <2>1, <2>2, <2>3, <2>4
<1>2. QED
  BY <1>1 DEF reduceStages

LEMMA ReduceType ==
    ASSUME NEW S \in SUBSET Stages
    PROVE  reduceStages(S) \in Stages
<1>1. CASE S = {}
  BY <1>1 DEF reduceStages, Stages, TODO, DONE
<1>2. CASE S # {}
  BY <1>2, LowestStage
<1>3. QED
  BY <1>1, <1>2

LEMMA RollupType ==
    ASSUME NEW rows \in SUBSET Items, NEW its \in [Items -> Item]
    PROVE  rollupStage(rows, its) \in Stages
<1> DEFINE work == {IF its[i].completed THEN DONE ELSE its[i].stage : i \in rows}
<1>1. DONE \in Stages
  BY DEF Stages, TODO, DONE
<1>2. work \in SUBSET Stages
  BY <1>1 DEF Item
<1>3. reduceStages(work) \in Stages
  BY <1>2, ReduceType
<1>4. QED
  BY <1>1, <1>3 DEF rollupStage

LEMMA ActiveStageType ==
    ASSUME NEW previous \in Stages, NEW target \in Stages \cup {NoStage}
    PROVE  activeStage(previous, target) \in Stages
BY DEF activeStage, Stages, NoStage, TODO, IN_PROGRESS, DONE

LEMMA NewItemType == NewItem \in Item
BY StatusOfStage DEF NewItem, Item, Stages, TODO, DONE

-----------------------------------------------------------------------------
(***************************************************************************)
(* Attempts.                                                               *)
(***************************************************************************)
LEMMA ActiveAttemptType ==
    ASSUME TypeOK, NEW i \in Items
    PROVE  /\ DOMAIN submissions[i] = 1 .. Len(submissions[i])
           /\ Len(submissions[i]) \in Nat
           /\ Active(i) \subseteq 1 .. Len(submissions[i])
           /\ Active(i) # {} => ActiveAttempt(i) \in Active(i)
           /\ ActiveAttempt(i) \in Nat
<1>1. submissions[i] \in Seq(Submission)
  BY DEF TypeOK
<1>2. DOMAIN submissions[i] = 1 .. Len(submissions[i]) /\ Len(submissions[i]) \in Nat
  BY <1>1
<1>3. Active(i) \subseteq 1 .. Len(submissions[i])
  BY <1>2 DEF Active
<1>4. Active(i) # {} => ActiveAttempt(i) \in Active(i)
  BY DEF ActiveAttempt
<1>5. ActiveAttempt(i) \in Nat
  <2>1. CASE Active(i) = {}
    BY <2>1 DEF ActiveAttempt, NoAttempt
  <2>2. CASE Active(i) # {}
    BY <2>2, <1>2, <1>3, <1>4
  <2>3. QED
    BY <2>1, <2>2
<1>6. QED
  BY <1>2, <1>3, <1>4, <1>5

LEMMA NewAttemptType ==
    ASSUME NEW u \in Users
    PROVE  NewAttempt(u) \in Submission
BY DEF NewAttempt, Submission, Outcomes

LEMMA DecidedType ==
    ASSUME NEW attempt \in Submission, NEW u \in Users, NEW intent \in Decisions,
           NEW reviewNote \in BOOLEAN
    PROVE  /\ Decided(attempt, u, intent, reviewNote) \in Submission
           /\ Decided(attempt, u, intent, reviewNote).outcome = OutcomeOf[intent]
           /\ Decided(attempt, u, intent, reviewNote).decidedBy = u
<1>1. OutcomeOf[intent] \in Outcomes
  BY DEF OutcomeOf, Outcomes, Decisions
<1>2. attempt.notes \in Seq(Nat)
  BY DEF Submission
<1>3. Append(attempt.notes, 1) \in Seq(Nat)
  BY <1>2
<1> DEFINE notes == IF reviewNote THEN Append(attempt.notes, 1) ELSE attempt.notes
<1>4. notes \in Seq(Nat)
  BY <1>2, <1>3
<1> HIDE DEF notes
<1>5. Decided(attempt, u, intent, reviewNote)
         = [attempt EXCEPT !.outcome = OutcomeOf[intent], !.decidedBy = u, !.notes = notes]
  BY DEF Decided, notes, Submission
<1>6. QED
  BY <1>1, <1>4, <1>5 DEF Submission

(***************************************************************************)
(* What a command does to the attempts of its item: a submission appends   *)
(* one, a decision closes the active one, anything else leaves them alone. *)
(***************************************************************************)
LEMMA NextAttemptsEffect ==
    ASSUME TypeOK, NEW i \in Items, NEW u \in Users, NEW intent \in Intents,
           NEW reviewNote \in BOOLEAN, intent \in Decisions => Active(i) # {},
           NEW next, next = NextAttempts(i, u, intent, reviewNote)
    PROVE  /\ next \in Seq(Submission)
           /\ intent = "SUBMIT" =>
                /\ Len(next) = Len(submissions[i]) + 1
                /\ next[Len(submissions[i]) + 1] = NewAttempt(u)
                /\ \A n \in 1 .. Len(submissions[i]) : next[n] = submissions[i][n]
           /\ intent \in Decisions =>
                /\ Len(next) = Len(submissions[i])
                /\ next[ActiveAttempt(i)]
                     = Decided(submissions[i][ActiveAttempt(i)], u, intent, reviewNote)
                /\ \A n \in 1 .. Len(submissions[i]) :
                     n # ActiveAttempt(i) => next[n] = submissions[i][n]
           /\ intent = "MOVE" => next = submissions[i]
<1> DEFINE old == submissions[i]
<1>1. old \in Seq(Submission)
  BY DEF TypeOK
<1>2. CASE intent = "SUBMIT"
  <2>1. next = Append(old, NewAttempt(u))
    BY <1>2 DEF NextAttempts, Decisions
  <2>2. QED
    BY <2>1, <1>1, <1>2, NewAttemptType, AppendProperties DEF Decisions
<1>3. CASE intent \in Decisions
  <2> DEFINE n == ActiveAttempt(i)
             attempt == Decided(old[n], u, intent, reviewNote)
  <2>1. n \in 1 .. Len(old)
    BY <1>3, ActiveAttemptType
  <2>2. old[n] \in Submission
    BY <2>1, <1>1
  <2>3. attempt \in Submission
    BY <2>2, <1>3, DecidedType
  <2>4. next = [old EXCEPT ![n] = attempt]
    BY <1>3, <2>1, <1>1 DEF NextAttempts, Decisions
  <2> HIDE DEF n, attempt
  <2>5. /\ next \in Seq(Submission) /\ Len(next) = Len(old)
        /\ \A m \in 1 .. Len(old) : next[m] = IF m = n THEN attempt ELSE old[m]
    BY <2>1, <2>3, <2>4, <1>1, ExceptSeq
  <2>6. QED
    BY <2>5, <2>1, <1>3 DEF n, attempt, Decisions
<1>4. CASE intent = "MOVE"
  BY <1>4, <1>1 DEF NextAttempts, Decisions
<1>5. QED
  BY <1>2, <1>3, <1>4 DEF Intents, Decisions

LEMMA CommandTypes ==
    ASSUME NEW target \in Statuses, NEW requested \in Intents \cup {NoIntent},
           NEW expected \in Nat, NEW submission \in Nat, NEW reviewNote \in BOOLEAN
    PROVE  /\ targetId(target, requested) \in Statuses
           /\ hashOf(target, requested, expected, submission, reviewNote) \in CommandHash
<1>1. StatusOf(IN_REVIEW) \in Statuses /\ StatusOf(DONE) \in Statuses
  BY StatusOfStage DEF Stages, TODO, IN_REVIEW, DONE
<1>2. targetId(target, requested) \in Statuses
  BY <1>1 DEF targetId
<1>3. hashIntent(targetId(target, requested), requested) \in Intents
  BY DEF hashIntent, Intents, NoIntent
<1>4. QED
  BY <1>2, <1>3 DEF hashOf, CommandHash

LEMMA IntentType ==
    ASSUME NEW item, NEW target, NEW roles, NEW requested \in Intents \cup {NoIntent}
    PROVE  InferredIntent(item, target, roles, requested) \in Intents
BY DEF InferredIntent, Intents, NoIntent

LEMMA PersistedType ==
    ASSUME NEW item \in Item, NEW target \in Statuses, NEW version \in Nat
    PROVE  Persisted(item, target, version) \in Item
<1>1. stageOf[target] \in Stages \cup {NoStage}
  BY CanonicalMapping
<1>2. activeStage(item.stage, stageOf[target]) \in Stages
  BY <1>1, ActiveStageType DEF Item
<1>3. (stageOf[target] = DONE) \in BOOLEAN
  OBVIOUS
<1>4. QED
  BY <1>2, <1>3 DEF Persisted, Item

-----------------------------------------------------------------------------
(***************************************************************************)
(* What a command that is executed found, and what it does.                *)
(***************************************************************************)
Executed(i, u, to, intent, reviewNote, version) ==
    /\ ~items[i].branched /\ ~items[i].completed /\ stageOf[items[i].status] # DONE
    /\ TaskOpen
    /\ ValidMove(items[i], to, intent)
    /\ intent \in Decisions => Active(i) # {}
    /\ intent = "SUBMIT" => Active(i) = {}
    /\ IF intent \in {"ACCEPT", "REJECT"} THEN u = reportee ELSE u \in assignees
    /\ items' = [items EXCEPT ![i] = Persisted(items[i], to, version)]
    /\ submissions' = [submissions EXCEPT ![i] = NextAttempts(i, u, intent, reviewNote)]
    /\ taskStage' = rollupStage(present, items')
    /\ UNCHANGED <<present, task, members>>

LEMMA ExecuteEffect ==
    ASSUME TypeOK, NEW i \in present, NEW u \in Users, NEW k \in Keys, NEW target \in Statuses,
           NEW requested \in Intents \cup {NoIntent}, NEW expected \in Nat,
           NEW submission \in Nat, NEW reviewNote \in BOOLEAN,
           Execute(i, u, k, target, requested, expected, submission, reviewNote)
    PROVE  /\ \E to \in Statuses, intent \in Intents, version \in Nat :
                 Executed(i, u, to, intent, reviewNote, version)
           /\ \E r \in Receipt : receipts' = receipts \cup {r}
<1> DEFINE to == targetId(target, requested)
           intent == IntentOf(i, u, to, requested)
           hash == hashOf(target, requested, expected, submission, reviewNote)
           n == IF intent = "SUBMIT" THEN Len(submissions'[i]) ELSE ActiveAttempt(i)
<1>1. i \in Items /\ items[i] \in Item
  BY DEF TypeOK
<1>2. to \in Statuses /\ hash \in CommandHash
  BY CommandTypes
<1>3. intent \in Intents
  BY IntentType DEF IntentOf
<1>4. Permits(i, u, to, requested, expected, submission)
  BY DEF Execute
<1>5. /\ Authorizes(items[i], to, relationships(u), requested)
      /\ TaskOpen
      /\ intent \in Decisions => Active(i) # {}
      /\ intent = "SUBMIT" => Active(i) = {}
  BY <1>4 DEF Permits
<1>6. /\ ~items[i].branched /\ ~items[i].completed /\ stageOf[items[i].status] # DONE
      /\ ValidMove(items[i], to, intent)
      /\ IF intent \in {"ACCEPT", "REJECT"} THEN u = reportee ELSE u \in assignees
  BY <1>5 DEF Authorizes, IntentOf, relationships
<1>7. PICK step \in {0, 1} :
        /\ items' = [items EXCEPT ![i] = Persisted(items[i], to, items[i].version + step)]
        /\ receipts' = receipts \cup
             {[item |-> i, actor |-> u, key |-> k, hash |-> hash,
               moved |-> to # items[i].status, revision |-> items[i].version + step,
               attempt |-> n,
               outcome |-> IF n = NoAttempt THEN "NONE" ELSE submissions'[i][n].outcome]}
  BY <1>1 DEF Execute, TypeOK
<1>8. items[i].version + step \in Nat
  BY <1>1 DEF Item
<1>9. /\ submissions' = [submissions EXCEPT ![i] = NextAttempts(i, u, intent, reviewNote)]
      /\ taskStage' = rollupStage(present, items')
      /\ UNCHANGED <<present, task, members>>
  BY DEF Execute
<1>10. Executed(i, u, to, intent, reviewNote, items[i].version + step)
  BY <1>5, <1>6, <1>7, <1>9 DEF Executed
<1>11. n \in Nat /\ (n # NoAttempt => submissions'[i][n] \in Submission)
  <2>1. submissions'[i] = NextAttempts(i, u, intent, reviewNote)
    BY <1>1, <1>9 DEF TypeOK
  <2>2. /\ submissions'[i] \in Seq(Submission)
        /\ intent = "SUBMIT" => Len(submissions'[i]) = Len(submissions[i]) + 1
        /\ intent # "SUBMIT" => Len(submissions'[i]) = Len(submissions[i])
    BY <2>1, <1>1, <1>3, <1>5, NextAttemptsEffect DEF Intents, Decisions
  <2>3. n # NoAttempt => n \in 1 .. Len(submissions'[i])
    BY <2>2, <1>1, ActiveAttemptType DEF ActiveAttempt, NoAttempt
  <2>4. n \in Nat
    BY <2>2, <1>1, ActiveAttemptType
  <2>5. QED
    BY <2>2, <2>3, <2>4
<1> DEFINE outcome == IF n = NoAttempt THEN "NONE" ELSE submissions'[i][n].outcome
<1>12. outcome \in Outcomes \cup {"NONE"}
  BY <1>11 DEF Submission
<1>13. (to # items[i].status) \in BOOLEAN
  OBVIOUS
<1> HIDE DEF to, intent, hash, n, outcome
<1>14. [item |-> i, actor |-> u, key |-> k, hash |-> hash,
        moved |-> to # items[i].status, revision |-> items[i].version + step,
        attempt |-> n, outcome |-> outcome] \in Receipt
  BY <1>1, <1>2, <1>8, <1>11, <1>12, <1>13 DEF Receipt
<1>15. QED
  BY <1>2, <1>3, <1>7, <1>8, <1>10, <1>14 DEF outcome

(***************************************************************************)
(* What a note command found, and what it does.                            *)
(***************************************************************************)
Noted(i, u, n, notes, version) ==
    /\ n \in Active(i)
    /\ u = reportee
    /\ ~items[i].completed /\ ~items[i].branched
    /\ items' = [items EXCEPT ![i].version = version]
    /\ submissions' = [submissions EXCEPT ![i] =
                         [submissions[i] EXCEPT ![n] = [submissions[i][n] EXCEPT !.notes = notes]]]
    /\ UNCHANGED <<present, taskStage, task, members>>

LEMMA NotesEffect ==
    ASSUME TypeOK, NEW i \in present, NEW u \in Users, NEW k \in Keys,
           NEW note \in 0 .. MaxNotes, NEW expected \in Nat,
           NEW n \in DOMAIN submissions[i], Notes(i, u, k, note, expected, n)
    PROVE  /\ \E notes \in Seq(Nat), version \in Nat : Noted(i, u, n, notes, version)
           /\ \E r \in Receipt : receipts' = receipts \cup {r}
<1> USE BoundsAssumption
<1> DEFINE kept == submissions[i][n].notes
           noteRevision == IF note \in DOMAIN kept THEN kept[note] ELSE 0
           notes == IF note = 0 THEN Append(kept, 1)
                    ELSE [kept EXCEPT ![note] = noteRevision + 1]
           hash == [note |-> note, noteRevision |-> noteRevision,
                    expected |-> expected, submission |-> n]
<1>1. i \in Items /\ items[i] \in Item /\ submissions[i] \in Seq(Submission)
  BY DEF TypeOK
<1>2. /\ DOMAIN submissions[i] = 1 .. Len(submissions[i]) /\ Len(submissions[i]) \in Nat
      /\ n \in Nat /\ submissions[i][n] \in Submission
  BY <1>1, ActiveAttemptType
<1>3. kept \in Seq(Nat) /\ DOMAIN kept = 1 .. Len(kept)
  BY <1>2 DEF Submission
<1>4. noteRevision \in Nat
  BY <1>3
<1>5. /\ n \in Active(i) /\ u = reportee /\ ~items[i].completed /\ ~items[i].branched
      /\ note # 0 => note \in DOMAIN kept
  BY DEF Notes, PermitsNote
<1>6. notes \in Seq(Nat)
  <2>1. CASE note = 0
    BY <2>1, <1>3
  <2>2. CASE note # 0
    <3>1. note \in 1 .. Len(kept) /\ noteRevision + 1 \in Nat
      BY <2>2, <1>3, <1>4, <1>5
    <3> HIDE DEF kept, noteRevision
    <3>2. [kept EXCEPT ![note] = noteRevision + 1] \in Seq(Nat)
      BY <3>1, <1>3, ExceptSeq
    <3>3. QED
      BY <2>2, <3>2
  <2>3. QED
    BY <2>1, <2>2
<1>7. items[i].version + 1 \in Nat
  BY <1>1 DEF Item
<1>8. /\ submissions' = [submissions EXCEPT ![i][n].notes = notes]
      /\ items' = [items EXCEPT ![i].version = items[i].version + 1]
      /\ receipts' = receipts \cup
           {[item |-> i, actor |-> u, key |-> k, hash |-> hash, moved |-> FALSE,
             revision |-> items[i].version + 1, attempt |-> n, outcome |-> "NONE"]}
      /\ UNCHANGED <<present, taskStage, task, members>>
  BY DEF Notes
<1>9. hash \in NoteHash
  <2>1. note \in Nat
    OBVIOUS
  <2> HIDE DEF noteRevision
  <2>2. QED
    BY <2>1, <1>2, <1>4 DEF NoteHash
<1> HIDE DEF kept, noteRevision, notes, hash
<1>10. Noted(i, u, n, notes, items[i].version + 1)
  BY <1>1, <1>2, <1>5, <1>8 DEF Noted, TypeOK
<1>11. [item |-> i, actor |-> u, key |-> k, hash |-> hash, moved |-> FALSE,
        revision |-> items[i].version + 1, attempt |-> n, outcome |-> "NONE"] \in Receipt
  BY <1>1, <1>2, <1>7, <1>9 DEF Receipt
<1>12. QED
  BY <1>6, <1>7, <1>8, <1>10, <1>11

(***************************************************************************)
(* The four endpoints come down to these two effects.                      *)
(***************************************************************************)
LEMMA CommandCases ==
    ASSUME TypeOK, Commands
    PROVE  \E i \in present, u \in members :
              /\ \/ \E to \in Statuses, intent \in Intents, reviewNote \in BOOLEAN, version \in Nat :
                       Executed(i, u, to, intent, reviewNote, version)
                 \/ \E n \in Nat, notes \in Seq(Nat), version \in Nat :
                       Noted(i, u, n, notes, version)
              /\ \E r \in Receipt : receipts' = receipts \cup {r}
<1> USE BoundsAssumption
<1>1. PICK i \in present, u \in members, k \in Keys, expected \in 1 .. MaxRevision :
        \/ Drag(i, u, k, expected)
        \/ Submit(i, u, k, expected)
        \/ Decide(i, u, k, expected)
        \/ Annotate(i, u, k, expected)
  BY DEF Commands
<1>2. i \in Items /\ u \in Users /\ expected \in Nat
  BY DEF TypeOK
<1>3. DOMAIN submissions[i] \subseteq Nat
  BY <1>2, ActiveAttemptType
<1>4. CASE Drag(i, u, k, expected)
  <2>1. PICK target \in Statuses, requested \in Drags, reviewNote \in BOOLEAN :
          Execute(i, u, k, target, requested, expected, NoAttempt, reviewNote)
    BY <1>4 DEF Drag
  <2>2. requested \in Intents \cup {NoIntent} /\ NoAttempt \in Nat
    BY UsersAssumption DEF NoAttempt
  <2>3. QED
    BY <2>1, <2>2, <1>2, ExecuteEffect
<1>5. CASE Submit(i, u, k, expected)
  <2>1. Execute(i, u, k, StatusOf(IN_REVIEW), "SUBMIT", expected, NoAttempt, FALSE)
    BY <1>5 DEF Submit
  <2>2. StatusOf(IN_REVIEW) \in Statuses /\ "SUBMIT" \in Intents /\ NoAttempt \in Nat
    BY StatusOfStage DEF Stages, TODO, IN_REVIEW, DONE, Intents, NoAttempt
  <2>3. QED
    BY <2>1, <2>2, <1>2, ExecuteEffect
<1>6. CASE Decide(i, u, k, expected)
  <2>1. PICK target \in Statuses, decision \in Decisions, n \in DOMAIN submissions[i],
             reviewNote \in BOOLEAN :
          Execute(i, u, k, target, decision, expected, n, reviewNote)
    BY <1>6 DEF Decide
  <2>2. decision \in Intents /\ n \in Nat
    BY <1>3 DEF Decisions, Intents
  <2>3. QED
    BY <2>1, <2>2, <1>2, ExecuteEffect
<1>7. CASE Annotate(i, u, k, expected)
  <2>1. PICK n \in DOMAIN submissions[i], note \in 0 .. MaxNotes :
          Notes(i, u, k, note, expected, n)
    BY <1>7 DEF Annotate
  <2>2. QED
    BY <2>1, <1>2, <1>3, NotesEffect
<1>8. QED
  BY <1>1, <1>4, <1>5, <1>6, <1>7

LEMMA ExecutedType ==
    ASSUME TypeOK, NEW i \in present, NEW u \in Users, NEW to \in Statuses,
           NEW intent \in Intents, NEW reviewNote \in BOOLEAN, NEW version \in Nat,
           Executed(i, u, to, intent, reviewNote, version)
    PROVE  /\ i \in Items
           /\ items' \in [Items -> Item]
           /\ submissions' \in [Items -> Seq(Submission)]
           /\ taskStage' \in Stages
           /\ items'[i] = Persisted(items[i], to, version)
           /\ submissions'[i] = NextAttempts(i, u, intent, reviewNote)
           /\ \A j \in Items \ {i} : items'[j] = items[j] /\ submissions'[j] = submissions[j]
<1>1. i \in Items /\ items[i] \in Item
  BY DEF TypeOK
<1>2. Persisted(items[i], to, version) \in Item
  BY <1>1, PersistedType
<1>3. NextAttempts(i, u, intent, reviewNote) \in Seq(Submission)
  BY <1>1, NextAttemptsEffect DEF Executed
<1>4. /\ items' \in [Items -> Item] /\ submissions' \in [Items -> Seq(Submission)]
      /\ items'[i] = Persisted(items[i], to, version)
      /\ submissions'[i] = NextAttempts(i, u, intent, reviewNote)
      /\ \A j \in Items \ {i} : items'[j] = items[j] /\ submissions'[j] = submissions[j]
  BY <1>1, <1>2, <1>3 DEF Executed, TypeOK
<1>5. present \in SUBSET Items
  BY DEF TypeOK
<1>6. taskStage' \in Stages
  BY <1>4, <1>5, RollupType DEF Executed
<1>7. QED
  BY <1>1, <1>4, <1>6

LEMMA NotedType ==
    ASSUME TypeOK, NEW i \in present, NEW u \in Users, NEW n \in Nat, NEW notes \in Seq(Nat),
           NEW version \in Nat, Noted(i, u, n, notes, version)
    PROVE  /\ i \in Items
           /\ n \in 1 .. Len(submissions[i])
           /\ items' \in [Items -> Item]
           /\ submissions' \in [Items -> Seq(Submission)]
           /\ items'[i] = [items[i] EXCEPT !.version = version]
           /\ Len(submissions'[i]) = Len(submissions[i])
           /\ \A m \in 1 .. Len(submissions[i]) :
                submissions'[i][m] = IF m = n THEN [submissions[i][n] EXCEPT !.notes = notes]
                                     ELSE submissions[i][m]
           /\ \A j \in Items \ {i} : items'[j] = items[j] /\ submissions'[j] = submissions[j]
<1>1. i \in Items /\ items[i] \in Item /\ submissions[i] \in Seq(Submission)
  BY DEF TypeOK
<1>2. n \in 1 .. Len(submissions[i]) /\ submissions[i][n] \in Submission
  BY <1>1, ActiveAttemptType DEF Noted
<1> DEFINE attempt == [submissions[i][n] EXCEPT !.notes = notes]
           next == [submissions[i] EXCEPT ![n] = attempt]
<1>3. attempt \in Submission
  BY <1>2 DEF Submission
<1> HIDE DEF attempt
<1>4. /\ next \in Seq(Submission) /\ Len(next) = Len(submissions[i])
      /\ \A m \in 1 .. Len(submissions[i]) : next[m] = IF m = n THEN attempt ELSE submissions[i][m]
  BY <1>1, <1>2, <1>3, ExceptSeq
<1>5. submissions' = [submissions EXCEPT ![i] = next]
  BY DEF Noted, attempt
<1>6. [items[i] EXCEPT !.version = version] \in Item
  BY <1>1 DEF Item
<1>7. /\ items' = [items EXCEPT ![i] = [items[i] EXCEPT !.version = version]]
  BY DEF Noted
<1> HIDE DEF next
<1>8. QED
  BY <1>1, <1>2, <1>4, <1>5, <1>6, <1>7 DEF TypeOK, attempt

-----------------------------------------------------------------------------
(***************************************************************************)
(* Every variable keeps a value of its kind, whatever is sent, retried,    *)
(* edited or reorganised.                                                  *)
(***************************************************************************)
LEMMA InitType == Init => TypeOK
<1> SUFFICES ASSUME Init PROVE TypeOK
  OBVIOUS
<1>1. items \in [Items -> Item]
  BY NewItemType DEF Init
<1>2. submissions \in [Items -> Seq(Submission)]
  BY DEF Init
<1>3. taskStage \in Stages
  BY DEF Init, Stages, TODO, DONE
<1>4. /\ present \subseteq Items /\ receipts \subseteq Receipt /\ superseded \in BOOLEAN
      /\ members \subseteq Users
  BY DEF Init
<1>5. assignees \subseteq Users /\ reportee \in Users
  BY UsersAssumption DEF Init
<1>6. QED
  BY <1>1, <1>2, <1>3, <1>4, <1>5 DEF TypeOK

LEMMA CommandsType == TypeOK /\ Commands => TypeOK'
<1> SUFFICES ASSUME TypeOK, Commands PROVE TypeOK'
  OBVIOUS
<1>1. PICK i \in present, u \in members :
        /\ \/ \E to \in Statuses, intent \in Intents, reviewNote \in BOOLEAN, version \in Nat :
                 Executed(i, u, to, intent, reviewNote, version)
           \/ \E n \in Nat, notes \in Seq(Nat), version \in Nat :
                 Noted(i, u, n, notes, version)
        /\ \E r \in Receipt : receipts' = receipts \cup {r}
  BY CommandCases
<1>2. u \in Users /\ receipts' \subseteq Receipt
  BY <1>1 DEF TypeOK
<1>3. CASE \E to \in Statuses, intent \in Intents, reviewNote \in BOOLEAN, version \in Nat :
             Executed(i, u, to, intent, reviewNote, version)
  <2>1. /\ items' \in [Items -> Item] /\ submissions' \in [Items -> Seq(Submission)]
        /\ taskStage' \in Stages
    BY <1>2, <1>3, ExecutedType
  <2>2. UNCHANGED <<present, task, members>>
    BY <1>3 DEF Executed
  <2>3. QED
    BY <2>1, <2>2, <1>2 DEF TypeOK, task
<1>4. CASE \E n \in Nat, notes \in Seq(Nat), version \in Nat : Noted(i, u, n, notes, version)
  <2>1. items' \in [Items -> Item] /\ submissions' \in [Items -> Seq(Submission)]
    BY <1>2, <1>4, NotedType
  <2>2. UNCHANGED <<present, taskStage, task, members>>
    BY <1>4 DEF Noted
  <2>3. QED
    BY <2>1, <2>2, <1>2 DEF TypeOK, task
<1>5. QED
  BY <1>1, <1>3, <1>4

LEMMA DefinitionsType == TypeOK /\ Definitions => TypeOK'
<1> SUFFICES ASSUME TypeOK, Definitions PROVE TypeOK'
  OBVIOUS
<1>1. ASSUME NEW i \in Items PROVE items[i] \in Item
  BY DEF TypeOK
<1>2. ASSUME NEW i \in Items, AddItem(i)
      PROVE  /\ present' \in SUBSET Items /\ items' \in [Items -> Item]
             /\ taskStage' = rollupStage(present', items')
             /\ UNCHANGED <<submissions, receipts, task, members>>
  BY <1>2, NewItemType DEF AddItem, TypeOK
<1>3. ASSUME NEW i \in Items, UpdateItem(i)
      PROVE  /\ present' \in SUBSET Items /\ items' \in [Items -> Item]
             /\ taskStage' = rollupStage(present', items')
             /\ UNCHANGED <<submissions, receipts, task, members>>
  <2>1. [items[i] EXCEPT !.version = @ + 1] \in Item
    BY <1>1 DEF Item
  <2>2. QED
    BY <2>1, <1>3 DEF UpdateItem, TypeOK
<1>4. ASSUME NEW i \in Items, BranchItem(i)
      PROVE  /\ present' \in SUBSET Items /\ items' \in [Items -> Item]
             /\ taskStage' = rollupStage(present', items')
             /\ UNCHANGED <<submissions, receipts, task, members>>
  <2>1. PICK writes \in {1, 2} :
          items' = [items EXCEPT ![i] = [NewItem EXCEPT !.branched = TRUE,
                                                        !.version = items[i].version + writes]]
    BY <1>4 DEF BranchItem
  <2>2. [NewItem EXCEPT !.branched = TRUE, !.version = items[i].version + writes] \in Item
    <3>1. items[i].version + writes \in Nat
      BY <1>1 DEF Item
    <3>2. QED
      BY <3>1, NewItemType DEF Item
  <2>3. QED
    BY <2>1, <2>2, <1>4 DEF BranchItem, TypeOK
<1>5. ASSUME NEW i \in Items, DeleteItem(i)
      PROVE  /\ present' \in SUBSET Items /\ items' \in [Items -> Item]
             /\ taskStage' = rollupStage(present', items')
             /\ UNCHANGED <<submissions, receipts, task, members>>
  BY <1>5, NewItemType DEF DeleteItem, TypeOK
<1>6. ASSUME NEW i \in Items, NEW stage \in Stages, ChildMoves(i, stage)
      PROVE  /\ present' \in SUBSET Items /\ items' \in [Items -> Item]
             /\ taskStage' = rollupStage(present', items')
             /\ UNCHANGED <<submissions, receipts, task, members>>
  <2>1. [items[i] EXCEPT !.status = StatusOf(stage), !.stage = stage,
                         !.completed = stage = DONE, !.version = @ + 1] \in Item
    <3>1. items[i].version + 1 \in Nat
      BY <1>1 DEF Item
    <3>2. (stage = DONE) \in BOOLEAN
      OBVIOUS
    <3>3. QED
      BY <1>1, <3>1, <3>2, StatusOfStage DEF Item
  <2>2. QED
    BY <2>1, <1>6 DEF ChildMoves, TypeOK
<1>7. /\ present' \in SUBSET Items /\ items' \in [Items -> Item]
      /\ taskStage' = rollupStage(present', items')
      /\ UNCHANGED <<submissions, receipts, task, members>>
  BY <1>2, <1>3, <1>4, <1>5, <1>6 DEF Definitions
<1>8. taskStage' \in Stages
  BY <1>7, RollupType
<1>9. QED
  BY <1>7, <1>8 DEF TypeOK, task

LEMMA OrganisationType == TypeOK /\ Organisation => TypeOK'
<1> SUFFICES ASSUME TypeOK, Organisation PROVE TypeOK'
  OBVIOUS
<1> USE UsersAssumption
<1>1. ASSUME NEW team \in Teams, Reassign(team) PROVE TypeOK'
  <2>1. rollupStage(present, items) \in Stages
    BY RollupType DEF TypeOK
  <2>2. QED
    BY <2>1, <1>1 DEF Reassign, TypeOK
<1>2. ASSUME NEW u \in Users, Offboard(u) PROVE TypeOK'
  BY <1>2 DEF Offboard, TypeOK, task
<1>3. ASSUME NEW u \in Users, Join(u) PROVE TypeOK'
  BY <1>3 DEF Join, TypeOK, task
<1>4. ASSUME RemoveReportee PROVE TypeOK'
  BY <1>4 DEF RemoveReportee, TypeOK
<1>5. ASSUME Supersede PROVE TypeOK'
  BY <1>5 DEF Supersede, TypeOK
<1>6. QED
  BY <1>1, <1>2, <1>3, <1>4, <1>5 DEF Organisation

THEOREM TypeCorrect == Spec => []TypeOK
<1>1. TypeOK /\ [Next]_vars => TypeOK'
  <2> SUFFICES ASSUME TypeOK, [Next]_vars PROVE TypeOK'
    OBVIOUS
  <2>1. CASE Next
    BY <2>1, CommandsType, DefinitionsType, OrganisationType DEF Next
  <2>2. CASE UNCHANGED vars
    BY <2>2 DEF vars, task, TypeOK
  <2>3. QED
    BY <2>1, <2>2
<1>2. QED
  BY InitType, <1>1, PTL DEF Spec

-----------------------------------------------------------------------------
(***************************************************************************)
(* The inductive invariant.  The safety properties are not inductive on    *)
(* their own: that an item under review has an attempt to decide needs the *)
(* status and the stage to agree (branchItem() looks at the stage), that a *)
(* new item starts without history needs absent rows to be blank, and that *)
(* a completed task stays so needs its items to be completed.              *)
(***************************************************************************)
Reviewed(item, attempts) ==
    LET underReview == UnderReview(item) /\ ~item.branched
    IN  /\ underReview => Len(attempts) > 0
        /\ \A n \in 1 .. Len(attempts) :
              attempts[n].outcome = "SUBMITTED" <=> n = Len(attempts) /\ underReview

AcceptedOnce(item, attempts) ==
    LET done == item.completed /\ ~item.branched
    IN  /\ done => Len(attempts) > 0
        /\ \A n \in 1 .. Len(attempts) :
              attempts[n].outcome = "ACCEPTED" <=> n = Len(attempts) /\ done

Consistent(item, attempts) ==
    Agrees(item) /\ Reviewed(item, attempts) /\ AcceptedOnce(item, attempts)

Blank(item, attempts) == item = NewItem /\ attempts = <<>>

Derived(stage, rows, its) ==
    /\ stage = reduceStages({its[i].stage : i \in rows})
    /\ stage = DONE => rows # {} /\ \A i \in rows : its[i].completed

IInv ==
    /\ TypeOK
    /\ \A i \in Items : Consistent(items[i], submissions[i])
    /\ \A i \in Items \ present : Blank(items[i], submissions[i])
    /\ Derived(taskStage, present, items)

LEMMA NewItemConsistent == Agrees(NewItem) /\ ~UnderReview(NewItem) /\ ~NewItem.completed
BY StatusOfStage
   DEF Agrees, UnderReview, NewItem, NoStage, Stages, TODO, IN_PROGRESS, IN_REVIEW, DONE

LEMMA BlankConsistent ==
    ASSUME NEW item, NEW attempts, Blank(item, attempts)
    PROVE  Consistent(item, attempts)
<1>1. attempts = <<>> /\ Len(attempts) = 0
  BY DEF Blank
<1>2. QED
  BY <1>1, NewItemConsistent DEF Blank, Consistent, Reviewed, AcceptedOnce

(***************************************************************************)
(* The active attempt is the newest.                                       *)
(***************************************************************************)
LEMMA ActiveIsNewest ==
    ASSUME TypeOK, NEW i \in Items, Reviewed(items[i], submissions[i])
    PROVE  /\ Active(i) = IF UnderReview(items[i]) /\ ~items[i].branched
                          THEN {Len(submissions[i])} ELSE {}
           /\ Active(i) # {} => ActiveAttempt(i) = Len(submissions[i])
<1>1. DOMAIN submissions[i] = 1 .. Len(submissions[i]) /\ Len(submissions[i]) \in Nat
  BY ActiveAttemptType
<1>2. Active(i) = {n \in 1 .. Len(submissions[i]) : submissions[i][n].outcome = "SUBMITTED"}
  BY <1>1 DEF Active
<1>3. CASE UnderReview(items[i]) /\ ~items[i].branched
  <2>1. Active(i) = {Len(submissions[i])}
    BY <1>1, <1>2, <1>3 DEF Reviewed
  <2>2. QED
    BY <2>1, <1>3 DEF ActiveAttempt
<1>4. CASE ~(UnderReview(items[i]) /\ ~items[i].branched)
  BY <1>1, <1>2, <1>4 DEF Reviewed
<1>5. QED
  BY <1>3, <1>4

LEMMA PersistedAgrees ==
    ASSUME NEW item \in Item, NEW to \in Statuses, NEW version \in Nat
    PROVE  /\ Agrees(Persisted(item, to, version))
           /\ Persisted(item, to, version).status = to
           /\ Persisted(item, to, version).completed <=> stageOf[to] = DONE
           /\ Persisted(item, to, version).branched = item.branched
<1>1. stageOf[to] \in Stages \cup {NoStage} /\ item.stage \in Stages
  BY CanonicalMapping DEF Item
<1>2. /\ Persisted(item, to, version).status = to
      /\ Persisted(item, to, version).stage = activeStage(item.stage, stageOf[to])
      /\ Persisted(item, to, version).completed = (stageOf[to] = DONE)
      /\ Persisted(item, to, version).branched = item.branched
  BY DEF Persisted, Item
<1>3. Persisted(item, to, version).completed <=> stageOf[to] = DONE
  BY <1>2
<1> DEFINE stage == activeStage(item.stage, stageOf[to])
<1>4. /\ stageOf[to] = NoStage => stage \in {TODO, IN_PROGRESS}
      /\ stageOf[to] # NoStage => stage = stageOf[to]
  BY DEF activeStage
<1>5. stageOf[to] = DONE <=> stage = DONE
  BY <1>4 DEF NoStage, TODO, IN_PROGRESS, DONE
<1>6. Agrees(Persisted(item, to, version))
  BY <1>2, <1>3, <1>4, <1>5 DEF Agrees
<1>7. QED
  BY <1>2, <1>3, <1>6

LEMMA ExecutedConsistent ==
    ASSUME TypeOK, NEW i \in present, NEW u \in Users, NEW to \in Statuses,
           NEW intent \in Intents, NEW reviewNote \in BOOLEAN, NEW version \in Nat,
           Executed(i, u, to, intent, reviewNote, version),
           Consistent(items[i], submissions[i])
    PROVE  Consistent(items'[i], submissions'[i])
<1> DEFINE len == Len(submissions[i])
           next == NextAttempts(i, u, intent, reviewNote)
           new == Persisted(items[i], to, version)
<1>1. /\ i \in Items /\ items[i] \in Item /\ len \in Nat
      /\ items'[i] = new /\ submissions'[i] = next
      /\ submissions[i] \in Seq(Submission)
  BY ExecutedType, ActiveAttemptType DEF TypeOK
<1>2. /\ Agrees(new) /\ new.status = to /\ ~new.branched
      /\ new.completed <=> stageOf[to] = DONE
  BY <1>1, PersistedAgrees DEF Executed
<1>3. /\ intent = "SUBMIT" =>
           /\ Len(next) = len + 1
           /\ next[len + 1] = NewAttempt(u)
           /\ \A n \in 1 .. len : next[n] = submissions[i][n]
      /\ intent \in Decisions =>
           /\ Len(next) = len
           /\ next[ActiveAttempt(i)]
                = Decided(submissions[i][ActiveAttempt(i)], u, intent, reviewNote)
           /\ \A n \in 1 .. len : n # ActiveAttempt(i) => next[n] = submissions[i][n]
      /\ intent = "MOVE" => next = submissions[i]
  BY <1>1, NextAttemptsEffect DEF Executed
<1>4. /\ Active(i) = IF UnderReview(items[i]) THEN {len} ELSE {}
      /\ Active(i) # {} => ActiveAttempt(i) = len /\ len \in 1 .. len
  BY <1>1, ActiveIsNewest, ActiveAttemptType DEF Consistent, Executed
<1>5. /\ ~items[i].completed /\ ~items[i].branched
      /\ ValidMove(items[i], to, intent) /\ stageOf[items[i].status] # DONE
  BY DEF Executed
<1>6. \A n \in 1 .. len :
        /\ submissions[i][n].outcome = "SUBMITTED" <=> n = len /\ UnderReview(items[i])
        /\ submissions[i][n].outcome # "ACCEPTED"
  BY <1>5 DEF Consistent, Reviewed, AcceptedOnce
<1> HIDE DEF len, next, new
<1>7. CASE intent = "SUBMIT"
  <2>1. ~UnderReview(items[i]) /\ stageOf[to] = IN_REVIEW
    BY <1>5, <1>7 DEF ValidMove
  <2>2. NewAttempt(u).outcome = "SUBMITTED"
    BY DEF NewAttempt
  <2>3. UnderReview(new) /\ ~new.completed
    BY <2>1, <1>2 DEF UnderReview, IN_REVIEW, DONE
  <2>4. Reviewed(new, next) /\ AcceptedOnce(new, next)
    BY <2>1, <2>2, <2>3, <1>1, <1>2, <1>3, <1>6, <1>7 DEF Reviewed, AcceptedOnce
  <2>5. QED
    BY <2>4, <1>1, <1>2 DEF Consistent
<1>8. CASE intent \in Decisions
  <2>1. UnderReview(items[i]) /\ stageOf[to] # IN_REVIEW /\ (intent = "ACCEPT" <=> stageOf[to] = DONE)
    BY <1>5, <1>8 DEF ValidMove, Decisions, IN_REVIEW, DONE
  <2>2. ActiveAttempt(i) = len /\ len \in 1 .. len
    BY <2>1, <1>4
  <2>3. submissions[i][len] \in Submission
    BY <2>2, <1>1 DEF len
  <2>4. next[len].outcome = OutcomeOf[intent]
    BY <2>2, <2>3, <1>3, <1>8, DecidedType
  <2>5. /\ next[len].outcome # "SUBMITTED"
        /\ next[len].outcome = "ACCEPTED" <=> stageOf[to] = DONE
    BY <2>1, <2>4, <1>8 DEF OutcomeOf, Decisions
  <2>6. ~UnderReview(new)
    BY <2>1, <1>2 DEF UnderReview
  <2>7. Reviewed(new, next) /\ AcceptedOnce(new, next)
    BY <2>2, <2>5, <2>6, <1>1, <1>2, <1>3, <1>6, <1>8 DEF Reviewed, AcceptedOnce
  <2>8. QED
    BY <2>7, <1>1, <1>2 DEF Consistent
<1>9. CASE intent = "MOVE"
  <2>1. \/ to = items[i].status
        \/ ~UnderReview(items[i]) /\ stageOf[to] \notin {IN_REVIEW, DONE}
    BY <1>5, <1>9 DEF ValidMove
  <2>2. (UnderReview(new) <=> UnderReview(items[i])) /\ ~new.completed
    BY <2>1, <1>2, <1>5 DEF UnderReview
  <2>3. Reviewed(new, next) /\ AcceptedOnce(new, next)
    BY <2>2, <1>2, <1>3, <1>5, <1>9 DEF Reviewed, AcceptedOnce, Consistent, next
  <2>4. QED
    BY <2>3, <1>1, <1>2 DEF Consistent
<1>10. QED
  BY <1>7, <1>8, <1>9 DEF Intents, Decisions

LEMMA NotedConsistent ==
    ASSUME TypeOK, NEW i \in present, NEW u \in Users, NEW n \in Nat, NEW notes \in Seq(Nat),
           NEW version \in Nat, Noted(i, u, n, notes, version),
           Consistent(items[i], submissions[i])
    PROVE  Consistent(items'[i], submissions'[i])
<1>1. /\ n \in 1 .. Len(submissions[i])
      /\ items'[i] = [items[i] EXCEPT !.version = version]
      /\ Len(submissions'[i]) = Len(submissions[i])
      /\ \A m \in 1 .. Len(submissions[i]) :
           submissions'[i][m] = IF m = n THEN [submissions[i][n] EXCEPT !.notes = notes]
                                ELSE submissions[i][m]
  BY NotedType
<1> DEFINE len == Len(submissions[i])
           next == submissions'[i]
           new == items'[i]
<1>0. i \in Items /\ items[i] \in Item /\ len \in Nat
  BY ActiveAttemptType DEF TypeOK
<1>2. /\ new.status = items[i].status /\ new.stage = items[i].stage
      /\ new.completed = items[i].completed /\ new.branched = items[i].branched
  BY <1>0, <1>1 DEF Item
<1>3. submissions[i] \in Seq(Submission) /\ submissions[i][n] \in Submission
  BY <1>0, <1>1 DEF TypeOK
<1>4. \A m \in 1 .. len : next[m].outcome = submissions[i][m].outcome
  BY <1>1, <1>3 DEF Submission
<1> HIDE DEF len, next, new
<1>5. Agrees(new)
  BY <1>2 DEF Agrees, Consistent
<1>6. Reviewed(new, next)
  BY <1>1, <1>2, <1>4 DEF Reviewed, Consistent, UnderReview, len, next, new
<1>7. AcceptedOnce(new, next)
  BY <1>1, <1>2, <1>4 DEF AcceptedOnce, Consistent, len, next, new
<1>8. QED
  BY <1>5, <1>6, <1>7 DEF Consistent, next, new

(***************************************************************************)
(* The rollup of an open task: its stage, and what it takes to be Done.    *)
(***************************************************************************)
LEMMA RollupDerives ==
    ASSUME NEW rows \in SUBSET Items, NEW its \in [Items -> Item],
           \A i \in rows : Agrees(its[i]), ~taskCompleted
    PROVE  Derived(rollupStage(rows, its), rows, its)
<1> DEFINE work == {its[i].stage : i \in rows}
<1>1. ASSUME NEW i \in rows
      PROVE  /\ its[i].stage \in Stages
             /\ (IF its[i].completed THEN DONE ELSE its[i].stage) = its[i].stage
             /\ its[i].completed <=> its[i].stage = DONE
  BY <1>1 DEF Agrees, Item
<1>2. {IF its[i].completed THEN DONE ELSE its[i].stage : i \in rows} = work
  BY <1>1
<1>3. rollupStage(rows, its) = reduceStages(work)
  BY <1>2 DEF rollupStage
<1>4. work \in SUBSET Stages
  BY <1>1
<1>5. ASSUME reduceStages(work) = DONE
      PROVE  rows # {} /\ \A i \in rows : its[i].completed
  <2>1. work # {}
    <3>1. ASSUME work = {} PROVE FALSE
      <4>1. reduceStages(work) = TODO
        BY <3>1 DEF reduceStages
      <4>2. QED
        BY <4>1, <1>5 DEF TODO, DONE
    <3>2. QED
      BY <3>1
  <2>2. \A s \in work : s \in Stages /\ DONE <= s
    BY <2>1, <1>4, <1>5, LowestStage
  <2>3. \A s \in work : s = DONE
    BY <2>2 DEF Stages, TODO, DONE
  <2>4. QED
    BY <2>1, <2>3, <1>1
<1>6. QED
  BY <1>3, <1>5 DEF Derived

LEMMA InitInv == Init => IInv
<1> SUFFICES ASSUME Init PROVE IInv
  OBVIOUS
<1>1. TypeOK
  BY InitType
<1>2. \A i \in Items : Blank(items[i], submissions[i])
  BY DEF Init, Blank
<1>3. \A i \in Items : Consistent(items[i], submissions[i])
  BY <1>2, BlankConsistent
<1>4. Derived(taskStage, present, items)
  <2>1. {items[i].stage : i \in present} = {}
    BY DEF Init
  <2>2. QED
    BY <2>1 DEF Init, Derived, reduceStages, TODO, DONE
<1>5. QED
  BY <1>1, <1>2, <1>3, <1>4 DEF IInv

LEMMA CommandsInv == IInv /\ Commands => IInv'
<1> SUFFICES ASSUME IInv, Commands PROVE IInv'
  OBVIOUS
<1>1. TypeOK /\ TypeOK'
  BY CommandsType DEF IInv
<1>2. PICK i \in present, u \in members :
        \/ \E to \in Statuses, intent \in Intents, reviewNote \in BOOLEAN, version \in Nat :
              Executed(i, u, to, intent, reviewNote, version)
        \/ \E n \in Nat, notes \in Seq(Nat), version \in Nat :
              Noted(i, u, n, notes, version)
  BY <1>1, CommandCases
<1>3. /\ i \in Items /\ u \in Users
      /\ Consistent(items[i], submissions[i])
  BY <1>1, <1>2 DEF TypeOK, IInv
<1>4. /\ Consistent(items'[i], submissions'[i])
      /\ \A j \in Items \ {i} : items'[j] = items[j] /\ submissions'[j] = submissions[j]
      /\ present' = present /\ ~items[i].completed
  <2>1. CASE \E to \in Statuses, intent \in Intents, reviewNote \in BOOLEAN, version \in Nat :
               Executed(i, u, to, intent, reviewNote, version)
    <3>1. PICK to \in Statuses, intent \in Intents, reviewNote \in BOOLEAN, version \in Nat :
             Executed(i, u, to, intent, reviewNote, version)
      BY <2>1
    <3>2. Consistent(items'[i], submissions'[i])
      BY <3>1, <1>1, <1>3, ExecutedConsistent
    <3>3. \A j \in Items \ {i} : items'[j] = items[j] /\ submissions'[j] = submissions[j]
      BY <3>1, <1>1, <1>3, ExecutedType
    <3>4. QED
      BY <3>1, <3>2, <3>3 DEF Executed
  <2>2. CASE \E n \in Nat, notes \in Seq(Nat), version \in Nat : Noted(i, u, n, notes, version)
    <3>1. PICK n \in Nat, notes \in Seq(Nat), version \in Nat : Noted(i, u, n, notes, version)
      BY <2>2
    <3>2. Consistent(items'[i], submissions'[i])
      BY <3>1, <1>1, <1>3, NotedConsistent
    <3>3. \A j \in Items \ {i} : items'[j] = items[j] /\ submissions'[j] = submissions[j]
      BY <3>1, <1>1, <1>3, NotedType
    <3>4. QED
      BY <3>1, <3>2, <3>3 DEF Noted
  <2>3. QED
    BY <1>2, <2>1, <2>2
<1>5. \A j \in Items : Consistent(items'[j], submissions'[j])
  BY <1>4 DEF IInv
<1>6. \A j \in Items \ present' : Blank(items'[j], submissions'[j])
  BY <1>4, <1>2 DEF IInv
<1>7. ~taskCompleted
  BY <1>4, <1>2 DEF IInv, Derived, taskCompleted
<1>8. Derived(taskStage', present', items')
  <2>1. CASE \E to \in Statuses, intent \in Intents, reviewNote \in BOOLEAN, version \in Nat :
               Executed(i, u, to, intent, reviewNote, version)
    <3>1. taskStage' = rollupStage(present', items')
      BY <2>1, <1>4 DEF Executed
    <3>2. items' \in [Items -> Item] /\ present' \in SUBSET Items
      BY <1>1 DEF TypeOK
    <3>3. \A j \in present' : Agrees(items'[j])
      BY <3>2, <1>5 DEF Consistent
    <3>4. QED
      BY <3>1, <3>2, <3>3, <1>7, RollupDerives
  <2>2. CASE \E n \in Nat, notes \in Seq(Nat), version \in Nat : Noted(i, u, n, notes, version)
    <3>1. /\ taskStage' = taskStage
          /\ \A j \in Items : items'[j].stage = items[j].stage
                              /\ items'[j].completed = items[j].completed
      BY <2>2, <1>1 DEF Noted, TypeOK, Item
    <3>2. {items'[j].stage : j \in present'} = {items[j].stage : j \in present}
      <4>1. present' = present /\ present \subseteq Items
        BY <1>1, <1>4 DEF TypeOK
      <4>2. \A j \in present : items'[j].stage = items[j].stage
        BY <3>1, <4>1
      <4>3. QED
        BY <4>1, <4>2
    <3>3. QED
      BY <3>1, <3>2, <1>4, <1>7 DEF IInv, Derived, taskCompleted
  <2>3. QED
    BY <1>2, <2>1, <2>2
<1>9. QED
  BY <1>1, <1>5, <1>6, <1>8 DEF IInv

(***************************************************************************)
(* Definition edits.  What one does to its item, if the task is open:      *)
(***************************************************************************)
Edited(i, its, rows) ==
    /\ items' = [items EXCEPT ![i] = its]
    /\ present' = rows
    /\ rows \ {i} = present \ {i}
    /\ i \notin rows => Blank(its, submissions[i])
    /\ Consistent(its, submissions[i])
    /\ taskStage' = rollupStage(rows, items')
    /\ UNCHANGED <<submissions, receipts, task, members>>

LEMMA EditedInv ==
    ASSUME IInv, TypeOK', NEW i \in Items, NEW its, NEW rows, Edited(i, its, rows), ~taskCompleted
    PROVE  IInv'
<1>1. /\ present' = rows /\ rows \in SUBSET Items /\ items' \in [Items -> Item]
      /\ submissions' = submissions
      /\ items' = [items EXCEPT ![i] = its] /\ items \in [Items -> Item]
  BY DEF Edited, TypeOK, IInv
<1>2. items'[i] = its /\ \A j \in Items \ {i} : items'[j] = items[j]
  BY <1>1
<1>3. \A j \in Items : Consistent(items'[j], submissions'[j])
  BY <1>1, <1>2 DEF Edited, IInv
<1>4. \A j \in Items \ present' : Blank(items'[j], submissions'[j])
  BY <1>1, <1>2 DEF Edited, IInv
<1>5. Derived(taskStage', present', items')
  <2>1. \A j \in rows : Agrees(items'[j])
    BY <1>1, <1>3 DEF Consistent
  <2>2. QED
    BY <2>1, <1>1, RollupDerives DEF Edited
<1>6. QED
  BY <1>3, <1>4, <1>5 DEF IInv

\* Nothing of an item's history depends on its version.
LEMMA VersionConsistent ==
    ASSUME NEW item \in Item, NEW version \in Nat, NEW attempts, Consistent(item, attempts),
           NEW new, new = [item EXCEPT !.version = version]
    PROVE  /\ Consistent(new, attempts)
           /\ new.stage = item.stage /\ new.completed = item.completed
<1>1. /\ new.status = item.status /\ new.stage = item.stage
      /\ new.completed = item.completed /\ new.branched = item.branched
  BY DEF Item
<1>2. QED
  BY <1>1 DEF Consistent, Agrees, Reviewed, AcceptedOnce, UnderReview

\* Work handed to a child: neither under review nor accepted, before and after.
LEMMA BranchedConsistent ==
    ASSUME NEW item \in Item, NEW attempts \in Seq(Submission), Consistent(item, attempts),
           ~item.completed \/ item.branched, ~UnderReview(item) \/ item.branched,
           NEW new, new.branched, Agrees(new)
    PROVE  Consistent(new, attempts)
<1>1. \A n \in 1 .. Len(attempts) : attempts[n].outcome \notin {"SUBMITTED", "ACCEPTED"}
  BY DEF Consistent, Reviewed, AcceptedOnce
<1>2. QED
  BY <1>1 DEF Consistent, Reviewed, AcceptedOnce

LEMMA DefinitionsInv == IInv /\ Definitions => IInv'
<1> SUFFICES ASSUME IInv, Definitions PROVE IInv'
  OBVIOUS
<1>1. TypeOK /\ TypeOK'
  BY DefinitionsType DEF IInv
<1>2. ASSUME NEW i \in Items
      PROVE  /\ items[i] \in Item /\ submissions[i] \in Seq(Submission)
             /\ Consistent(items[i], submissions[i])
  BY <1>1 DEF TypeOK, IInv
<1>3. ASSUME NEW i \in Items, AddItem(i) PROVE IInv'
  <2>1. Blank(items[i], submissions[i])
    BY <1>3 DEF AddItem, IInv
  <2>2. Consistent(NewItem, submissions[i])
    BY <2>1, BlankConsistent DEF Blank
  <2>3. Edited(i, NewItem, present \cup {i})
    BY <2>2, <1>3 DEF AddItem, Edited
  <2>4. QED
    BY <2>3, <1>1, <1>3, EditedInv DEF AddItem, assertOpenHierarchy
<1>4. ASSUME NEW i \in Items, DeleteItem(i) PROVE IInv'
  <2>1. Blank(NewItem, submissions[i])
    BY <1>4 DEF DeleteItem, Blank
  <2>2. Consistent(NewItem, submissions[i])
    BY <2>1, BlankConsistent
  <2>3. Edited(i, NewItem, present \ {i})
    BY <2>1, <2>2, <1>4 DEF DeleteItem, Edited
  <2>4. QED
    BY <2>3, <1>1, <1>4, EditedInv DEF DeleteItem, assertOpenHierarchy
<1>5. ASSUME NEW i \in Items, BranchItem(i) PROVE IInv'
  <2>1. PICK writes \in {1, 2} :
          items' = [items EXCEPT ![i] = [NewItem EXCEPT !.branched = TRUE,
                                                        !.version = items[i].version + writes]]
    BY <1>5 DEF BranchItem
  <2> DEFINE new == [NewItem EXCEPT !.branched = TRUE, !.version = items[i].version + writes]
  <2>2. /\ new.status = NewItem.status /\ new.stage = NewItem.stage
        /\ new.completed = NewItem.completed /\ new.branched
    BY NewItemType DEF Item
  <2>3. Agrees(new)
    BY <2>2, NewItemConsistent DEF Agrees
  <2>4. ~items[i].completed /\ ~UnderReview(items[i])
    <3>1. items[i].stage # IN_REVIEW /\ ~items[i].completed
      BY <1>5 DEF BranchItem, Branchable
    <3>2. QED
      BY <3>1, <1>2 DEF Consistent, Agrees, UnderReview, NoStage, IN_REVIEW
  <2> HIDE DEF new
  <2>5. Consistent(new, submissions[i])
    BY <2>2, <2>3, <2>4, <1>2, BranchedConsistent
  <2>6. Edited(i, new, present)
    BY <2>1, <2>5, <1>5 DEF BranchItem, Edited, new
  <2>7. QED
    BY <2>6, <1>1, <1>5, EditedInv DEF BranchItem, assertOpenHierarchy
<1>6. ASSUME NEW i \in Items, NEW stage \in Stages, ChildMoves(i, stage) PROVE IInv'
  <2> DEFINE new == [items[i] EXCEPT !.status = StatusOf(stage), !.stage = stage,
                                     !.completed = stage = DONE, !.version = @ + 1]
  <2>1. /\ new.status = StatusOf(stage) /\ new.stage = stage
        /\ new.completed = (stage = DONE) /\ new.branched
    BY <1>2, <1>6 DEF Item, ChildMoves
  <2>2. stageOf[StatusOf(stage)] = stage
    BY StatusOfStage
  <2>3. new.completed <=> stage = DONE
    BY <2>1
  <2> HIDE DEF new
  <2>4. Agrees(new)
    BY <2>1, <2>2, <2>3 DEF Agrees, Stages, NoStage, TODO, DONE
  <2>5. items[i].branched
    BY <1>6 DEF ChildMoves
  <2>6. Consistent(new, submissions[i])
    BY <2>1, <2>4, <2>5, <1>2, BranchedConsistent
  <2>7. Edited(i, new, present)
    BY <2>6, <1>6 DEF ChildMoves, Edited, new
  <2>8. ~taskCompleted
    BY <1>2, <1>6 DEF ChildMoves, IInv, Derived, taskCompleted, Consistent, Agrees
  <2>9. QED
    BY <2>7, <2>8, <1>1, EditedInv
<1>7. ASSUME NEW i \in Items, UpdateItem(i) PROVE IInv'
  <2> DEFINE new == [items[i] EXCEPT !.version = @ + 1]
  <2>1. items[i].version + 1 \in Nat
    BY <1>2 DEF Item
  <2>2. /\ Consistent(new, submissions[i])
        /\ new.stage = items[i].stage /\ new.completed = items[i].completed
    BY <2>1, <1>2, VersionConsistent
  <2>3. /\ items' = [items EXCEPT ![i] = new] /\ present' = present /\ i \in present
        /\ UNCHANGED <<submissions, receipts, task, members>>
        /\ taskStage' = rollupStage(present, items')
    BY <1>7 DEF UpdateItem
  <2> HIDE DEF new
  <2>4. CASE ~taskCompleted
    <3>1. Edited(i, new, present)
      BY <2>2, <2>3 DEF Edited
    <3>2. QED
      BY <3>1, <2>4, <1>1, EditedInv
  <2>5. CASE taskCompleted
    <3>1. /\ items'[i] = new /\ \A j \in Items \ {i} : items'[j] = items[j]
          /\ present \subseteq Items /\ submissions' = submissions
      BY <2>3, <1>1 DEF TypeOK
    <3>2. taskStage' = DONE /\ taskStage = DONE
      BY <2>3, <2>5 DEF rollupStage, taskCompleted
    <3>3. \A j \in present : items'[j].stage = items[j].stage
                             /\ items'[j].completed = items[j].completed
      BY <3>1, <2>2
    <3>4. {items'[j].stage : j \in present'} = {items[j].stage : j \in present}
      BY <3>3, <2>3
    <3>5. Derived(taskStage', present', items')
      BY <3>2, <3>3, <3>4, <2>3 DEF Derived, IInv
    <3>6. \A j \in Items : Consistent(items'[j], submissions'[j])
      BY <3>1, <2>2, <1>2
    <3>7. \A j \in Items \ present' : Blank(items'[j], submissions'[j])
      BY <3>1, <2>3 DEF IInv
    <3>8. QED
      BY <3>5, <3>6, <3>7, <1>1 DEF IInv
  <2>6. QED
    BY <2>4, <2>5
<1>8. QED
  BY <1>3, <1>4, <1>5, <1>6, <1>7 DEF Definitions

\* Reassign() ends in a rollup of items nobody touched; the rest has none.
LEMMA OrganisationInv == IInv /\ Organisation => IInv'
<1> SUFFICES ASSUME IInv, Organisation PROVE IInv'
  OBVIOUS
<1>1. TypeOK /\ TypeOK'
  BY OrganisationType DEF IInv
<1>2. UNCHANGED <<present, items, submissions>>
  BY DEF Organisation, Reassign, Offboard, Join, RemoveReportee, Supersede
<1>3. taskStage' = taskStage \/ taskStage' = rollupStage(present, items)
  BY DEF Organisation, Reassign, Offboard, Join, RemoveReportee, Supersede
<1>4. Derived(taskStage', present, items)
  <2>1. CASE taskStage' = taskStage
    BY <2>1 DEF IInv
  <2>2. CASE taskStage' = rollupStage(present, items) /\ taskCompleted
    BY <2>2 DEF rollupStage, taskCompleted, IInv
  <2>3. CASE taskStage' = rollupStage(present, items) /\ ~taskCompleted
    <3>1. present \in SUBSET Items /\ items \in [Items -> Item]
      BY <1>1 DEF TypeOK
    <3>2. \A i \in present : Agrees(items[i])
      BY <3>1 DEF IInv, Consistent
    <3>3. QED
      BY <3>1, <3>2, <2>3, RollupDerives
  <2>4. QED
    BY <1>3, <2>1, <2>2, <2>3
<1>5. QED
  BY <1>1, <1>2, <1>4 DEF IInv

LEMMA StutterInv == IInv /\ UNCHANGED vars => IInv'
BY DEF IInv, TypeOK, vars, task

LEMMA Invariance == Spec => []IInv
<1>1. IInv /\ [Next]_vars => IInv'
  BY CommandsInv, DefinitionsInv, OrganisationInv, StutterInv DEF Next
<1>2. QED
  BY InitInv, <1>1, PTL DEF Spec

-----------------------------------------------------------------------------
(***************************************************************************)
(* Status row, effective stage and completed flag of every item always     *)
(* agree, though three pieces of code write them.                          *)
(***************************************************************************)
THEOREM StageAgreesAlways == Spec => []StageAgrees
<1>1. IInv => StageAgrees
  BY DEF IInv, Consistent, StageAgrees
<1>2. QED
  BY <1>1, Invariance, PTL

(***************************************************************************)
(* An item is under review exactly while its newest attempt, and no other, *)
(* waits for a decision; a branched item has none waiting.                 *)
(***************************************************************************)
THEOREM ReviewHasActiveAttemptAlways == Spec => []ReviewHasActiveAttempt
<1>1. IInv => ReviewHasActiveAttempt
  BY ActiveIsNewest DEF IInv, Consistent, ReviewHasActiveAttempt
<1>2. QED
  BY <1>1, Invariance, PTL

(***************************************************************************)
(* Work of the task itself is Done exactly when its newest attempt, and no *)
(* other, was accepted.                                                    *)
(***************************************************************************)
THEOREM DoneWasAcceptedAlways == Spec => []DoneWasAccepted
<1>1. IInv => DoneWasAccepted
  <2> SUFFICES ASSUME IInv, NEW i \in Items
               PROVE  Accepted(i) = IF items[i].completed /\ ~items[i].branched
                                    THEN {Len(submissions[i])} ELSE {}
    BY DEF DoneWasAccepted
  <2>1. DOMAIN submissions[i] = 1 .. Len(submissions[i]) /\ Len(submissions[i]) \in Nat
    BY ActiveAttemptType DEF IInv
  <2>2. AcceptedOnce(items[i], submissions[i])
    BY DEF IInv, Consistent
  <2>3. QED
    BY <2>1, <2>2 DEF Accepted, AcceptedOnce
<1>2. QED
  BY <1>1, Invariance, PTL

(***************************************************************************)
(* The status of the task is always the lowest stage of its items; when it *)
(* is completed they all are, and no decision is pending.                  *)
(***************************************************************************)
THEOREM TaskStatusIsDerivedAlways == Spec => []TaskStatusIsDerived
<1>1. IInv => TaskStatusIsDerived
  <2> SUFFICES ASSUME IInv PROVE TaskStatusIsDerived
    OBVIOUS
  <2>1. ASSUME NEW i \in present, items[i].completed PROVE Active(i) = {}
    <3>1. TypeOK /\ i \in Items /\ Consistent(items[i], submissions[i])
      BY DEF IInv, TypeOK
    <3>2. items[i].stage = DONE
      BY <2>1, <3>1 DEF Consistent, Agrees
    <3>3. ~UnderReview(items[i])
      BY <3>1, <3>2 DEF Consistent, Agrees, UnderReview, NoStage, TODO, IN_PROGRESS, IN_REVIEW, DONE
    <3>4. QED
      BY <3>1, <3>3, ActiveIsNewest DEF Consistent
  <2>2. QED
    BY <2>1 DEF IInv, Derived, TaskStatusIsDerived, taskCompleted
<1>2. QED
  BY <1>1, Invariance, PTL

-----------------------------------------------------------------------------
(***************************************************************************)
(* What a step of the checklist can be, and what it can do to the history. *)
(***************************************************************************)
LEMMA StepCases ==
    ASSUME IInv, [Next]_vars
    PROVE  \/ \E i \in present, u \in members, to \in Statuses, intent \in Intents,
                 reviewNote \in BOOLEAN, version \in Nat :
                   Executed(i, u, to, intent, reviewNote, version)
           \/ \E i \in present, u \in members, n \in Nat, notes \in Seq(Nat), version \in Nat :
                   Noted(i, u, n, notes, version)
           \/ Definitions
           \/ UNCHANGED <<present, items, submissions>>
<1>1. TypeOK
  BY DEF IInv
<1>2. CASE Commands
  BY <1>1, <1>2, CommandCases
<1>3. CASE Organisation
  BY <1>3 DEF Organisation, Reassign, Offboard, Join, RemoveReportee, Supersede
<1>4. CASE UNCHANGED vars
  BY <1>4 DEF vars
<1>5. QED
  BY <1>2, <1>3, <1>4 DEF Next

(***************************************************************************)
(* A command leaves every attempt where it is, and changes one only if it  *)
(* is the active attempt of its item.                                      *)
(***************************************************************************)
LEMMA ExecutedHistory ==
    ASSUME IInv, NEW i \in present, NEW u \in members, NEW to \in Statuses,
           NEW intent \in Intents, NEW reviewNote \in BOOLEAN, NEW version \in Nat,
           Executed(i, u, to, intent, reviewNote, version),
           NEW j \in Items, NEW n \in DOMAIN submissions[j]
    PROVE  /\ n \in DOMAIN submissions'[j]
           /\ \/ submissions'[j][n] = submissions[j][n]
              \/ /\ j = i /\ n \in Active(i) /\ intent \in Decisions
                 /\ submissions'[j][n].decidedBy = u
                 /\ submissions'[j][n].outcome = OutcomeOf[intent]
<1>1. TypeOK /\ u \in Users
  BY DEF IInv, TypeOK
<1>2. /\ DOMAIN submissions[j] = 1 .. Len(submissions[j]) /\ Len(submissions[j]) \in Nat
      /\ submissions[j] \in Seq(Submission)
  BY <1>1, ActiveAttemptType DEF TypeOK
<1>3. /\ i \in Items
      /\ submissions' \in [Items -> Seq(Submission)]
      /\ submissions'[i] = NextAttempts(i, u, intent, reviewNote)
      /\ \A k \in Items \ {i} : submissions'[k] = submissions[k]
  BY <1>1, ExecutedType
<1>4. CASE j # i
  BY <1>3, <1>4
<1>5. CASE j = i
  <2>1. /\ intent \in Decisions => Active(i) # {}
        /\ Active(i) # {} => ActiveAttempt(i) \in Active(i)
    BY <1>1, <1>3, ActiveAttemptType DEF Executed
  <2>2. DOMAIN submissions'[i] = 1 .. Len(submissions'[i])
    BY <1>3
  <2>3. CASE intent = "SUBMIT"
    BY <2>1, <2>2, <2>3, <1>1, <1>2, <1>3, <1>5, NextAttemptsEffect
  <2>4. CASE intent \in Decisions
    <3>1. /\ Len(submissions'[i]) = Len(submissions[i])
          /\ submissions'[i][ActiveAttempt(i)]
               = Decided(submissions[i][ActiveAttempt(i)], u, intent, reviewNote)
          /\ \A m \in 1 .. Len(submissions[i]) :
               m # ActiveAttempt(i) => submissions'[i][m] = submissions[i][m]
      BY <2>1, <2>4, <1>1, <1>3, NextAttemptsEffect
    <3>2. CASE n = ActiveAttempt(i)
      <4>1. submissions[i][n] \in Submission
        BY <1>2, <1>5
      <4>2. /\ submissions'[i][n].decidedBy = u
            /\ submissions'[i][n].outcome = OutcomeOf[intent]
        BY <4>1, <3>1, <3>2, <2>4, <1>1, DecidedType
      <4>3. QED
        BY <4>2, <3>1, <3>2, <2>1, <2>2, <2>4, <1>2, <1>5
    <3>3. CASE n # ActiveAttempt(i)
      BY <3>1, <3>3, <2>2, <1>2, <1>5
    <3>4. QED
      BY <3>2, <3>3
  <2>5. CASE intent = "MOVE"
    BY <2>1, <2>5, <1>1, <1>3, <1>5, NextAttemptsEffect
  <2>6. QED
    BY <2>3, <2>4, <2>5 DEF Intents, Decisions
<1>6. QED
  BY <1>4, <1>5

LEMMA NotedHistory ==
    ASSUME IInv, NEW i \in present, NEW u \in members, NEW a \in Nat, NEW notes \in Seq(Nat),
           NEW version \in Nat, Noted(i, u, a, notes, version),
           NEW j \in Items, NEW n \in DOMAIN submissions[j]
    PROVE  /\ n \in DOMAIN submissions'[j]
           /\ submissions'[j][n].outcome = submissions[j][n].outcome
           /\ \/ submissions'[j][n] = submissions[j][n]
              \/ j = i /\ n \in Active(i)
<1>1. TypeOK /\ u \in Users
  BY DEF IInv, TypeOK
<1>2. /\ DOMAIN submissions[j] = 1 .. Len(submissions[j]) /\ Len(submissions[j]) \in Nat
      /\ submissions[j] \in Seq(Submission)
  BY <1>1, ActiveAttemptType DEF TypeOK
<1>3. /\ submissions' \in [Items -> Seq(Submission)]
      /\ Len(submissions'[i]) = Len(submissions[i])
      /\ \A m \in 1 .. Len(submissions[i]) :
           submissions'[i][m] = IF m = a THEN [submissions[i][a] EXCEPT !.notes = notes]
                                ELSE submissions[i][m]
      /\ \A k \in Items \ {i} : submissions'[k] = submissions[k]
  BY <1>1, NotedType
<1>4. CASE j # i
  BY <1>3, <1>4
<1>5. CASE j = i
  <2>1. n \in 1 .. Len(submissions[i]) /\ submissions[i][n] \in Submission
    BY <1>2, <1>5
  <2>2. DOMAIN submissions'[i] = 1 .. Len(submissions'[i])
    BY <1>3, <1>5
  <2>3. CASE n = a
    <3>1. submissions'[i][n] = [submissions[i][n] EXCEPT !.notes = notes]
      BY <2>1, <2>3, <1>3
    <3>2. submissions'[i][n].outcome = submissions[i][n].outcome
      BY <3>1, <2>1 DEF Submission
    <3>3. QED
      BY <3>2, <2>1, <2>2, <2>3, <1>3, <1>5 DEF Noted
  <2>4. CASE n # a
    BY <2>1, <2>2, <2>4, <1>3, <1>5
  <2>5. QED
    BY <2>3, <2>4
<1>6. QED
  BY <1>4, <1>5

LEMMA DefinitionsHistory == Definitions => UNCHANGED <<submissions, task, members>>
BY DEF Definitions, AddItem, UpdateItem, BranchItem, ChildMoves, DeleteItem

(***************************************************************************)
(* No attempt disappears, and a decided one is never rewritten.            *)
(***************************************************************************)
THEOREM HistoryIsKeptAlways == Spec => HistoryIsKept
<1>1. IInv /\ [Next]_vars => [HistoryStays]_vars
  <2> SUFFICES ASSUME IInv, [Next]_vars, NEW j \in Items, NEW n \in DOMAIN submissions[j]
               PROVE  /\ n \in DOMAIN submissions'[j]
                      /\ submissions[j][n].outcome # "SUBMITTED" =>
                           submissions'[j][n] = submissions[j][n]
    BY DEF HistoryStays
  <2>1. ASSUME NEW i \in present, NEW u \in members, NEW to \in Statuses, NEW intent \in Intents,
               NEW reviewNote \in BOOLEAN, NEW version \in Nat,
               Executed(i, u, to, intent, reviewNote, version)
        PROVE  /\ n \in DOMAIN submissions'[j]
               /\ submissions[j][n].outcome # "SUBMITTED" =>
                    submissions'[j][n] = submissions[j][n]
    BY <2>1, ExecutedHistory DEF Active
  <2>2. ASSUME NEW i \in present, NEW u \in members, NEW a \in Nat, NEW notes \in Seq(Nat),
               NEW version \in Nat, Noted(i, u, a, notes, version)
        PROVE  /\ n \in DOMAIN submissions'[j]
               /\ submissions[j][n].outcome # "SUBMITTED" =>
                    submissions'[j][n] = submissions[j][n]
    BY <2>2, NotedHistory DEF Active
  <2>3. QED
    BY <2>1, <2>2, StepCases, DefinitionsHistory
<1>2. QED
  BY <1>1, Invariance, PTL DEF Spec, HistoryIsKept

(***************************************************************************)
(* The reviewer of the moment accepts or rejects, an assignee of the       *)
(* moment withdraws, each an active member.                                *)
(***************************************************************************)
THEOREM DecidedByTheRightUserAlways == Spec => DecidedByTheRightUser
<1>1. IInv /\ [Next]_vars => [DecidesRightly]_vars
  <2> SUFFICES ASSUME IInv, [Next]_vars, NEW j \in Items, NEW n \in DOMAIN submissions[j],
                      submissions[j][n].outcome = "SUBMITTED",
                      submissions'[j][n].outcome # "SUBMITTED"
               PROVE  /\ submissions'[j][n].decidedBy \in members
                      /\ IF submissions'[j][n].outcome = "WITHDRAWN"
                         THEN submissions'[j][n].decidedBy \in assignees
                         ELSE submissions'[j][n].decidedBy = reportee
    BY DEF DecidesRightly
  <2>1. PICK i \in present, u \in members, to \in Statuses, intent \in Intents,
             reviewNote \in BOOLEAN, version \in Nat :
               Executed(i, u, to, intent, reviewNote, version)
    BY StepCases, NotedHistory, DefinitionsHistory
  <2>2. /\ intent \in Decisions
        /\ submissions'[j][n].decidedBy = u
        /\ submissions'[j][n].outcome = OutcomeOf[intent]
    BY <2>1, ExecutedHistory
  <2>3. IF intent \in {"ACCEPT", "REJECT"} THEN u = reportee ELSE u \in assignees
    BY <2>1 DEF Executed
  <2>4. OutcomeOf[intent] = "WITHDRAWN" <=> intent \notin {"ACCEPT", "REJECT"}
    BY <2>2 DEF OutcomeOf, Decisions
  <2>5. QED
    BY <2>2, <2>3, <2>4
<1>2. QED
  BY <1>1, Invariance, PTL DEF Spec, DecidedByTheRightUser

(***************************************************************************)
(* Done is terminal, for items and for the task.                           *)
(***************************************************************************)
THEOREM DoneIsTerminalAlways == Spec => DoneIsTerminal
<1>1. IInv /\ [Next]_vars => [DoneStays]_vars
  <2> SUFFICES ASSUME IInv, [Next]_vars PROVE DoneStays
    OBVIOUS
  <2>1. /\ items \in [Items -> Item] /\ present \subseteq Items
        /\ taskCompleted => \A i \in present : items[i].completed
        /\ \A i \in Items : items[i].completed => items[i].stage = DONE
    BY DEF IInv, TypeOK, Derived, taskCompleted, Consistent, Agrees
  <2>2. ASSUME NEW i \in Items, ~taskCompleted,
               i \in present => ~items[i].completed,
               present' \cup {i} = present \cup {i},
               \A j \in Items \ {i} : items'[j] = items[j]
        PROVE  DoneStays
    BY <2>1, <2>2 DEF DoneStays
  <2>3. ASSUME NEW i \in present, NEW u \in members, NEW to \in Statuses, NEW intent \in Intents,
               NEW reviewNote \in BOOLEAN, NEW version \in Nat,
               Executed(i, u, to, intent, reviewNote, version)
        PROVE  DoneStays
    BY <2>1, <2>2, <2>3 DEF Executed, TaskOpen
  <2>4. ASSUME NEW i \in present, NEW u \in members, NEW a \in Nat, NEW notes \in Seq(Nat),
               NEW version \in Nat, Noted(i, u, a, notes, version)
        PROVE  DoneStays
    BY <2>1, <2>2, <2>4 DEF Noted
  <2>5. CASE Definitions
    <3>1. ASSUME NEW i \in Items, AddItem(i) PROVE DoneStays
      BY <2>1, <2>2, <3>1 DEF AddItem, assertOpenHierarchy
    <3>2. ASSUME NEW i \in Items, DeleteItem(i) PROVE DoneStays
      BY <2>1, <2>2, <3>2 DEF DeleteItem, assertOpenHierarchy
    <3>3. ASSUME NEW i \in Items, BranchItem(i) PROVE DoneStays
      <4>1. /\ ~taskCompleted /\ ~items[i].completed /\ present' = present
            /\ \A j \in Items \ {i} : items'[j] = items[j]
        BY <2>1, <3>3 DEF BranchItem, Branchable, assertOpenHierarchy
      <4>2. QED
        BY <4>1, <2>2
    <3>4. ASSUME NEW i \in Items, NEW stage \in Stages, ChildMoves(i, stage) PROVE DoneStays
      <4>1. /\ i \in present /\ ~items[i].completed /\ present' = present
            /\ \A j \in Items \ {i} : items'[j] = items[j]
        BY <2>1, <3>4 DEF ChildMoves
      <4>2. ~taskCompleted
        BY <4>1, <2>1
      <4>3. QED
        BY <4>1, <4>2, <2>2
    <3>5. ASSUME NEW i \in Items, UpdateItem(i) PROVE DoneStays
      <4>1. items' = [items EXCEPT ![i].version = items[i].version + 1] /\ present' = present
            /\ taskStage' = rollupStage(present, items')
        BY <3>5 DEF UpdateItem
      <4>2. \A j \in Items : items'[j].completed = items[j].completed
                             /\ items'[j].status = items[j].status
        BY <4>1, <2>1 DEF Item
      <4>3. taskCompleted => taskCompleted'
        BY <4>1 DEF rollupStage, taskCompleted
      <4>4. QED
        BY <4>1, <4>2, <4>3, <2>1 DEF DoneStays
    <3>6. QED
      BY <2>5, <3>1, <3>2, <3>3, <3>4, <3>5 DEF Definitions
  <2>6. CASE Organisation \/ UNCHANGED vars
    <3>1. UNCHANGED <<present, items>>
      BY <2>6 DEF Organisation, Reassign, Offboard, Join, RemoveReportee, Supersede, vars
    <3>2. taskStage' = taskStage \/ taskStage' = rollupStage(present, items)
      BY <2>6 DEF Organisation, Reassign, Offboard, Join, RemoveReportee, Supersede, vars
    <3>3. QED
      BY <3>1, <3>2 DEF DoneStays, rollupStage, taskCompleted
  <2>7. CASE Commands
    BY <2>3, <2>4, <2>7, CommandCases DEF IInv
  <2>8. QED
    BY <2>5, <2>6, <2>7 DEF Next
<1>2. QED
  BY <1>1, Invariance, PTL DEF Spec, DoneIsTerminal

-----------------------------------------------------------------------------
(***************************************************************************)
(* What the receipts tell.  That a revision is spent once needs receipts   *)
(* never to be ahead of their item; that history is written once needs     *)
(* every receipt of a decision to belong to a decided attempt; that a      *)
(* retry is answered needs one receipt per key and a hash in which every   *)
(* spelling of the command comes out the same.                             *)
(***************************************************************************)
Canonical(hash) == targetId(hash.target, hash.intent) = hash.target

NeverAhead ==
    \A r \in receipts :
        /\ r.item \in present
        /\ r.hash.expected <= r.revision /\ r.revision <= items[r.item].version

OnePerKey ==
    \A r, s \in receipts : r.item = s.item /\ r.actor = s.actor /\ r.key = s.key => r = s

CanonicalHashes == \A r \in receipts : r.hash \in CommandHash => Canonical(r.hash)

\* What a receipt that moved its item says of the attempts of that item.
Tells(r, attempts) ==
    /\ r.attempt \in DOMAIN attempts
    /\ r.outcome # "SUBMITTED" => attempts[r.attempt].outcome # "SUBMITTED"

MovesTold ==
    \A r \in receipts : r.moved /\ r.attempt # NoAttempt => Tells(r, submissions[r.item])

LogInv == NeverAhead /\ OnePerKey /\ CanonicalHashes /\ MovesTold /\ CommandsCountOnce
(***************************************************************************)
(* The receipt a command adds, and what it says of the attempts.           *)
(***************************************************************************)
Receipted(r) ==
    /\ r \in Receipt
    /\ receipts' = receipts \cup {r}
    /\ r.item \in present /\ present' = present
    /\ Receipts(r.item, r.actor, r.key) = {}
    /\ r.hash.expected = items[r.item].version
    /\ r.revision \in {r.hash.expected, r.hash.expected + 1}
    /\ items'[r.item].version = r.revision
    /\ \A j \in Items \ {r.item} : items'[j] = items[j] /\ submissions'[j] = submissions[j]
    /\ r.hash \in CommandHash => Canonical(r.hash)

SameAttempt(a, b) == a.by = b.by /\ a.outcome = b.outcome /\ a.decidedBy = b.decidedBy

\* A submission: one more attempt, of the actor.
Opens(r, old, new) ==
    /\ r.moved /\ r.outcome = "SUBMITTED" /\ r.attempt = Len(old) + 1
    /\ Len(new) = Len(old) + 1
    /\ new[r.attempt].by = r.actor /\ new[r.attempt].outcome = "SUBMITTED"
    /\ \A n \in 1 .. Len(old) : SameAttempt(new[n], old[n])

\* A decision: the actor closes an attempt that waited for one.
Closes(r, old, new) ==
    /\ r.moved /\ r.outcome # "SUBMITTED" /\ r.attempt \in 1 .. Len(old)
    /\ Len(new) = Len(old)
    /\ old[r.attempt].outcome = "SUBMITTED"
    /\ new[r.attempt].by = old[r.attempt].by
    /\ new[r.attempt].outcome = r.outcome /\ new[r.attempt].decidedBy = r.actor
    /\ \A n \in 1 .. Len(old) : n # r.attempt => SameAttempt(new[n], old[n])

\* Any other command says nothing of the attempts, and changes none.
Keeps(r, old, new) ==
    /\ r.moved => r.attempt = NoAttempt
    /\ Len(new) = Len(old)
    /\ \A n \in 1 .. Len(old) : SameAttempt(new[n], old[n])

Logged(r) ==
    /\ Receipted(r)
    /\ \/ Opens(r, submissions[r.item], submissions'[r.item])
       \/ Closes(r, submissions[r.item], submissions'[r.item])
       \/ Keeps(r, submissions[r.item], submissions'[r.item])

(***************************************************************************)
(* However a command is spelled, its hash is the one its receipt holds.    *)
(***************************************************************************)
LEMMA HashIsCanonical ==
    ASSUME NEW target \in Statuses, NEW requested \in Intents \cup {NoIntent},
           NEW expected, NEW submission, NEW reviewNote
    PROVE  Canonical(hashOf(target, requested, expected, submission, reviewNote))
<1> DEFINE to == targetId(target, requested)
           intent == hashIntent(to, requested)
<1>1. stageOf[StatusOf(IN_REVIEW)] = IN_REVIEW /\ stageOf[StatusOf(DONE)] = DONE
  BY StatusOfStage DEF Stages, TODO, IN_REVIEW, DONE
<1>2. \A x, y \in Statuses : stageOf[x] = stageOf[y] /\ stageOf[x] # NoStage => x = y
  BY CanonicalMapping
<1>3. StatusOf(IN_REVIEW) \in Statuses /\ StatusOf(DONE) \in Statuses
  BY StatusOfStage DEF Stages, TODO, IN_REVIEW, DONE
<1>4. IN_REVIEW # NoStage /\ DONE # NoStage
  BY DEF IN_REVIEW, DONE, NoStage
<1>5. to \in Statuses
  BY <1>3 DEF targetId
<1>6. intent = "SUBMIT" => to = StatusOf(IN_REVIEW)
  BY <1>1, <1>2, <1>3, <1>4, <1>5 DEF hashIntent, targetId, Intents, NoIntent
<1>7. intent = "ACCEPT" => to = StatusOf(DONE)
  BY <1>1, <1>2, <1>3, <1>4, <1>5 DEF hashIntent, targetId, Intents, NoIntent
<1>8. targetId(to, intent) = to
  BY <1>6, <1>7 DEF targetId
<1>9. QED
  BY <1>8 DEF Canonical, hashOf

LEMMA RespelledHash ==
    ASSUME NEW hash \in CommandHash, Canonical(hash), NEW requested \in Spellings(hash)
    PROVE  hashOf(hash.target, requested, hash.expected, hash.submission, hash.reviewNote) = hash
<1>1. hash.intent \in Intents
  BY DEF CommandHash
<1>2. targetId(hash.target, requested) = hash.target
  BY DEF Canonical, Spellings, targetId, NoIntent
<1>3. hashIntent(hash.target, requested) = hash.intent
  <2>1. CASE requested = hash.intent
    <3>1. requested # NoIntent
      BY <2>1, <1>1 DEF NoIntent, Intents
    <3>2. hashIntent(hash.target, requested) = requested
      BY <3>1 DEF hashIntent
    <3>3. QED
      BY <2>1, <3>2
  <2>2. CASE requested # hash.intent
    <3>1. /\ requested = NoIntent
          /\ \/ hash.intent = "SUBMIT" /\ stageOf[hash.target] = IN_REVIEW
             \/ hash.intent = "ACCEPT" /\ stageOf[hash.target] = DONE
             \/ hash.intent = "MOVE" /\ stageOf[hash.target] \notin {IN_REVIEW, DONE}
      BY <2>2 DEF Spellings
    <3>2. QED
      BY <3>1 DEF hashIntent, IN_REVIEW, DONE
  <2>3. QED
    BY <2>1, <2>2
<1>4. hashOf(hash.target, requested, hash.expected, hash.submission, hash.reviewNote)
        = [target |-> hash.target, intent |-> hash.intent, expected |-> hash.expected,
           submission |-> hash.submission, reviewNote |-> hash.reviewNote]
  BY <1>2, <1>3 DEF hashOf
<1>5. QED
  BY <1>4 DEF CommandHash

LEMMA NoteIsNoCommand ==
    ASSUME NEW note, NEW noteRevision, NEW expected, NEW submission
    PROVE  [note |-> note, noteRevision |-> noteRevision,
            expected |-> expected, submission |-> submission] \notin CommandHash
<1> DEFINE h == [note |-> note, noteRevision |-> noteRevision,
                 expected |-> expected, submission |-> submission]
<1>1. "note" \in DOMAIN h
  OBVIOUS
<1>2. \A c \in CommandHash : "note" \notin DOMAIN c
  BY DEF CommandHash
<1>3. QED
  BY <1>1, <1>2

(***************************************************************************)
(* Every command adds one such receipt.                                    *)
(***************************************************************************)
LEMMA ExecuteLogged ==
    ASSUME IInv, NEW i \in present, NEW u \in Users, NEW k \in Keys, NEW target \in Statuses,
           NEW requested \in Intents \cup {NoIntent}, NEW expected \in Nat,
           NEW submission \in Nat, NEW reviewNote \in BOOLEAN,
           Execute(i, u, k, target, requested, expected, submission, reviewNote)
    PROVE  \E r \in Receipt : r.item = i /\ r.actor = u /\ Logged(r)
<1> DEFINE to == targetId(target, requested)
           intent == IntentOf(i, u, to, requested)
           hash == hashOf(target, requested, expected, submission, reviewNote)
           n == IF intent = "SUBMIT" THEN Len(submissions'[i]) ELSE ActiveAttempt(i)
           outcome == IF n = NoAttempt THEN "NONE" ELSE submissions'[i][n].outcome
           old == submissions[i]
           new == submissions'[i]
<1>1. /\ TypeOK /\ i \in Items /\ items[i] \in Item
      /\ old \in Seq(Submission) /\ Len(old) \in Nat /\ DOMAIN old = 1 .. Len(old)
      /\ \A m \in 1 .. Len(old) : old[m] \in Submission
  BY DEF IInv, TypeOK
<1>2. to \in Statuses /\ hash \in CommandHash /\ Canonical(hash)
  BY CommandTypes, HashIsCanonical
<1>3. intent \in Intents
  BY IntentType DEF IntentOf
<1>4. /\ Authorizes(items[i], to, relationships(u), requested)
      /\ expected = items[i].version
      /\ intent \in Decisions => Active(i) # {}
      /\ intent = "SUBMIT" => Active(i) = {}
  BY DEF Execute, Permits, AtRevision
<1>5. ValidMove(items[i], to, intent) /\ ~items[i].branched
  BY <1>4 DEF Authorizes, IntentOf
<1>6. PICK step \in {0, 1} :
        /\ items' = [items EXCEPT ![i] = Persisted(items[i], to, items[i].version + step)]
        /\ receipts' = receipts \cup
             {[item |-> i, actor |-> u, key |-> k, hash |-> hash,
               moved |-> to # items[i].status, revision |-> items[i].version + step,
               attempt |-> n, outcome |-> outcome]}
  BY <1>1 DEF Execute
<1>7. /\ submissions' = [submissions EXCEPT ![i] = NextAttempts(i, u, intent, reviewNote)]
      /\ present' = present /\ Receipts(i, u, k) = {}
  BY DEF Execute, Fresh
<1>8. /\ new = NextAttempts(i, u, intent, reviewNote)
      /\ \A j \in Items \ {i} : submissions'[j] = submissions[j]
  BY <1>1, <1>7 DEF TypeOK
<1>9. items[i].version \in Nat /\ items[i].version + step \in Nat
  BY <1>1 DEF Item
<1>10. /\ items'[i].version = items[i].version + step
       /\ \A j \in Items \ {i} : items'[j] = items[j]
  <2>1. Persisted(items[i], to, items[i].version + step).version = items[i].version + step
    BY <1>1 DEF Persisted, Item
  <2>2. QED
    BY <2>1, <1>1, <1>6 DEF TypeOK
<1>11. /\ new \in Seq(Submission)
       /\ intent = "SUBMIT" =>
            /\ Len(new) = Len(old) + 1 /\ new[Len(old) + 1] = NewAttempt(u)
            /\ \A m \in 1 .. Len(old) : new[m] = old[m]
       /\ intent \in Decisions =>
            /\ Len(new) = Len(old)
            /\ new[ActiveAttempt(i)] = Decided(old[ActiveAttempt(i)], u, intent, reviewNote)
            /\ \A m \in 1 .. Len(old) : m # ActiveAttempt(i) => new[m] = old[m]
       /\ intent = "MOVE" => new = old
  BY <1>1, <1>3, <1>4, <1>8, NextAttemptsEffect
<1>12. /\ Active(i) \subseteq 1 .. Len(old)
       /\ Active(i) # {} => ActiveAttempt(i) \in Active(i)
       /\ Active(i) = {} => ActiveAttempt(i) = NoAttempt
       /\ ActiveAttempt(i) \in Nat
       /\ Active(i) # {} => UnderReview(items[i])
  <2>1. Reviewed(items[i], old)
    BY <1>1 DEF IInv, Consistent
  <2>2. QED
    BY <2>1, <1>1, ActiveAttemptType, ActiveIsNewest DEF ActiveAttempt
<1>13. intent \in Decisions <=> intent \notin {"SUBMIT", "MOVE"}
  BY <1>3 DEF Intents, Decisions
<1>14. /\ n \in Nat /\ outcome \in Outcomes \cup {"NONE"}
  <2>1. n # NoAttempt => n \in 1 .. Len(new)
    BY <1>1, <1>3, <1>11, <1>12, <1>13 DEF NoAttempt
  <2>2. n \in Nat
    BY <1>11, <1>12
  <2>3. n # NoAttempt => new[n] \in Submission
    BY <2>1, <1>11
  <2>4. QED
    BY <2>2, <2>3 DEF Submission
<1>15. (to # items[i].status) \in BOOLEAN
  OBVIOUS
<1> DEFINE r == [item |-> i, actor |-> u, key |-> k, hash |-> hash,
                 moved |-> to # items[i].status, revision |-> items[i].version + step,
                 attempt |-> n, outcome |-> outcome]
<1>16. /\ r.item = i /\ r.actor = u /\ r.key = k /\ r.hash = hash
       /\ r.moved = (to # items[i].status) /\ r.revision = items[i].version + step
       /\ r.attempt = n /\ r.outcome = outcome
  OBVIOUS
<1>17. r \in Receipt /\ receipts' = receipts \cup {r}
  <2> HIDE DEF to, intent, hash, n, outcome
  <2>1. QED
    BY <1>1, <1>2, <1>6, <1>9, <1>14, <1>15 DEF Receipt
<1>18. hash.expected = expected
  BY DEF hashOf
<1> HIDE DEF r
<1>19. Receipted(r)
  <2> HIDE DEF to, intent, hash, n, outcome, old, new
  <2>1. r.revision \in {r.hash.expected, r.hash.expected + 1}
    BY <1>4, <1>9, <1>16, <1>18
  <2>2. r.hash \in CommandHash => Canonical(r.hash)
    BY <1>2, <1>16
  <2>3. QED
    BY <2>1, <2>2, <1>1, <1>4, <1>7, <1>8, <1>10, <1>16, <1>17, <1>18 DEF Receipted
<1>20. CASE intent = "SUBMIT"
  <2>1. to # items[i].status
    BY <1>5, <1>20 DEF ValidMove, UnderReview
  <2>2. n = Len(old) + 1 /\ n # NoAttempt
    BY <1>1, <1>11, <1>20 DEF NoAttempt
  <2>3. /\ new[n].by = u /\ new[n].outcome = "SUBMITTED" /\ outcome = "SUBMITTED"
    BY <2>2, <1>11, <1>20 DEF NewAttempt
  <2>4. Opens(r, old, new)
    <3> HIDE DEF to, intent, hash, n, outcome, old, new
    <3>1. QED
      BY <2>1, <2>2, <2>3, <1>11, <1>16, <1>20 DEF Opens, SameAttempt
  <2>5. QED
    BY <2>4, <1>16, <1>17, <1>19 DEF Logged
<1>21. CASE intent \in Decisions
  <2>1. to # items[i].status
    BY <1>5, <1>21 DEF ValidMove, UnderReview, Decisions, IN_REVIEW, DONE
  <2>2. /\ n = ActiveAttempt(i) /\ n \in Active(i) /\ n \in 1 .. Len(old)
        /\ old[n].outcome = "SUBMITTED" /\ old[n] \in Submission
    BY <1>1, <1>4, <1>12, <1>13, <1>21 DEF Active
  <2>3. n # NoAttempt
    BY <2>2, <1>1 DEF NoAttempt
  <2>4. /\ new[n].outcome = OutcomeOf[intent] /\ new[n].decidedBy = u
        /\ new[n].by = old[n].by
    <3> HIDE DEF intent, n, old, new
    <3>1. new[n] = Decided(old[n], u, intent, reviewNote)
      BY <2>2, <1>11, <1>21
    <3>2. Decided(old[n], u, intent, reviewNote).by = old[n].by
      BY <2>2 DEF Decided, Submission
    <3>3. QED
      BY <3>1, <3>2, <2>2, <1>21, DecidedType
  <2>5. OutcomeOf[intent] # "SUBMITTED"
    BY <1>21 DEF OutcomeOf, Decisions
  <2>6. Closes(r, old, new)
    <3>1. outcome = OutcomeOf[intent]
      BY <2>3, <2>4
    <3> HIDE DEF to, intent, hash, n, outcome, old, new
    <3>2. QED
      BY <3>1, <2>1, <2>2, <2>4, <2>5, <1>11, <1>16, <1>21 DEF Closes, SameAttempt
  <2>7. QED
    BY <2>6, <1>16, <1>17, <1>19 DEF Logged
<1>22. CASE intent = "MOVE"
  <2>1. to # items[i].status => ~UnderReview(items[i])
    BY <1>5, <1>22 DEF ValidMove
  <2>2. to # items[i].status => n = NoAttempt
    BY <2>1, <1>12, <1>22
  <2>3. Keeps(r, old, new)
    <3> HIDE DEF to, intent, hash, n, outcome, old, new
    <3>1. QED
      BY <2>2, <1>11, <1>16, <1>22 DEF Keeps, SameAttempt
  <2>4. QED
    BY <2>3, <1>16, <1>17, <1>19 DEF Logged
<1>23. QED
  BY <1>13, <1>20, <1>21, <1>22

LEMMA NotesLogged ==
    ASSUME IInv, NEW i \in present, NEW u \in Users, NEW k \in Keys,
           NEW note \in 0 .. MaxNotes, NEW expected \in Nat,
           NEW n \in DOMAIN submissions[i], Notes(i, u, k, note, expected, n)
    PROVE  \E r \in Receipt : r.item = i /\ r.actor = u /\ Logged(r)
<1> USE BoundsAssumption
<1> DEFINE old == submissions[i]
           new == submissions'[i]
           kept == old[n].notes
           noteRevision == IF note \in DOMAIN kept THEN kept[note] ELSE 0
           hash == [note |-> note, noteRevision |-> noteRevision,
                    expected |-> expected, submission |-> n]
           r == [item |-> i, actor |-> u, key |-> k, hash |-> hash, moved |-> FALSE,
                 revision |-> items[i].version + 1, attempt |-> n, outcome |-> "NONE"]
<1>1. /\ TypeOK /\ i \in Items /\ items[i] \in Item /\ items[i].version \in Nat
      /\ old \in Seq(Submission) /\ Len(old) \in Nat /\ DOMAIN old = 1 .. Len(old)
      /\ n \in Nat /\ old[n] \in Submission
  BY DEF IInv, TypeOK, Item
<1>2. noteRevision \in Nat
  BY <1>1 DEF Submission
<1>3. /\ expected = items[i].version /\ Receipts(i, u, k) = {} /\ present' = present
      /\ receipts' = receipts \cup {r}
      /\ items' = [items EXCEPT ![i].version = items[i].version + 1]
  BY DEF Notes, PermitsNote, AtRevision, Fresh
<1>4. PICK notes : submissions' = [submissions EXCEPT ![i][n].notes = notes]
  BY DEF Notes
<1>5. /\ new = [old EXCEPT ![n].notes = notes]
      /\ \A j \in Items \ {i} : submissions'[j] = submissions[j]
  BY <1>1, <1>4 DEF TypeOK
<1>6. /\ Len(new) = Len(old)
      /\ \A m \in 1 .. Len(old) : SameAttempt(new[m], old[m])
  <2>1. DOMAIN new = 1 .. Len(old)
    BY <1>1, <1>5
  <2>2. Len(new) = Len(old)
    <3>1. new = [m \in 1 .. Len(old) |-> new[m]]
      BY <2>1, <1>1, <1>5
    <3>2. QED
      BY <3>1, <1>1, LenProperties
  <2>3. \A m \in 1 .. Len(old) : SameAttempt(new[m], old[m])
    BY <1>1, <1>5 DEF SameAttempt, Submission
  <2>4. QED
    BY <2>2, <2>3
<1>7. /\ items'[i].version = items[i].version + 1
      /\ \A j \in Items \ {i} : items'[j] = items[j]
  BY <1>1, <1>3 DEF TypeOK, Item
<1>8. hash \in NoteHash /\ hash \notin CommandHash /\ hash.expected = expected
  BY <1>1, <1>2, NoteIsNoCommand DEF NoteHash
<1>9. /\ r.item = i /\ r.actor = u /\ r.key = k /\ r.hash = hash /\ r.moved = FALSE
      /\ r.revision = items[i].version + 1 /\ r.attempt = n /\ r.outcome = "NONE"
  OBVIOUS
<1>10. r \in Receipt
  <2> HIDE DEF hash
  <2>1. QED
    BY <1>1, <1>8 DEF Receipt
<1> HIDE DEF r, hash, old, new
<1>11. Receipted(r)
  BY <1>1, <1>3, <1>5, <1>7, <1>8, <1>9, <1>10 DEF Receipted
<1>12. Keeps(r, old, new)
  BY <1>6, <1>9 DEF Keeps
<1>13. QED
  BY <1>9, <1>10, <1>11, <1>12 DEF Logged, old, new

LEMMA CommandsLogged ==
    ASSUME IInv, Commands
    PROVE  \E r \in Receipt : Logged(r)
<1> USE BoundsAssumption
<1>1. PICK i \in present, u \in members, k \in Keys, expected \in 1 .. MaxRevision :
        \/ Drag(i, u, k, expected)
        \/ Submit(i, u, k, expected)
        \/ Decide(i, u, k, expected)
        \/ Annotate(i, u, k, expected)
  BY DEF Commands
<1>2. TypeOK /\ i \in Items /\ u \in Users /\ expected \in Nat
  BY DEF IInv, TypeOK
<1>3. DOMAIN submissions[i] \subseteq Nat
  BY <1>2, ActiveAttemptType
<1>4. CASE Drag(i, u, k, expected)
  <2>1. PICK target \in Statuses, requested \in Drags, reviewNote \in BOOLEAN :
          Execute(i, u, k, target, requested, expected, NoAttempt, reviewNote)
    BY <1>4 DEF Drag
  <2>2. requested \in Intents \cup {NoIntent} /\ NoAttempt \in Nat
    BY UsersAssumption DEF NoAttempt
  <2>3. QED
    BY <2>1, <2>2, <1>2, ExecuteLogged
<1>5. CASE Submit(i, u, k, expected)
  <2>1. Execute(i, u, k, StatusOf(IN_REVIEW), "SUBMIT", expected, NoAttempt, FALSE)
    BY <1>5 DEF Submit
  <2>2. StatusOf(IN_REVIEW) \in Statuses /\ "SUBMIT" \in Intents /\ NoAttempt \in Nat
    BY StatusOfStage DEF Stages, TODO, IN_REVIEW, DONE, Intents, NoAttempt
  <2>3. QED
    BY <2>1, <2>2, <1>2, ExecuteLogged
<1>6. CASE Decide(i, u, k, expected)
  <2>1. PICK target \in Statuses, decision \in Decisions, n \in DOMAIN submissions[i],
             reviewNote \in BOOLEAN :
          Execute(i, u, k, target, decision, expected, n, reviewNote)
    BY <1>6 DEF Decide
  <2>2. decision \in Intents /\ n \in Nat
    BY <1>3 DEF Decisions, Intents
  <2>3. QED
    BY <2>1, <2>2, <1>2, ExecuteLogged
<1>7. CASE Annotate(i, u, k, expected)
  <2>1. PICK n \in DOMAIN submissions[i], note \in 0 .. MaxNotes :
          Notes(i, u, k, note, expected, n)
    BY <1>7 DEF Annotate
  <2>2. QED
    BY <2>1, <1>2, NotesLogged
<1>8. QED
  BY <1>1, <1>4, <1>5, <1>6, <1>7

(***************************************************************************)
(* What the receipts tell stays true.                                      *)
(***************************************************************************)
LEMMA LogInit == Init => LogInv
BY DEF Init, LogInv, NeverAhead, OnePerKey, CanonicalHashes, MovesTold, CommandsCountOnce,
       RevisionSpentOnce, HistoryWrittenOnce

LEMMA ReceiptTypes ==
    ASSUME TypeOK, NEW r \in receipts
    PROVE  /\ r \in Receipt /\ r.item \in Items /\ r.hash.expected \in Nat /\ r.revision \in Nat
           /\ r.attempt \in Nat
           /\ items[r.item].version \in Nat
BY DEF TypeOK, Receipt, CommandHash, NoteHash, Item

LEMMA LoggedSpends ==
    ASSUME TypeOK, NeverAhead, RevisionSpentOnce, NEW r, Receipted(r)
    PROVE  NeverAhead' /\ RevisionSpentOnce'
<1>1. /\ r.item \in Items /\ items[r.item].version \in Nat
      /\ r.hash.expected = items[r.item].version
      /\ r.revision \in {r.hash.expected, r.hash.expected + 1}
      /\ items'[r.item].version = r.revision
      /\ present' = present /\ r.item \in present /\ receipts' = receipts \cup {r}
      /\ \A j \in Items \ {r.item} : items'[j] = items[j]
  BY DEF Receipted, TypeOK, Item
<1>2. \A s \in receipts : /\ s.item \in present /\ s.hash.expected \in Nat /\ s.revision \in Nat
                          /\ s.item \in Items /\ items[s.item].version \in Nat
                          /\ s.hash.expected <= s.revision
                          /\ s.revision <= items[s.item].version
  BY ReceiptTypes DEF NeverAhead
<1>3. NeverAhead'
  <2> SUFFICES ASSUME NEW s \in receipts \cup {r}
               PROVE  /\ s.item \in present
                      /\ s.hash.expected <= s.revision /\ s.revision <= items'[s.item].version
    BY <1>1 DEF NeverAhead
  <2>1. CASE s = r
    BY <2>1, <1>1
  <2>2. CASE s \in receipts /\ s.item = r.item
    BY <2>2, <1>1, <1>2
  <2>3. CASE s \in receipts /\ s.item # r.item
    BY <2>3, <1>1, <1>2
  <2>4. QED
    BY <2>1, <2>2, <2>3
<1>4. RevisionSpentOnce'
  <2>1. \A s \in receipts :
          s.item = r.item /\ s.hash.expected = r.hash.expected => s.revision = s.hash.expected
    BY <1>1, <1>2
  <2> SUFFICES ASSUME NEW s \in receipts \cup {r}, NEW t \in receipts \cup {r},
                      s.item = t.item, s.hash.expected = t.hash.expected,
                      s.revision # s.hash.expected, t.revision # t.hash.expected
               PROVE  s = t
    BY <1>1 DEF RevisionSpentOnce
  <2>2. CASE s \in receipts /\ t \in receipts
    BY <2>2 DEF RevisionSpentOnce
  <2>3. QED
    BY <2>1, <2>2
<1>5. QED
  BY <1>3, <1>4

LEMMA LoggedKeys ==
    ASSUME OnePerKey, CanonicalHashes, NEW r, Receipted(r)
    PROVE  OnePerKey' /\ CanonicalHashes'
<1>1. receipts' = receipts \cup {r} /\ (r.hash \in CommandHash => Canonical(r.hash))
  BY DEF Receipted
<1>2. \A s \in receipts : ~(s.item = r.item /\ s.actor = r.actor /\ s.key = r.key)
  BY DEF Receipted, Receipts
<1>3. OnePerKey'
  BY <1>1, <1>2 DEF OnePerKey
<1>4. CanonicalHashes'
  BY <1>1 DEF CanonicalHashes
<1>5. QED
  BY <1>3, <1>4

\* OneReceipt of the receipts R: what OneReceipt says, of any set of receipts.
Matching(R, i, n, outcome, actor) ==
    {s \in R : s.item = i /\ s.moved /\ s.attempt = n /\ s.outcome = outcome /\ s.actor = actor}

LEMMA LoggedHistory ==
    ASSUME TypeOK, TypeOK', MovesTold, HistoryWrittenOnce, NEW r, Logged(r)
    PROVE  MovesTold' /\ HistoryWrittenOnce'
<1> DEFINE old == submissions[r.item]
           new == submissions'[r.item]
<1>1. /\ r \in Receipt /\ r.item \in Items /\ r.attempt \in Nat
      /\ receipts' = receipts \cup {r}
      /\ \A j \in Items \ {r.item} : submissions'[j] = submissions[j]
  BY DEF Logged, Receipted, Receipt
<1>2. /\ \A j \in Items : /\ DOMAIN submissions[j] = 1 .. Len(submissions[j])
                          /\ DOMAIN submissions'[j] = 1 .. Len(submissions'[j])
                          /\ Len(submissions[j]) \in Nat
  BY DEF TypeOK
<1>3. \A s \in receipts : s.item \in Items /\ s.attempt \in Nat
  BY ReceiptTypes
<1>4. \/ Opens(r, old, new) \/ Closes(r, old, new) \/ Keeps(r, old, new)
  BY DEF Logged
<1>5. \A s \in receipts : s.moved /\ s.attempt # NoAttempt => Tells(s, submissions[s.item])
  BY DEF MovesTold
<1>6. Len(old) \in Nat /\ DOMAIN old = 1 .. Len(old) /\ DOMAIN new = 1 .. Len(new)
  BY <1>1, <1>2
<1>7. \A n \in 1 .. Len(old) :
        /\ n \in DOMAIN new
        /\ old[n].outcome # "SUBMITTED" => SameAttempt(new[n], old[n])
        /\ new[n].by = old[n].by
  <2> HIDE DEF old, new
  <2>1. CASE Opens(r, old, new)
    BY <2>1, <1>6 DEF Opens, SameAttempt
  <2>2. CASE Closes(r, old, new)
    BY <2>2, <1>6 DEF Closes, SameAttempt
  <2>3. CASE Keeps(r, old, new)
    BY <2>3, <1>6 DEF Keeps, SameAttempt
  <2>4. QED
    BY <2>1, <2>2, <2>3, <1>4
<1>8. MovesTold'
  <2> SUFFICES ASSUME NEW s \in receipts \cup {r}, s.moved, s.attempt # NoAttempt
               PROVE  Tells(s, submissions'[s.item])
    BY <1>1 DEF MovesTold
  <2>1. CASE s \in receipts /\ s.item # r.item
    BY <2>1, <1>1, <1>3, <1>5
  <2>2. CASE s \in receipts /\ s.item = r.item
    <3>1. Tells(s, old)
      BY <2>2, <1>5
    <3> HIDE DEF old, new
    <3>2. Tells(s, new)
      BY <3>1, <1>6, <1>7 DEF Tells, SameAttempt
    <3>3. QED
      BY <3>2, <2>2 DEF new
  <2>3. CASE s = r
    <3> HIDE DEF old, new
    <3>1. r.moved /\ r.attempt # NoAttempt
      BY <2>3
    <3>2. ASSUME Opens(r, old, new) PROVE Tells(r, new)
      BY <3>2, <1>6 DEF Opens, Tells
    <3>3. ASSUME Closes(r, old, new) PROVE Tells(r, new)
      BY <3>3, <1>6 DEF Closes, Tells
    <3>4. Tells(r, new)
      BY <3>1, <3>2, <3>3, <1>4 DEF Keeps
    <3>5. QED
      BY <3>4, <2>3 DEF new
  <2>4. QED
    BY <2>1, <2>2, <2>3
<1>9. ASSUME NEW i \in Items, NEW n, NEW outcome, NEW actor,
             \E q \in receipts : Matching(receipts, i, n, outcome, actor) = {q},
             ~(r.item = i /\ r.moved /\ r.attempt = n /\ r.outcome = outcome)
      PROVE  \E q \in receipts' : Matching(receipts', i, n, outcome, actor) = {q}
  <2>1. PICK q \in receipts : Matching(receipts, i, n, outcome, actor) = {q}
    BY <1>9
  <2>2. Matching(receipts', i, n, outcome, actor) = {q}
    BY <2>1, <1>1, <1>9 DEF Matching
  <2>3. QED
    BY <2>2, <1>1
<1>10. ASSUME NEW n, NEW outcome, NEW actor,
              r.moved, r.attempt = n, r.outcome = outcome, r.actor = actor,
              Matching(receipts, r.item, n, outcome, actor) = {}
       PROVE  \E q \in receipts' : Matching(receipts', r.item, n, outcome, actor) = {q}
  <2>1. Matching(receipts', r.item, n, outcome, actor) = {r}
    BY <1>1, <1>10 DEF Matching
  <2>2. QED
    BY <2>1, <1>1
<1>11. ASSUME NEW i \in Items, NEW n \in DOMAIN submissions[i]
       PROVE  /\ \E q \in receipts :
                   Matching(receipts, i, n, "SUBMITTED", submissions[i][n].by) = {q}
              /\ submissions[i][n].outcome # "SUBMITTED" =>
                   \E q \in receipts : Matching(receipts, i, n, submissions[i][n].outcome,
                                                submissions[i][n].decidedBy) = {q}
  BY <1>11 DEF HistoryWrittenOnce, OneReceipt, Matching
<1>12. ASSUME NEW i \in Items, NEW n \in DOMAIN submissions[i],
              submissions'[i][n].by = submissions[i][n].by,
              r.item = i /\ r.moved /\ r.attempt = n => r.outcome # "SUBMITTED"
       PROVE  \E q \in receipts' :
                Matching(receipts', i, n, "SUBMITTED", submissions'[i][n].by) = {q}
  <2>1. \E q \in receipts : Matching(receipts, i, n, "SUBMITTED", submissions[i][n].by) = {q}
    BY <1>11
  <2>2. \E q \in receipts' : Matching(receipts', i, n, "SUBMITTED", submissions[i][n].by) = {q}
    BY <2>1, <1>9, <1>12
  <2>3. QED
    BY <2>2, <1>12
<1>13. ASSUME NEW i \in Items, NEW n \in DOMAIN submissions[i],
              SameAttempt(submissions'[i][n], submissions[i][n]),
              ~(r.item = i /\ r.moved /\ r.attempt = n)
       PROVE  /\ \E q \in receipts' :
                   Matching(receipts', i, n, "SUBMITTED", submissions'[i][n].by) = {q}
              /\ submissions'[i][n].outcome # "SUBMITTED" =>
                   \E q \in receipts' : Matching(receipts', i, n, submissions'[i][n].outcome,
                                                submissions'[i][n].decidedBy) = {q}
  <2> DEFINE was == submissions[i][n]
             is == submissions'[i][n]
  <2>1. is.by = was.by /\ is.outcome = was.outcome /\ is.decidedBy = was.decidedBy
    BY <1>13 DEF SameAttempt
  <2>2. CASE was.outcome # "SUBMITTED"
    <3>1. \E q \in receipts : Matching(receipts, i, n, was.outcome, was.decidedBy) = {q}
      BY <2>2, <1>11
    <3> HIDE DEF was, is
    <3>2. \E q \in receipts' : Matching(receipts', i, n, was.outcome, was.decidedBy) = {q}
      BY <3>1, <1>9, <1>13
    <3>3. \E q \in receipts' : Matching(receipts', i, n, is.outcome, is.decidedBy) = {q}
      BY <3>2, <2>1
    <3>4. QED
      BY <3>3, <2>1, <1>12, <1>13 DEF was, is
  <2>3. CASE was.outcome = "SUBMITTED"
    BY <2>1, <2>3, <1>12, <1>13
  <2>4. QED
    BY <2>2, <2>3
<1>14. HistoryWrittenOnce'
  <2> SUFFICES ASSUME NEW i \in Items, NEW n \in DOMAIN submissions'[i]
               PROVE  /\ \E q \in receipts' : Matching(receipts', i, n, "SUBMITTED",
                                                        submissions'[i][n].by) = {q}
                      /\ submissions'[i][n].outcome # "SUBMITTED" =>
                           \E q \in receipts' : Matching(receipts', i, n,
                                                        submissions'[i][n].outcome,
                                                        submissions'[i][n].decidedBy) = {q}
    BY DEF HistoryWrittenOnce, OneReceipt, Matching
  <2>1. n \in Nat
    BY <1>2
  <2>2. CASE i # r.item
    <3>1. submissions'[i] = submissions[i] /\ n \in DOMAIN submissions[i]
      BY <2>2, <1>1
    <3>2. QED
      BY <3>1, <2>2, <1>13 DEF SameAttempt
  <2>3. CASE i = r.item /\ Opens(r, old, new)
    <3>1. CASE n = r.attempt
      <4>1. /\ submissions'[i][n].outcome = "SUBMITTED"
            /\ submissions'[i][n].by = r.actor
            /\ r.moved /\ r.outcome = "SUBMITTED" /\ n = Len(old) + 1
        BY <2>3, <3>1 DEF Opens
      <4>2. n \notin DOMAIN submissions[i] /\ n # NoAttempt
        BY <4>1, <2>3, <1>6 DEF NoAttempt
      <4>3. Matching(receipts, r.item, n, "SUBMITTED", r.actor) = {}
        BY <4>2, <1>5, <2>3 DEF Matching, Tells
      <4>4. QED
        BY <4>1, <4>3, <3>1, <2>1, <2>3, <1>10
    <3>2. CASE n # r.attempt
      <4>1. n \in 1 .. Len(old)
        BY <3>2, <2>1, <2>3, <1>6 DEF Opens
      <4>2. SameAttempt(submissions'[i][n], submissions[i][n]) /\ n \in DOMAIN submissions[i]
        BY <4>1, <2>3, <1>6 DEF Opens
      <4>3. QED
        BY <4>2, <3>2, <2>3, <1>13
    <3>3. QED
      BY <3>1, <3>2
  <2>4. CASE i = r.item /\ Closes(r, old, new)
    <3>1. n \in 1 .. Len(old) /\ n \in DOMAIN submissions[i]
      BY <2>4, <1>6 DEF Closes
    <3>2. submissions'[i][n].by = submissions[i][n].by
      BY <3>1, <2>4, <1>7
    <3>3. \E q \in receipts' : Matching(receipts', i, n, "SUBMITTED",
                                         submissions'[i][n].by) = {q}
      BY <3>1, <3>2, <2>4, <1>12 DEF Closes
    <3>4. CASE n = r.attempt
      <4>1. /\ submissions'[i][n].outcome = r.outcome /\ submissions'[i][n].decidedBy = r.actor
            /\ submissions[i][n].outcome = "SUBMITTED" /\ r.outcome # "SUBMITTED" /\ r.moved
        BY <3>4, <2>4 DEF Closes
      <4>2. n # NoAttempt
        BY <3>1, <1>6 DEF NoAttempt
      <4>3. Matching(receipts, r.item, n, r.outcome, r.actor) = {}
        BY <4>1, <4>2, <2>4, <1>5 DEF Matching, Tells
      <4>4. \E q \in receipts' : Matching(receipts', i, n, r.outcome, r.actor) = {q}
        BY <4>1, <4>3, <3>4, <2>1, <2>4, <1>10
      <4>5. QED
        BY <4>1, <4>4, <3>3
    <3>5. CASE n # r.attempt
      <4>1. SameAttempt(submissions'[i][n], submissions[i][n])
        BY <3>1, <3>5, <2>4 DEF Closes
      <4>2. QED
        BY <4>1, <3>1, <3>5, <2>4, <1>13
    <3>6. QED
      BY <3>4, <3>5
  <2>5. CASE i = r.item /\ Keeps(r, old, new)
    <3>1. n \in 1 .. Len(old) /\ n \in DOMAIN submissions[i] /\ n # NoAttempt
      BY <2>5, <1>6 DEF Keeps, NoAttempt
    <3>2. SameAttempt(submissions'[i][n], submissions[i][n])
      BY <3>1, <2>5 DEF Keeps
    <3>3. r.moved => r.attempt # n
      BY <3>1, <2>5 DEF Keeps
    <3>4. QED
      BY <3>1, <3>2, <3>3, <1>13
  <2>6. QED
    BY <1>4, <2>2, <2>3, <2>4, <2>5
<1>15. QED
  BY <1>8, <1>14

\* A step that writes no receipt and no attempt, and takes no revision back.
LEMMA QuietLog ==
    ASSUME LogInv, TypeOK, UNCHANGED <<receipts, submissions>>,
           \A r \in receipts : /\ r.item \in present'
                               /\ items'[r.item].version \in Nat
                               /\ items[r.item].version <= items'[r.item].version
    PROVE  LogInv'
<1>1. NeverAhead'
  <2>1. \A r \in receipts : /\ r.hash.expected \in Nat /\ r.revision \in Nat
                            /\ items[r.item].version \in Nat
                            /\ r.hash.expected <= r.revision
                            /\ r.revision <= items[r.item].version
    BY ReceiptTypes DEF LogInv, NeverAhead
  <2>2. QED
    BY <2>1 DEF NeverAhead
<1>2. OnePerKey' /\ CanonicalHashes' /\ MovesTold' /\ RevisionSpentOnce'
  BY DEF LogInv, OnePerKey, CanonicalHashes, MovesTold, CommandsCountOnce, RevisionSpentOnce
<1>3. HistoryWrittenOnce'
  BY DEF LogInv, CommandsCountOnce, HistoryWrittenOnce, OneReceipt
<1>4. QED
  BY <1>1, <1>2, <1>3 DEF LogInv, CommandsCountOnce

LEMMA DefinitionsLog == IInv /\ LogInv /\ Definitions => LogInv'
<1> SUFFICES ASSUME IInv, LogInv, Definitions PROVE LogInv'
  OBVIOUS
<1>1. /\ TypeOK /\ UNCHANGED <<receipts, submissions>>
      /\ \A i \in Items : items[i] \in Item /\ items[i].version \in Nat
      /\ items \in [Items -> Item]
  BY DEF IInv, TypeOK, Item, Definitions, AddItem, UpdateItem, BranchItem, ChildMoves, DeleteItem
<1>2. \A r \in receipts : r.item \in present /\ r.item \in Items
  BY <1>1, ReceiptTypes DEF LogInv, NeverAhead
<1>3. ASSUME NEW i \in Items, NEW new, items' = [items EXCEPT ![i] = new],
             present \ {i} \subseteq present',
             \A r \in receipts : r.item = i =>
                i \in present' /\ new.version \in Nat /\ items[i].version <= new.version
      PROVE  LogInv'
  <2>1. ASSUME NEW r \in receipts
        PROVE  /\ r.item \in present'
               /\ items'[r.item].version \in Nat
               /\ items[r.item].version <= items'[r.item].version
    <3>1. CASE r.item = i
      BY <3>1, <1>1, <1>3
    <3>2. CASE r.item # i
      BY <3>2, <1>1, <1>2, <1>3
    <3>3. QED
      BY <3>1, <3>2
  <2>2. QED
    BY <2>1, <1>1, QuietLog
<1>4. ASSUME NEW i \in Items, AddItem(i) PROVE LogInv'
  <2>1. items' = [items EXCEPT ![i] = NewItem] /\ i \notin present /\ present \subseteq present'
    BY <1>4 DEF AddItem
  <2>2. \A r \in receipts : r.item # i
    BY <2>1, <1>2
  <2>3. QED
    BY <2>1, <2>2, <1>3
<1>5. ASSUME NEW i \in Items, DeleteItem(i) PROVE LogInv'
  <2>1. /\ items' = [items EXCEPT ![i] = NewItem] /\ present' = present \ {i}
        /\ \A r \in receipts : r.item # i
    BY <1>5 DEF DeleteItem
  <2>2. QED
    BY <2>1, <1>3
<1>6. ASSUME NEW i \in Items, UpdateItem(i) PROVE LogInv'
  <2> DEFINE new == [items[i] EXCEPT !.version = items[i].version + 1]
  <2>1. /\ items' = [items EXCEPT ![i] = new] /\ present' = present /\ i \in present
        /\ new.version = items[i].version + 1
    BY <1>1, <1>6 DEF UpdateItem, Item
  <2> HIDE DEF new
  <2>2. new.version \in Nat /\ items[i].version <= new.version
    BY <2>1, <1>1
  <2>3. QED
    BY <2>1, <2>2, <1>3
<1>7. ASSUME NEW i \in Items, BranchItem(i) PROVE LogInv'
  <2> DEFINE writes == IF items[i].status = StatusOf(TODO) THEN 1 ELSE 2
             new == [NewItem EXCEPT !.branched = TRUE, !.version = items[i].version + writes]
  <2>1. /\ items' = [items EXCEPT ![i] = new] /\ present' = present /\ i \in present
    BY <1>7 DEF BranchItem
  <2>2. new.version = items[i].version + writes
    BY NewItemType DEF Item
  <2> HIDE DEF new
  <2>3. new.version \in Nat /\ items[i].version <= new.version
    BY <2>2, <1>1
  <2>4. QED
    BY <2>1, <2>3, <1>3
<1>8. ASSUME NEW i \in Items, NEW stage \in Stages, ChildMoves(i, stage) PROVE LogInv'
  <2> DEFINE new == [items[i] EXCEPT !.status = StatusOf(stage), !.stage = stage,
                                     !.completed = stage = DONE,
                                     !.version = items[i].version + 1]
  <2>1. /\ items' = [items EXCEPT ![i] = new] /\ present' = present /\ i \in present
    BY <1>8 DEF ChildMoves
  <2>2. new.version = items[i].version + 1
    BY <1>1 DEF Item
  <2> HIDE DEF new
  <2>3. new.version \in Nat /\ items[i].version <= new.version
    BY <2>2, <1>1
  <2>4. QED
    BY <2>1, <2>3, <1>3
<1>9. QED
  BY <1>4, <1>5, <1>6, <1>7, <1>8 DEF Definitions

LEMMA LogInvariance == Spec => [](IInv /\ LogInv)
<1>1. Init => IInv /\ LogInv
  BY InitInv, LogInit
<1>2. IInv /\ LogInv /\ [Next]_vars => (IInv /\ LogInv)'
  <2> SUFFICES ASSUME IInv, LogInv, [Next]_vars PROVE LogInv' /\ IInv'
    OBVIOUS
  <2>1. IInv'
    BY CommandsInv, DefinitionsInv, OrganisationInv, StutterInv DEF Next
  <2>2. TypeOK /\ TypeOK'
    BY <2>1 DEF IInv
  <2>3. CASE Commands
    <3>1. PICK r \in Receipt : Logged(r)
      BY <2>3, CommandsLogged
    <3>2. Receipted(r)
      BY <3>1 DEF Logged
    <3>3. NeverAhead' /\ RevisionSpentOnce'
      BY <3>2, <2>2, LoggedSpends DEF LogInv, CommandsCountOnce
    <3>4. OnePerKey' /\ CanonicalHashes'
      BY <3>2, LoggedKeys DEF LogInv
    <3>5. MovesTold' /\ HistoryWrittenOnce'
      BY <3>1, <2>2, LoggedHistory DEF LogInv, CommandsCountOnce
    <3>6. QED
      BY <2>1, <3>3, <3>4, <3>5 DEF LogInv, CommandsCountOnce
  <2>4. CASE Definitions
    BY <2>1, <2>4, DefinitionsLog
  <2>5. CASE Organisation \/ UNCHANGED vars
    <3>1. UNCHANGED <<present, items, submissions, receipts>>
      BY <2>5 DEF Organisation, Reassign, Offboard, Join, RemoveReportee, Supersede, vars
    <3>2. \A r \in receipts : r.item \in present /\ items[r.item].version \in Nat
      BY <2>2, ReceiptTypes DEF LogInv, NeverAhead
    <3>3. QED
      BY <3>1, <3>2, <2>1, <2>2, QuietLog
  <2>6. QED
    BY <2>3, <2>4, <2>5 DEF Next
<1>3. QED
  BY <1>1, <1>2, PTL DEF Spec

(***************************************************************************)
(* Commands count once, for the revision they name and in the history,     *)
(* however often and by whomever they are sent: execute() and notes()      *)
(* write one receipt with each revision, attempt and decision.             *)
(***************************************************************************)
THEOREM CommandsCountOnceAlways == Spec => []CommandsCountOnce
<1>1. LogInv => CommandsCountOnce
  BY DEF LogInv
<1>2. QED
  BY <1>1, LogInvariance, PTL

(***************************************************************************)
(* A command that was executed is answered from its receipt, in every      *)
(* spelling the client may use, whatever happened to the item since.       *)
(***************************************************************************)
THEOREM RetryIsAnsweredAlways == Spec => []RetryIsAnswered
<1>1. IInv /\ LogInv => RetryIsAnswered
  <2> SUFFICES ASSUME IInv, LogInv, NEW r \in receipts, Loads(r.item, r.actor),
                      r.hash \in CommandHash, NEW requested \in Spellings(r.hash)
               PROVE  Replays(r.item, r.actor, r.key,
                              hashOf(r.hash.target, requested, r.hash.expected,
                                     r.hash.submission, r.hash.reviewNote))
    BY DEF RetryIsAnswered
  <2>1. Canonical(r.hash)
    BY DEF LogInv, CanonicalHashes
  <2>2. hashOf(r.hash.target, requested, r.hash.expected, r.hash.submission,
               r.hash.reviewNote) = r.hash
    BY <2>1, RespelledHash
  <2>3. Receipts(r.item, r.actor, r.key) = {r}
    BY DEF LogInv, OnePerKey, Receipts
  <2>4. Replays(r.item, r.actor, r.key, r.hash)
    BY <2>3 DEF Replays
  <2>5. QED
    BY <2>2, <2>4
<1>2. QED
  BY <1>1, LogInvariance, PTL

-----------------------------------------------------------------------------
(***************************************************************************)
(* What a read offers.  Sending the revision and the attempt that were     *)
(* read leaves the policy alone to decide, because the attempts agree with *)
(* the status (a submission finds none open, a decision finds one).        *)
(***************************************************************************)
LEMMA CanIsPolicy ==
    ASSUME IInv, NEW i \in Items, NEW u, NEW target, NEW requested \in Intents \cup {NoIntent}
    PROVE  Can(i, u, target, requested) <=>
             TaskOpen /\ Authorizes(items[i], target, relationships(u), requested)
<1> DEFINE intent == IntentOf(i, u, target, requested)
<1>1. TypeOK /\ Reviewed(items[i], submissions[i])
  BY DEF IInv, Consistent
<1>2. Active(i) # {} <=> UnderReview(items[i]) /\ ~items[i].branched
  BY <1>1, ActiveIsNewest
<1>3. ASSUME Authorizes(items[i], target, relationships(u), requested)
      PROVE  /\ intent = "SUBMIT" => Active(i) = {}
             /\ intent \in Decisions => Active(i) # {}
  <2>1. ValidMove(items[i], target, intent) /\ ~items[i].branched
    BY <1>3 DEF Authorizes, IntentOf
  <2>2. intent = "SUBMIT" => ~UnderReview(items[i])
    BY <2>1 DEF ValidMove
  <2>3. intent \in Decisions => UnderReview(items[i])
    BY <2>1 DEF ValidMove, Decisions
  <2>4. QED
    BY <2>1, <2>2, <2>3, <1>2
<1>4. QED
  BY <1>3 DEF Can, Permits, AtRevision

\* What one flag or target of checklistCapabilities() comes to.
LEMMA TargetsArePolicy ==
    ASSUME NEW item, NEW s \in Statuses, NEW roles, NEW open \in BOOLEAN
    PROVE  LET dual == UnderReview(item) /\ roles.assignee /\ roles.reviewer
           IN  s \in allowedTargetStatusIds(item, roles, open) <=>
                 /\ open
                 /\ \/ Authorizes(item, s, roles, NoIntent)
                    \/ Authorizes(item, s, roles, IF dual THEN "WITHDRAW" ELSE NoIntent)
<1> DEFINE dual == UnderReview(item) /\ roles.assignee /\ roles.reviewer
           returns == dual /\ stageOf[s] # DONE /\ s # item.status
<1>1. s \in allowedTargetStatusIds(item, roles, open) <=>
        open /\ Authorizes(item, s, roles, IF returns THEN "WITHDRAW" ELSE NoIntent)
  BY DEF allowedTargetStatusIds, Live, Authorizes
<1>2. returns => ~Authorizes(item, s, roles, NoIntent)
  BY DEF Authorizes, AmbiguousReturn
<1>3. dual /\ ~returns => ~Authorizes(item, s, roles, "WITHDRAW")
  <2> SUFFICES ASSUME dual, ~returns, Authorizes(item, s, roles, "WITHDRAW") PROVE FALSE
    OBVIOUS
  <2> DEFINE intent == InferredIntent(item, s, roles, "WITHDRAW")
  <2>1. "WITHDRAW" \in {NoIntent, "MOVE", intent} /\ ValidMove(item, s, intent)
    BY DEF Authorizes
  <2>2. intent = "WITHDRAW"
    BY <2>1 DEF NoIntent
  <2>3. stageOf[s] \notin {IN_REVIEW, DONE}
    BY <2>1, <2>2 DEF ValidMove
  <2>4. s = item.status
    BY <2>3
  <2>5. QED
    BY <2>3, <2>4 DEF UnderReview
<1>4. QED
  BY <1>1, <1>2, <1>3

\* What an explicit command needs.
LEMMA ExplicitPolicy ==
    ASSUME NEW item \in Item, Agrees(item), NEW roles
    PROVE  /\ Authorizes(item, StatusOf(IN_REVIEW), roles, "SUBMIT") <=>
                ~item.completed /\ ~item.branched /\ ~UnderReview(item) /\ roles.assignee
           /\ Authorizes(item, StatusOf(DONE), roles, "ACCEPT") <=>
                ~item.completed /\ ~item.branched /\ UnderReview(item) /\ roles.reviewer
           /\ Authorizes(item, StatusOf(TODO), roles, "REJECT") <=>
                ~item.completed /\ ~item.branched /\ UnderReview(item) /\ roles.reviewer
           /\ Authorizes(item, StatusOf(TODO), roles, "WITHDRAW") <=>
                ~item.completed /\ ~item.branched /\ UnderReview(item) /\ roles.assignee
<1>1. /\ stageOf[StatusOf(IN_REVIEW)] = IN_REVIEW
      /\ stageOf[StatusOf(DONE)] = DONE
      /\ stageOf[StatusOf(TODO)] = TODO
  BY StatusOfStage DEF Stages, TODO, IN_REVIEW, DONE
<1>2. IN_REVIEW # DONE /\ TODO # DONE /\ TODO # IN_REVIEW
  BY DEF TODO, IN_REVIEW, DONE
<1>3. ~item.completed => stageOf[item.status] # DONE
  BY DEF Agrees, NoStage, TODO, IN_PROGRESS, DONE
<1>4. ~UnderReview(item) => InferredIntent(item, StatusOf(IN_REVIEW), roles, "SUBMIT") = "SUBMIT"
  BY <1>1 DEF UnderReview, InferredIntent, NoIntent
<1>5. Authorizes(item, StatusOf(IN_REVIEW), roles, "SUBMIT") <=>
        ~item.completed /\ ~item.branched /\ ~UnderReview(item) /\ roles.assignee
  <2>1. CASE UnderReview(item)
    <3>1. InferredIntent(item, StatusOf(IN_REVIEW), roles, "SUBMIT") = "SUBMIT"
      BY <2>1, <1>1, <1>2 DEF InferredIntent, NoIntent
    <3>2. QED
      BY <2>1, <3>1 DEF Authorizes, ValidMove
  <2>2. CASE ~UnderReview(item)
    BY <2>2, <1>1, <1>2, <1>3, <1>4 DEF Authorizes, ValidMove, AmbiguousReturn, NoIntent
  <2>3. QED
    BY <2>1, <2>2
<1>6. UnderReview(item) => InferredIntent(item, StatusOf(DONE), roles, "ACCEPT") = "ACCEPT"
  BY <1>1, <1>2 DEF UnderReview, InferredIntent, NoIntent
<1>7. Authorizes(item, StatusOf(DONE), roles, "ACCEPT") <=>
        ~item.completed /\ ~item.branched /\ UnderReview(item) /\ roles.reviewer
  <2>1. CASE UnderReview(item)
    BY <2>1, <1>1, <1>2, <1>3, <1>6 DEF Authorizes, ValidMove, AmbiguousReturn, NoIntent
  <2>2. CASE ~UnderReview(item)
    BY <2>2, <1>1 DEF Authorizes
  <2>3. QED
    BY <2>1, <2>2
<1>8. ASSUME NEW intent \in {"REJECT", "WITHDRAW"}
      PROVE  Authorizes(item, StatusOf(TODO), roles, intent) <=>
               /\ ~item.completed /\ ~item.branched /\ UnderReview(item)
               /\ IF intent = "REJECT" THEN roles.reviewer ELSE roles.assignee
  <2>1. InferredIntent(item, StatusOf(TODO), roles, intent) = intent
    BY <1>1, <1>2 DEF InferredIntent, NoIntent
  <2>2. QED
    BY <2>1, <1>1, <1>2, <1>3 DEF Authorizes, ValidMove, AmbiguousReturn, NoIntent
<1>9. QED
  BY <1>5, <1>7, <1>8

(***************************************************************************)
(* What a read offers can be done, and nothing else, for every user and    *)
(* every project's statuses (checklistCapabilities() against               *)
(* authorizeTransition() and the checks of execute()).                     *)
(***************************************************************************)
THEOREM CapabilitiesAreHonestAlways == Spec => []CapabilitiesAreHonest
<1>1. IInv => CapabilitiesAreHonest
  <2> SUFFICES ASSUME IInv, NEW i \in present, NEW u \in Users
               PROVE  LET roles == relationships(u)
                          may == checklistCapabilities(items[i], roles, TaskOpen)
                          returning == IF UnderReview(items[i]) /\ roles.assignee
                                            /\ roles.reviewer
                                       THEN "WITHDRAW" ELSE NoIntent
                      IN  /\ \A s \in Statuses :
                                s \in may.allowedTargets <=>
                                    Can(i, u, s, NoIntent) \/ Can(i, u, s, returning)
                          /\ may.canSubmit <=> Can(i, u, StatusOf(IN_REVIEW), "SUBMIT")
                          /\ may.canReview <=> Can(i, u, StatusOf(DONE), "ACCEPT")
                          /\ may.canReview <=> Can(i, u, StatusOf(TODO), "REJECT")
                          /\ may.canWithdraw <=> Can(i, u, StatusOf(TODO), "WITHDRAW")
                          /\ may.canEditSubmissionNotes =>
                                PermitsNote(i, u, 0, 0, items[i].version, ActiveAttempt(i))
                          /\ may.canUploadDeliverables <=> roles.assignee /\ PermitsUpload(i, u)
    BY DEF CapabilitiesAreHonest
  <2> DEFINE roles == relationships(u)
             may == checklistCapabilities(items[i], roles, TaskOpen)
             dual == UnderReview(items[i]) /\ roles.assignee /\ roles.reviewer
             returning == IF dual THEN "WITHDRAW" ELSE NoIntent
  <2>1. /\ TypeOK /\ i \in Items /\ items[i] \in Item /\ Agrees(items[i])
        /\ Reviewed(items[i], submissions[i])
    BY DEF IInv, TypeOK, Consistent
  <2>2. TaskOpen \in BOOLEAN
    BY DEF TaskOpen
  <2>3. \A r \in Intents \cup {NoIntent} : \A s :
          Can(i, u, s, r) <=> TaskOpen /\ Authorizes(items[i], s, roles, r)
    BY <2>1, CanIsPolicy
  <2>4. /\ may.allowedTargets = allowedTargetStatusIds(items[i], roles, TaskOpen)
        /\ may.canSubmit = (Live(items[i], TaskOpen) /\ ~UnderReview(items[i]) /\ roles.assignee)
        /\ may.canWithdraw = (Live(items[i], TaskOpen) /\ UnderReview(items[i]) /\ roles.assignee)
        /\ may.canReview = (Live(items[i], TaskOpen) /\ UnderReview(items[i]) /\ roles.reviewer)
        /\ may.canEditSubmissionNotes
             = (Live(items[i], TaskOpen) /\ UnderReview(items[i]) /\ roles.reviewer)
        /\ may.canUploadDeliverables = (Live(items[i], TaskOpen) /\ roles.assignee)
    BY DEF checklistCapabilities
  <2>5. {"SUBMIT", "ACCEPT", "REJECT", "WITHDRAW", NoIntent, returning} \subseteq
           Intents \cup {NoIntent}
    BY DEF Intents
  <2>6. ASSUME NEW s \in Statuses
        PROVE  s \in may.allowedTargets <=> Can(i, u, s, NoIntent) \/ Can(i, u, s, returning)
    <3>1. s \in may.allowedTargets <=>
            /\ TaskOpen
            /\ \/ Authorizes(items[i], s, roles, NoIntent)
               \/ Authorizes(items[i], s, roles, returning)
      BY <2>2, <2>4, TargetsArePolicy
    <3> HIDE DEF may, returning
    <3>2. QED
      BY <3>1, <2>3, <2>5
  <2>7. /\ Can(i, u, StatusOf(IN_REVIEW), "SUBMIT") <=>
             TaskOpen /\ Authorizes(items[i], StatusOf(IN_REVIEW), roles, "SUBMIT")
        /\ Can(i, u, StatusOf(DONE), "ACCEPT") <=>
             TaskOpen /\ Authorizes(items[i], StatusOf(DONE), roles, "ACCEPT")
        /\ Can(i, u, StatusOf(TODO), "REJECT") <=>
             TaskOpen /\ Authorizes(items[i], StatusOf(TODO), roles, "REJECT")
        /\ Can(i, u, StatusOf(TODO), "WITHDRAW") <=>
             TaskOpen /\ Authorizes(items[i], StatusOf(TODO), roles, "WITHDRAW")
    BY <2>3, <2>5
  <2> HIDE DEF roles
  <2>8. /\ may.canSubmit <=> Can(i, u, StatusOf(IN_REVIEW), "SUBMIT")
        /\ may.canReview <=> Can(i, u, StatusOf(DONE), "ACCEPT")
        /\ may.canReview <=> Can(i, u, StatusOf(TODO), "REJECT")
        /\ may.canWithdraw <=> Can(i, u, StatusOf(TODO), "WITHDRAW")
    <3> HIDE DEF may
    <3>1. QED
      BY <2>1, <2>4, <2>7, ExplicitPolicy DEF Live
  <2>9. may.canEditSubmissionNotes =>
          PermitsNote(i, u, 0, 0, items[i].version, ActiveAttempt(i))
    <3> SUFFICES ASSUME Live(items[i], TaskOpen), UnderReview(items[i]), roles.reviewer
                 PROVE  PermitsNote(i, u, 0, 0, items[i].version, ActiveAttempt(i))
      BY <2>4
    <3>1. ~items[i].completed /\ ~items[i].branched
      BY DEF Live
    <3>2. Active(i) # {}
      BY <2>1, <3>1, ActiveIsNewest
    <3>3. ActiveAttempt(i) \in Active(i)
      BY <3>2, <2>1, ActiveAttemptType
    <3>4. u = reportee
      BY DEF roles, relationships
    <3>5. QED
      BY <3>1, <3>3, <3>4 DEF PermitsNote, AtRevision
  <2>10. may.canUploadDeliverables <=> roles.assignee /\ PermitsUpload(i, u)
    <3>1. roles.assignee <=> u \in assignees
      BY DEF roles, relationships
    <3> HIDE DEF may
    <3>2. QED
      BY <2>4, <3>1 DEF Live, TaskOpen, PermitsUpload
  <2>11. QED
    BY <2>6, <2>8, <2>9, <2>10 DEF roles
<1>2. QED
  BY <1>1, Invariance, PTL
=============================================================================
