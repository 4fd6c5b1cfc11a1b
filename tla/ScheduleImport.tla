--------------------------- MODULE ScheduleImport ---------------------------
(***************************************************************************)
(* The codes of a work breakdown structure, and the sheets that make tasks *)
(* of them.                                                                *)
(*   src/src/tasks/services/task-wbs.service.ts                            *)
(*   src/src/tasks/services/activity-schedule-import.service.ts            *)
(*   src/src/tasks/services/task-crud.service.ts (codes, moves, deletion)  *)
(* An import looks up the tasks of its codes, and saves them and the new   *)
(* ones later, in a transaction that does not take the workflow lock.  The *)
(* other handlers hold the lock from their checks to their save, which an  *)
(* import may come between.  Files, names, sort keys, types and lags are   *)
(* left out, as is the calculation that follows the import.                *)
(***************************************************************************)
EXTENDS Integers, FiniteSets, Sequences

Paths == INSTANCE SequencesExt

CONSTANTS
    Codes,          \* WBS codes, the numbers between the dots: those that
                    \* normalizing a second time leaves as they are
    NoCode,
    Sheets, NoSheet,    \* [kind, rows]; a row is [path, after, days]
    Nodules, NoNode,    \* ids of tasks
    Importers,      \* imports at one time
    MaxActs         \* bound: imports and edits

\* normalizeCode(), which sheets and requests go through and then the codes that
\* are reserved: one last 0 is dropped.
Normalized(c) == IF Len(c) > 1 /\ c[Len(c)] = 0 THEN Paths!Front(c) ELSE c

\* Phase, stage and activity, and in a WBS sheet the task.
Depth(s) == IF s.kind = "wbs" THEN 4 ELSE 3

SheetRow(depth) == [path : [1 .. depth -> Codes], after : Codes \cup {NoCode}, days : Nat]

ASSUME ImportAssumption ==
    /\ Codes \subseteq Seq(Nat) /\ NoCode \notin Codes
    /\ \A c \in Codes : Normalized(c) = c
    /\ \A s \in Sheets : s.kind \in {"activities", "wbs"} /\ s.rows \in Seq(SheetRow(Depth(s)))
    /\ Nodules \subseteq Nat /\ IsFiniteSet(Nodules)
    /\ NoSheet \notin Sheets /\ NoNode \notin Nodules /\ MaxActs \in Nat

VARIABLES
    node,       \* tasks by id, those that were deleted included
    reserved,   \* task_wbs_codes: the task each code was given to
    days,       \* task_activity_schedules
    follows,    \* task_dependencies
    importer,   \* the sheet of each import, and the tasks it has found
    pending,    \* the update or the deletion that holds the lock
    crossed,    \* whether an import saved after others changed what it had
                \* found, or before a pending save
    imported,   \* the sheets that have been saved
    lastSheet,  \* the last of them, if there were no edits since
    removed,    \* the tasks users have deleted
    acts

tables == <<node, reserved, days, follows>>
importVars == <<tables, importer, pending, crossed, imported, lastSheet, removed, acts>>

-----------------------------------------------------------------------------
(***************************************************************************)
(* Sheets.                                                                 *)
(***************************************************************************)
Level(s, n) == {s.rows[i].path[n] : i \in DOMAIN s.rows}

CodesOf(s) == UNION {Level(s, n) : n \in 1 .. Depth(s)}

\* validateWorkbook(): a code of the last level is in one place; in a WBS sheet
\* each code begins with the one above, in the other each predecessor is there.
SheetIsValid(s) ==
    /\ \A i, j \in DOMAIN s.rows :
          Paths!Last(s.rows[i].path) = Paths!Last(s.rows[j].path)
              => s.rows[i].path = s.rows[j].path /\ s.rows[i].days = s.rows[j].days
    /\ IF s.kind = "wbs"
       THEN \A i \in DOMAIN s.rows, n \in 1 .. 3 :
               Paths!IsStrictPrefix(s.rows[i].path[n], s.rows[i].path[n + 1])
       ELSE \A i \in DOMAIN s.rows : s.rows[i].after \in Level(s, 3) \cup {NoCode}

\* The code above: uniqueActivityRows() and uniqueWbsTaskRows() keep the first
\* row, uniqueSummaryRows() and uniqueWbsSummaryRows() the last.
Above(s, n, c) ==
    LET at == {i \in DOMAIN s.rows : s.rows[i].path[n] = c}
    IN  IF n = 1 THEN NoCode
        ELSE LET i == CHOOSE i \in at : \A j \in at : IF n = Depth(s) THEN i <= j ELSE i >= j
             IN  s.rows[i].path[n - 1]

\* Levels are saved from the top: a code of two levels ends up where the lower
\* one puts it.
ParentCode(s, c) ==
    LET n == CHOOSE n \in 1 .. Depth(s) :
                c \in Level(s, n) /\ \A k \in n + 1 .. Depth(s) : c \notin Level(s, k)
    IN  Above(s, n, c)

LevelsApart(s) ==
    \A m, n \in 1 .. Depth(s) : m # n => Level(s, m) \cap Level(s, n) = {}

WellFormed(s) ==
    /\ LevelsApart(s)
    /\ \A i, j \in DOMAIN s.rows, n \in 2 .. Depth(s) :
          s.rows[i].path[n] = s.rows[j].path[n] => s.rows[i].path[n - 1] = s.rows[j].path[n - 1]

-----------------------------------------------------------------------------
(***************************************************************************)
(* Tasks.                                                                  *)
(***************************************************************************)
LiveNodes == {t \in DOMAIN node : ~node[t].gone}

HoldersOf(c) == {t \in LiveNodes : node[t].code = c}

\* t and all that is below it: what no set that holds t and the tasks below its
\* members leaves out.
Below(t) ==
    {u \in LiveNodes : \A S \in SUBSET LiveNodes :
        t \in S /\ (\A x \in LiveNodes : node[x].parent \in S => x \in S) => u \in S}

\* Mutant of the next: only the tasks that are there are asked.
Taken_ByLive(c, t) == HoldersOf(c) \ {t} # {}

\* reserveCode() throws if the code has been another task's.
Taken(c, t) == c \in DOMAIN reserved /\ reserved[c] # t

Updated(f, S, value(_)) == [x \in DOMAIN f \cup S |-> IF x \in S THEN value(x) ELSE f[x]]

FreshNode(t) == t \in Nodules \ DOMAIN node /\ \A u \in Nodules \ DOMAIN node : t <= u

-----------------------------------------------------------------------------
(***************************************************************************)
(* The import.                                                             *)
(***************************************************************************)
\* The tasks it finds by their codes.
Found(s) ==
    [c \in {x \in CodesOf(s) : HoldersOf(x) # {}} |-> CHOOSE t \in Nodules : t \in HoldersOf(c)]

\* toWbsSortKey(): the order in which they are saved, by the first number that
\* differs, or is missing.
SortsBefore(a, b) ==
    \E n \in DOMAIN b :
        /\ \A k \in 1 .. n - 1 : k \in DOMAIN a /\ a[k] = b[k]
        /\ n \in DOMAIN a => a[n] < b[n]

\* The task of each code, new ones for those that were not found.
Assigned(s, found) ==
    LET new == CodesOf(s) \ DOMAIN found
        free == Nodules \ DOMAIN node
        newFor(c) == CHOOSE t \in free : Cardinality({u \in free : u < t})
                                             = Cardinality({b \in new : SortsBefore(b, c)})
    IN  [c \in CodesOf(s) |-> IF c \in new THEN newFor(c) ELSE found[c]]

Fits(s, found) ==
    Cardinality(CodesOf(s) \ DOMAIN found) <= Cardinality(Nodules \ DOMAIN node)

\* A code may be another task's; and a WBS sheet makes a schedule for each level
\* of a code that has none.
Fails(s, found) ==
    LET id == Assigned(s, found) IN
    \/ \E c \in CodesOf(s) : Taken(c, id[c])
    \/ s.kind = "wbs" /\ ~LevelsApart(s)
          /\ \E m, n \in 1 .. Depth(s) : m # n
                /\ \E c \in Level(s, m) \cap Level(s, n) : id[c] \notin DOMAIN days

\* upsertTask() for all codes: a task that was found is saved as it was then.
Upserted(s, id) ==
    LET codeAt(t) == CHOOSE c \in CodesOf(s) : id[c] = t
        parentOf(c) == IF ParentCode(s, c) = NoCode THEN NoNode ELSE id[ParentCode(s, c)]
        row(t) == [code |-> codeAt(t), parent |-> parentOf(codeAt(t)), gone |-> FALSE]
    IN  Updated(node, {id[c] : c \in CodesOf(s)}, row)

\* A sheet of activities gives them their days, a WBS sheet only those without.
Spans(s, id) ==
    LET daysOf(c) == s.rows[CHOOSE i \in DOMAIN s.rows : s.rows[i].path[3] = c].days
        activity(t) == daysOf(CHOOSE c \in Level(s, 3) : id[c] = t)
        default(t) == IF \E c \in Level(s, 4) : id[c] = t THEN 1 ELSE 0
    IN  IF s.kind = "wbs"
        THEN Updated(days, {id[c] : c \in CodesOf(s)} \ DOMAIN days, default)
        ELSE Updated(days, {id[c] : c \in Level(s, 3)}, activity)

\* Dependencies are added, and none is deleted.
Followed(s, id) ==
    follows \cup
        {<<id[s.rows[i].path[3]], id[s.rows[i].after]>> :
            i \in {k \in DOMAIN s.rows : s.kind = "activities" /\ s.rows[k].after # NoCode}}

Imports(s, found) ==
    LET id == Assigned(s, found)
        reservedBy(c) == id[c]
    IN  <<Upserted(s, id), Updated(reserved, CodesOf(s), reservedBy), Spans(s, id), Followed(s, id)>>

IdleImporter == [sheet |-> NoSheet, found |-> <<>>, fresh |-> TRUE]

NoEdit == [op |-> "none", of |-> NoNode, to |-> NoNode, code |-> NoCode, all |-> {}]

\* Others have changed what these imports have found.
Crossed == [i \in Importers |-> IF importer[i].sheet = NoSheet THEN importer[i]
                                ELSE [importer[i] EXCEPT !.fresh = FALSE]]

ImportInit ==
    /\ node = <<>> /\ reserved = <<>> /\ days = <<>> /\ follows = {}
    /\ importer = [i \in Importers |-> IdleImporter]
    /\ pending = NoEdit
    /\ crossed = FALSE /\ imported = {} /\ lastSheet = NoSheet /\ removed = {} /\ acts = 0

\* importProjectSchedule(), up to its transaction.
LoadSheet(i, s) ==
    /\ importer[i].sheet = NoSheet /\ acts < MaxActs
    /\ SheetIsValid(s)
    /\ importer' = [importer EXCEPT ![i] = [sheet |-> s, found |-> Found(s), fresh |-> TRUE]]
    /\ acts' = acts + 1
    /\ UNCHANGED <<tables, pending, crossed, imported, lastSheet, removed>>

SaveSheet(i) ==
    LET s == importer[i].sheet
        found == importer[i].found
        new == Imports(s, found)
    IN  /\ s # NoSheet /\ Fits(s, found)
        /\ ~Fails(s, found)
        /\ node' = new[1] /\ reserved' = new[2] /\ days' = new[3] /\ follows' = new[4]
        /\ importer' = [Crossed EXCEPT ![i] = IdleImporter]
        /\ crossed' = (crossed \/ ~importer[i].fresh \/ pending # NoEdit)
        /\ imported' = imported \cup {s} /\ lastSheet' = s
        /\ UNCHANGED <<pending, removed, acts>>

AbandonSheet(i) ==
    LET s == importer[i].sheet IN
    /\ s # NoSheet /\ Fits(s, importer[i].found) /\ Fails(s, importer[i].found)
    /\ importer' = [importer EXCEPT ![i] = IdleImporter]
    /\ UNCHANGED <<tables, pending, crossed, imported, lastSheet, removed, acts>>

-----------------------------------------------------------------------------
(***************************************************************************)
(* What users do, under the lock.                                          *)
(***************************************************************************)
Edited ==
    /\ importer' = Crossed /\ lastSheet' = NoSheet
    /\ UNCHANGED <<follows, crossed, imported>>

\* createTask() and branchItemToSubtask(), with a code or without.
CreateCoded(t, parent, c) ==
    /\ pending = NoEdit /\ acts < MaxActs
    /\ FreshNode(t) /\ parent \in LiveNodes \cup {NoNode}
    /\ c # NoCode => c \notin DOMAIN reserved
    /\ node' = Updated(node, {t}, LAMBDA u : [code |-> c, parent |-> parent, gone |-> FALSE])
    /\ days' = Updated(days, {t}, LAMBDA u : 1)
    /\ reserved' = Updated(reserved, {c} \ {NoCode}, LAMBDA u : t)
    /\ acts' = acts + 1
    /\ Edited
    /\ UNCHANGED <<pending, removed>>

\* bulkUpdateTasks() and updateTask(): a task gets another parent, another code
\* (applyTaskAssignment(): it is never cleared), or both.  The row is saved as it
\* was loaded; a code that an import has taken meanwhile is refused then.
BeginUpdate(t, parent, c) ==
    /\ pending = NoEdit /\ acts < MaxActs
    /\ t \in LiveNodes /\ parent \in LiveNodes \cup {NoNode}
    /\ <<parent, c>> # <<node[t].parent, node[t].code>>
    /\ parent # node[t].parent => parent \notin Below(t)
    /\ node[t].code # NoCode => c # NoCode
    /\ ~Taken(c, t)
    /\ pending' = [op |-> "update", of |-> t, to |-> parent, code |-> c, all |-> {t}]
    /\ acts' = acts + 1
    /\ UNCHANGED <<tables, importer, crossed, imported, lastSheet, removed>>

FinishUpdate ==
    /\ pending.op = "update"
    /\ ~Taken(pending.code, pending.of)
    /\ node' = [node EXCEPT ![pending.of].parent = pending.to, ![pending.of].code = pending.code]
    /\ reserved' = Updated(reserved, {pending.code} \ {NoCode}, LAMBDA u : pending.of)
    /\ pending' = NoEdit
    /\ Edited
    /\ UNCHANGED <<days, removed, acts>>

AbandonUpdate ==
    /\ pending.op = "update" /\ Taken(pending.code, pending.of)
    /\ pending' = NoEdit
    /\ UNCHANGED <<tables, importer, crossed, imported, lastSheet, removed, acts>>

\* deleteTask(): the task and what is below it.
BeginDelete(t) ==
    /\ pending = NoEdit /\ acts < MaxActs
    /\ t \in LiveNodes
    /\ pending' = [op |-> "delete", of |-> t, to |-> NoNode, code |-> NoCode, all |-> Below(t)]
    /\ acts' = acts + 1
    /\ UNCHANGED <<tables, importer, crossed, imported, lastSheet, removed>>

FinishDelete ==
    /\ pending.op = "delete"
    /\ node' = [t \in DOMAIN node |->
                   IF t \in pending.all THEN [node[t] EXCEPT !.gone = TRUE] ELSE node[t]]
    /\ removed' = removed \cup pending.all
    /\ pending' = NoEdit
    /\ Edited
    /\ UNCHANGED <<reserved, days, acts>>

-----------------------------------------------------------------------------
ImportNext ==
    \/ \E i \in Importers :
          \/ \E s \in Sheets : LoadSheet(i, s)
          \/ SaveSheet(i) \/ AbandonSheet(i)
    \/ \E t \in Nodules :
          \/ \E parent \in Nodules \cup {NoNode} :
                \E c \in Codes \cup {NoCode} :
                    CreateCoded(t, parent, c) \/ BeginUpdate(t, parent, c)
          \/ BeginDelete(t)
    \/ FinishUpdate \/ AbandonUpdate \/ FinishDelete

ImportSpec == ImportInit /\ [][ImportNext]_importVars

-----------------------------------------------------------------------------
ImportTypeOK ==
    /\ DOMAIN node \subseteq Nodules
    /\ \A t \in DOMAIN node : node[t].code \in Codes \cup {NoCode}
    /\ DOMAIN reserved \subseteq Codes
    /\ DOMAIN days \subseteq DOMAIN node
    /\ follows \subseteq (DOMAIN node) \X (DOMAIN node)

\* "Permanent once assigned" (task-wbs.service.ts): a code is its task's alone,
\* whatever imports cross each other or the edits of users.
CodesArePermanent ==
    \A t \in DOMAIN node : node[t].code # NoCode => reserved[node[t].code] = t

\* A code that has been given is never given to another task.
ReservationsStay ==
    [][\A c \in DOMAIN reserved : c \in DOMAIN reserved' /\ reserved'[c] = reserved[c]]_importVars

\* Unless an import was crossed, tasks that users deleted stay deleted and the
\* parents of live tasks are live; and if no sheet had one code on two levels,
\* no task is below itself.
TreeStaysWhole ==
    ~crossed =>
        /\ removed \cap LiveNodes = {}
        /\ \A t \in LiveNodes : node[t].parent \in LiveNodes \cup {NoNode}
        /\ (\A s \in imported : LevelsApart(s)) => \A t \in LiveNodes : node[t].parent \notin Below(t)

\* After an import every row of the sheet is where its codes say, with its days
\* and after its predecessor; importing the sheet again changes nothing.
LastImportIsInPlace ==
    lastSheet # NoSheet =>
        LET s == lastSheet
            holder(c) == CHOOSE t \in Nodules : t \in HoldersOf(c)
        IN  /\ ~Fails(s, Found(s)) /\ Imports(s, Found(s)) = tables
            /\ WellFormed(s) => \A i \in DOMAIN s.rows :
                  LET path == s.rows[i].path
                      last == holder(Paths!Last(path))
                      above(n) == IF n = 1 THEN NoNode ELSE holder(path[n - 1])
                  IN  /\ \A n \in 1 .. Depth(s) :
                            HoldersOf(path[n]) # {} /\ node[holder(path[n])].parent = above(n)
                      /\ s.kind = "activities" =>
                            /\ days[last] = s.rows[i].days
                            /\ s.rows[i].after # NoCode => <<last, holder(s.rows[i].after)>> \in follows

(***************************************************************************)
(* Sheets and users share one breakdown structure and keep it, although    *)
(* imports look up tasks before their transaction and save without lock.   *)
(***************************************************************************)
ImportsAreFaithful == CodesArePermanent /\ TreeStaysWhole /\ LastImportIsInPlace
=============================================================================
