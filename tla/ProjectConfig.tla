---------------------------- MODULE ProjectConfig ----------------------------
(***************************************************************************)
(* The configuration of one project: its statuses, priorities, severities, *)
(* task types and labels; the creation of the project, which seeds them;   *)
(* and the requests that change them.                                      *)
(*   src/src/projects/project-config.service.ts                            *)
(*   src/src/projects/projects.service.ts (createProject)                  *)
(* Creation is a transaction for the project, four saves of its default    *)
(* rows side by side, and a transaction for the tasks of its template; it  *)
(* may end after any of them.  Requests load rows, check them, and write   *)
(* later, without a lock.  Names, colours and orders are left out; seeded  *)
(* rows that are alike are one row; outbox events are left out.            *)
(***************************************************************************)
EXTENDS Naturals, FiniteSets

CONSTANTS
    CustomKeys,         \* the keys users give rows of their own
    StatusChanges,      \* the updates of a status that are tried
    OptionChanges,      \* and those of the other rows
    Editors,            \* requests to the server at one time
    MaxEdits,           \* bound: requests
    MaxUsed             \* bound: rows of a kind that tasks refer to

VARIABLES
    table,      \* table[k]: the rows of each kind, by key
    used,       \* used[k]: the keys of rows that tasks refer to
    seeding,    \* the kinds that the creation of the project has yet to seed
    creation,   \* how far the creation has come
    edit,       \* what each client's handler has loaded and will save
    editOvertaken,  \* whether a handler wrote after others changed what it loaded
    edits       \* how many there have been

config == <<table, used>>
created == <<seeding, creation>>
configVars == <<config, created, edit, editOvertaken, edits>>

-----------------------------------------------------------------------------
Options == {"priority", "severity", "taskType"}

Seeded == Options \cup {"status"}

Kinds == Seeded \cup {"label"}

Stages == {"TODO", "IN_PROGRESS", "IN_REVIEW", "DONE"}

Seeds(k) ==
    CASE k = "status" -> Stages \cup {"blocked"}
      [] k = "label" -> {}
      [] OTHER -> {"default"}

Keys == (UNION {Seeds(k) : k \in Kinds}) \cup CustomKeys

Categories == {"not_started", "active", "done", "cancelled", "blocked"}

\* The columns of project_statuses; rows of other kinds use two of them.
Row == [category : Categories, policy : {"none", "some"},
        isDefault : BOOLEAN, isTerminal : BOOLEAN, isDone : BOOLEAN, isActive : BOOLEAN]

Plain == [category |-> "active", policy |-> "none",
          isDefault |-> FALSE, isTerminal |-> FALSE, isDone |-> FALSE, isActive |-> TRUE]

Exists(k, key) == key \in DOMAIN table[k]

\* The rows of t with this one in place of, or beside, what they were.
Put(t, key, row) == [x \in DOMAIN t \cup {key} |-> IF x = key THEN row ELSE t[x]]

\* seedDefaults(): what a row is when it is seeded.
Seed(k, key) ==
    CASE key \in {"TODO", "default"} ->
            [Plain EXCEPT !.isDefault = TRUE,
                          !.category = IF k = "status" THEN "not_started" ELSE "active"]
      [] key = "DONE" -> [Plain EXCEPT !.category = "done", !.isTerminal = TRUE, !.isDone = TRUE]
      [] key = "blocked" -> [Plain EXCEPT !.category = "blocked"]
      [] OTHER -> Plain

\* The fields of dto replace those of row.
With(row, dto) == [f \in DOMAIN row |-> IF f \in DOMAIN dto THEN dto[f] ELSE row[f]]

ASSUME ConfigAssumption ==
    MaxEdits \in Nat /\ \A dto \in StatusChanges \cup OptionChanges : With(Plain, dto) \in Row

-----------------------------------------------------------------------------
(***************************************************************************)
(* What a status may be.                                                   *)
(***************************************************************************)
MeansDone(row) == row.category = "done" \/ row.isDone

PolicyIsValid(row) == row.policy # "none" => MeansDone(row)

Normalized(row) ==
    IF MeansDone(row) THEN [row EXCEPT !.category = "done", !.isTerminal = TRUE, !.isDone = TRUE]
    ELSE row

ActiveDone(t) == {key \in DOMAIN t : t[key].isDone /\ t[key].isActive}

\* assertCanCreateStatus()
CanCreate(row) == row.isDone <=> ActiveDone(table["status"]) = {}

\* assertCanUpdateStatus()
CanUpdate(key, row) ==
    (row.isDone /\ row.isActive) <=> ActiveDone(table["status"]) \ {key} = {}

\* assertCanDeleteStatus()
CanDelete(row) ==
    row.isDone /\ row.isActive => Cardinality(ActiveDone(table["status"])) > 1

-----------------------------------------------------------------------------
(***************************************************************************)
(* Handlers up to their first write.  An edit remembers the row it will     *)
(* save, the rows its transaction found to be the default, and whether     *)
(* what it loaded is still what the tables hold.                           *)
(***************************************************************************)
EditPhases == {"idle", "loaded", "begun", "unset"}

Edit == [phase : EditPhases, op : {"insert", "update", "remove", "project"}, kind : Kinds, key : Keys,
         row : Row, takes : BOOLEAN, seen : SUBSET Keys, fresh : BOOLEAN]

IdleEdit == [phase |-> "idle", op |-> "update", kind |-> "label", key |-> "TODO",
         row |-> Plain, takes |-> FALSE, seen |-> {}, fresh |-> TRUE]

ReadyToEdit(c) == edit[c].phase = "idle" /\ edits < MaxEdits

\* takes: whether the row becomes the default in place of the others.
LoadRow(c, op, k, key, row, takes) ==
    /\ edits' = edits + 1
    /\ edit' = [edit EXCEPT ![c] = [IdleEdit EXCEPT !.phase = "loaded", !.op = op, !.kind = k,
                                                !.key = key, !.row = row, !.takes = takes]]
    /\ UNCHANGED <<config, editOvertaken>>

ProjectExists == creation # "none"

Create(c, k, key, dto) ==
    /\ ProjectExists /\ ~Exists(k, key)
    /\ LoadRow(c, "insert", k, key, With(Plain, dto), With(Plain, dto).isDefault)
    /\ UNCHANGED created

Update(c, k, key, dto) ==
    /\ Exists(k, key)
    /\ LoadRow(c, "update", k, key, With(table[k][key], dto),
            With(table[k][key], dto).isDefault /\ ~table[k][key].isDefault)
    /\ UNCHANGED created

Delete(c, k, key) ==
    /\ Exists(k, key)
    /\ LoadRow(c, "remove", k, key, Plain, FALSE)
    /\ UNCHANGED created

Unused(k, key) == key \notin used[k]

-----------------------------------------------------------------------------
CreateStatus(c, key, dto) ==
    LET row == [Normalized(With(Plain, dto)) EXCEPT !.isActive = TRUE] IN
    /\ PolicyIsValid(With(Plain, dto))
    /\ CanCreate(row)
    /\ Create(c, "status", key, row)

\* A seeded status keeps its meaning; one of the users' own may not be the
\* default, be done or be terminal by request.
UpdateStatus(c, key, dto) ==
    LET old == table["status"][key]
        row == With(old, dto)
    IN
    /\ ~\E f \in DOMAIN dto \cap {"isDone", "isTerminal", "isDefault"} : dto[f]
    /\ Exists("status", key)
    /\ key \in Stages => row = old
    /\ PolicyIsValid(row)
    /\ CanUpdate(key, Normalized(row))
    /\ Update(c, "status", key, Normalized(row))

DeleteStatus(c, key) ==
    /\ Exists("status", key) /\ key \notin Stages
    /\ Unused("status", key)
    /\ CanDelete(table["status"][key])
    /\ Delete(c, "status", key)

CreatePriority(c, key, dto) == Create(c, "priority", key, dto)

UpdatePriority(c, key, dto) == Update(c, "priority", key, dto)

DeletePriority(c, key) == Unused("priority", key) /\ Delete(c, "priority", key)

CreateSeverity(c, key, dto) == Create(c, "severity", key, dto)

UpdateSeverity(c, key, dto) == Update(c, "severity", key, dto)

\* Tasks of the severity have none afterwards.
DeleteSeverity(c, key) == Delete(c, "severity", key)

CreateTaskType(c, key, dto) == Create(c, "taskType", key, dto)

UpdateTaskType(c, key, dto) == Update(c, "taskType", key, dto)

DeleteTaskType(c, key) == Unused("taskType", key) /\ Delete(c, "taskType", key)

\* Labels have no default.
CreateLabel(c, key) == Create(c, "label", key, Plain)

UpdateLabel(c, key) == Update(c, "label", key, Plain)

DeleteLabel(c, key) == Delete(c, "label", key)

-----------------------------------------------------------------------------
(***************************************************************************)
(* Their writes.                                                           *)
(***************************************************************************)
FinishEdit(c) ==
    edit' = [d \in Editors |->
                IF d = c \/ edit[d].phase = "idle" THEN IdleEdit ELSE [edit[d] EXCEPT !.fresh = FALSE]]

WroteRow(c) == editOvertaken' = (editOvertaken \/ ~edit[c].fresh) /\ UNCHANGED edits

Defaults(k) == {key \in DOMAIN table[k] : table[k][key].isDefault}

Cleared(k, keys) ==
    [key \in DOMAIN table[k] |->
        IF key \in keys THEN [table[k][key] EXCEPT !.isDefault = FALSE] ELSE table[k][key]]

\* The transaction that saves a status first updates the default rows it
\* sees; it waits for another that does, and then does not see its new row.
BeginStatus(c) ==
    /\ edit[c].phase = "loaded" /\ edit[c].kind = "status" /\ edit[c].op \in {"insert", "update"}
    /\ edit' = [edit EXCEPT ![c].phase = "begun",
                            ![c].seen = IF edit[c].takes THEN Defaults("status") ELSE {}]
    /\ UNCHANGED <<config, created, editOvertaken, edits>>

\* The rows of the other kinds are updated in a statement of their own.
\* Mutant: they are left as they are.
Unset_Nothing(c) ==
    /\ edit[c].phase = "loaded" /\ edit[c].kind \in Options /\ edit[c].takes
    /\ edit' = [edit EXCEPT ![c].phase = "unset"]
    /\ UNCHANGED <<config, created, editOvertaken, edits>>

Unset(c) ==
    LET k == edit[c].kind IN
    /\ edit[c].phase = "loaded" /\ k \in Options /\ edit[c].takes
    /\ table' = [table EXCEPT ![k] = Cleared(k, Defaults(k))]
    /\ edit' = [d \in Editors |->
                 IF d = c THEN [edit[c] EXCEPT !.phase = "unset"]
                 ELSE IF edit[d].phase = "idle" THEN IdleEdit ELSE [edit[d] EXCEPT !.fresh = FALSE]]
    /\ WroteRow(c)
    /\ UNCHANGED <<used, created>>

\* The key is unique: a row inserted since refuses an insertion.  A row that
\* was deleted since is inserted again by the save of an update.
SaveRow(c) ==
    LET k == edit[c].kind
        key == edit[c].key
    IN
    /\ edit[c].op \in {"insert", "update"}
    /\ \/ edit[c].phase \in {"begun", "unset"}
       \/ edit[c].phase = "loaded" /\ k # "status" /\ ~(k \in Options /\ edit[c].takes)
    /\ edit[c].op = "insert" => ~Exists(k, key)
    /\ table' = [table EXCEPT ![k] = Put(Cleared(k, edit[c].seen), key, edit[c].row)]
    /\ FinishEdit(c) /\ WroteRow(c)
    /\ UNCHANGED <<used, created>>

\* Tasks restrict the deletion of their status and type; their priority or
\* severity is set to null instead.
RemoveRow(c) ==
    LET k == edit[c].kind
        key == edit[c].key
    IN
    /\ edit[c].phase = "loaded" /\ edit[c].op = "remove"
    /\ k \in {"status", "taskType"} => Unused(k, key)
    /\ table' = [table EXCEPT ![k] = [x \in DOMAIN @ \ {key} |-> @[x]]]
    /\ used' = [used EXCEPT ![k] = @ \ {key}]
    /\ FinishEdit(c) /\ WroteRow(c)
    /\ UNCHANGED created

AbortEdit(c) ==
    /\ edit[c].phase # "idle"
    /\ edit' = [edit EXCEPT ![c] = IdleEdit]
    /\ creation' = IF edit[c].op = "project" THEN "failed" ELSE creation
    /\ UNCHANGED <<config, seeding, editOvertaken, edits>>

-----------------------------------------------------------------------------
(***************************************************************************)
(* createProject()                                                         *)
(***************************************************************************)
CreateProject(c) ==
    /\ creation = "none"
    /\ LoadRow(c, "project", "label", "TODO", Plain, FALSE)
    /\ creation' = "created" /\ seeding' = Seeded

Creating(c) == edit[c].phase = "loaded" /\ edit[c].op = "project" /\ creation = "created"

\* One of the four saves; a key that is taken refuses all of its rows.
SeedKind(c, k) ==
    /\ Creating(c) /\ k \in seeding
    /\ DOMAIN table[k] \cap Seeds(k) = {}
    /\ table' = [table EXCEPT ![k] = [key \in DOMAIN @ \cup Seeds(k) |->
                    IF key \in Seeds(k) THEN Seed(k, key) ELSE @[key]]]
    /\ seeding' = seeding \ {k}
    /\ edit' = [d \in Editors |-> IF d = c \/ edit[d].phase = "idle" THEN edit[d]
                                  ELSE [edit[d] EXCEPT !.fresh = FALSE]]
    /\ WroteRow(c)
    /\ UNCHANGED <<used, creation>>

\* The tasks of the template take the default status and type, if both exist.
SeedTasks(c) ==
    /\ Creating(c) /\ seeding = {}
    /\ creation' = "complete"
    /\ \/ UNCHANGED used
       \/ /\ \A k \in {"status", "taskType"} : Defaults(k) # {}
          /\ \E k \in {"status", "taskType"} : \E key \in Defaults(k) :
                used' = [used EXCEPT ![k] = @ \cup {key}]
    /\ FinishEdit(c) /\ WroteRow(c)
    /\ UNCHANGED <<table, seeding>>

\* A task needs a status and a type; one of the rows it refers to is kept.
CreateTask(k, key) ==
    /\ \A needed \in {"status", "taskType"} : DOMAIN table[needed] # {}
    /\ \A other \in Kinds : Cardinality(used[other]) < MaxUsed
    /\ Exists(k, key)
    /\ used' = [used EXCEPT ![k] = @ \cup {key}]
    /\ UNCHANGED <<table, created, edit, editOvertaken, edits>>

-----------------------------------------------------------------------------
ConfigInit ==
    /\ table = [k \in Kinds |-> [key \in {} |-> Plain]]
    /\ used = [k \in Kinds |-> {}]
    /\ seeding = {} /\ creation = "none"
    /\ edit = [c \in Editors |-> IdleEdit]
    /\ editOvertaken = FALSE
    /\ edits = 0

EditRequest(c) ==
    /\ ReadyToEdit(c)
    /\ \/ CreateProject(c)
       \/ \E key \in Keys :
           \/ \E dto \in StatusChanges : UpdateStatus(c, key, dto)
           \/ \E dto \in OptionChanges :
               \/ UpdatePriority(c, key, dto)
               \/ UpdateSeverity(c, key, dto)
               \/ UpdateTaskType(c, key, dto)
           \/ DeleteStatus(c, key) \/ DeletePriority(c, key) \/ DeleteSeverity(c, key)
           \/ DeleteTaskType(c, key) \/ UpdateLabel(c, key) \/ DeleteLabel(c, key)
       \/ \E key \in CustomKeys :
           \/ \E dto \in StatusChanges : CreateStatus(c, key, dto)
           \/ \E dto \in OptionChanges :
               \/ CreatePriority(c, key, dto)
               \/ CreateSeverity(c, key, dto)
               \/ CreateTaskType(c, key, dto)
           \/ CreateLabel(c, key)

EditWrite(c) ==
    \/ BeginStatus(c) \/ Unset(c) \/ SaveRow(c) \/ RemoveRow(c) \/ AbortEdit(c)
    \/ \E k \in Seeded : SeedKind(c, k)
    \/ SeedTasks(c)

ConfigNext ==
    \/ \E k \in Seeded, key \in Keys : CreateTask(k, key)
    \/ \E c \in Editors : EditRequest(c) \/ EditWrite(c)

ConfigSpec == ConfigInit /\ [][ConfigNext]_configVars

-----------------------------------------------------------------------------
\* Every variable has its type.
ConfigTypeOK ==
    /\ DOMAIN table = Kinds
    /\ \A k \in Kinds : DOMAIN table[k] \subseteq Keys /\ table[k] \in [DOMAIN table[k] -> Row]
    /\ used \in [Kinds -> SUBSET Keys]
    /\ seeding \in SUBSET Seeded
    /\ creation \in {"none", "created", "complete", "failed"}
    /\ edit \in [Editors -> Edit]
    /\ editOvertaken \in BOOLEAN
    /\ edits \in 0 .. MaxEdits

\* Once its statuses are seeded, a project has its four canonical statuses
\* with the meaning they were seeded with, whatever is updated, deleted or
\* saved late; only which status is the default may change.
CanonicalStatusesAreKept ==
    ProjectExists /\ "status" \notin seeding =>
        \A key \in Stages :
            Exists("status", key) /\ [table["status"][key] EXCEPT !.isDefault = FALSE]
                = [Seed("status", key) EXCEPT !.isDefault = FALSE]

\* As long as no handler was overtaken, a project whose statuses are seeded
\* has one active status that means done, the canonical one, and no kind of
\* row has two defaults.
OneOfEachIfFresh ==
    ~editOvertaken =>
        /\ ProjectExists /\ "status" \notin seeding => ActiveDone(table["status"]) = {"DONE"}
        /\ \A k \in Kinds : Cardinality(Defaults(k)) <= 1

\* Both hold of the configuration of a project.
ConfigurationIsSound == CanonicalStatusesAreKept /\ OneOfEachIfFresh
=============================================================================
