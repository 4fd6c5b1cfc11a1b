----------------------------- MODULE Documents -----------------------------
(***************************************************************************)
(* The documents of a task and of one checklist item of it, their files    *)
(* and the objects in the store.                                           *)
(*   src/src/tasks/services/task-documents.service.ts                      *)
(*   src/src/tasks/services/task-package.service.ts                        *)
(*   src/src/common/services/minio.service.ts                              *)
(* An upload comes before the transaction that saves its row under the     *)
(* project's lock; when that fails the object is deleted, which may fail   *)
(* too.  The server may stop in between, and the answer to a commit may be *)
(* lost.  Files are submitted as evidence while the work is open.  What is *)
(* made of a deliverable belongs to another task, whose work stays open.   *)
(***************************************************************************)
EXTENDS Integers, FiniteSets, Sequences, SequencesExt

CONSTANTS
    Savers,         \* requests at one time
    Closings,       \* what becomes of the work, of the four below
    MaxDocuments, MaxFiles, MaxRevisions    \* bounds

ASSUME ClosingsAssumption == Closings \subseteq {"task done", "item done", "branched", "superseded"}

ASSUME DocumentBounds == MaxDocuments \in Nat /\ MaxFiles \in Nat /\ MaxRevisions \in Nat

VARIABLES
    document,   \* task_documents: type, owner, deleted, revisions
    attachment, \* task_document_attachments: the document's, the object's number
    stored,     \* the objects in the store, by number
    uploads,    \* objects uploaded so far
    saving,     \* what each request has read and uploaded
    evidence,   \* the attachments of submissions
    workplace,  \* "open", or what became of the task or the item
    unsure,     \* objects deleted though their row was committed
    leftover    \* objects that were not cleaned up

documentVars == <<document, attachment, stored, uploads, saving, evidence, workplace, unsure, leftover>>

Types == {"starter", "deliverable", "reference"}

Owners == {"task", "item", "other task"}

NoSave == [phase |-> "idle", type |-> "starter", owner |-> "task", at |-> 0, file |-> 0, source |-> 0]

AttachmentsOf(d) == {a \in DOMAIN attachment : attachment[a].of = d}

ActiveOf(d) == {a \in AttachmentsOf(d) : attachment[a].active}

-----------------------------------------------------------------------------
(***************************************************************************)
(* What is checked under the lock.                                         *)
(***************************************************************************)
\* authorizeWrite(), for some member; TaskAccess has who that is.
MayWrite(owner) == owner # "other task" => workplace # "superseded"

\* assertUploadOpen(): the task, and the item of an item's document.
UploadIsOpen(owner) ==
    /\ owner # "other task" => workplace # "task done"
    /\ owner = "item" => workplace \notin {"item done", "branched"}

\* validateScope().
ValidScope(type, owner) ==
    /\ type = "reference" => owner # "item"
    /\ type = "deliverable" => owner = "item"

-----------------------------------------------------------------------------
(***************************************************************************)
(* Requests with a file, and without.                                      *)
(***************************************************************************)
\* uploadDocumentAttachment(): the object is stored before anything is locked.
Begins(c, save, withFile) ==
    /\ saving[c] = NoSave
    /\ IF withFile
       THEN /\ uploads < MaxFiles
            /\ uploads' = uploads + 1 /\ stored' = stored \cup {uploads + 1}
            /\ saving' = [saving EXCEPT ![c] = [save EXCEPT !.file = uploads + 1]]
       ELSE saving' = [saving EXCEPT ![c] = save] /\ UNCHANGED <<uploads, stored>>
    /\ UNCHANGED <<document, attachment, evidence, workplace, unsure, leftover>>

BeginCreate(c, type, owner, withFile) ==
    /\ withFile \/ type = "deliverable"
    /\ Begins(c, [NoSave EXCEPT !.phase = "create", !.type = type, !.owner = owner], withFile)

\* The type is what the update makes of it.
BeginUpdate(c, d, type, withFile) ==
    /\ d \in DOMAIN document /\ ~document[d].deleted
    /\ Begins(c, [NoSave EXCEPT !.phase = "update", !.at = d, !.type = type], withFile)

BeginStarter(c, d) ==
    /\ d \in DOMAIN document /\ document[d].type = "deliverable"
    /\ \E a \in ActiveOf(d) :
          /\ ~attachment[a].deleted
          /\ Begins(c, [NoSave EXCEPT !.phase = "starter", !.at = d, !.source = a], FALSE)

File(d, object, source) == [of |-> d, object |-> object, source |-> source, active |-> TRUE, deleted |-> FALSE]

NewDocument(type, owner) == [type |-> type, owner |-> owner, deleted |-> FALSE, revisions |-> 0]

\* The rows after a document with a file, or without, was added.
Added(type, owner, object, source) ==
    /\ Len(document) < MaxDocuments
    /\ document' = Append(document, NewDocument(type, owner))
    /\ attachment' = IF object = 0 THEN attachment
                     ELSE Append(attachment, File(Len(document) + 1, object, source))

SaveCreate(r) ==
    /\ r.phase = "create"
    /\ MayWrite(r.owner) /\ ValidScope(r.type, r.owner)
    /\ r.file # 0 => UploadIsOpen(r.owner)
    /\ Added(r.type, r.owner, r.file, 0)

Retired(d) == [a \in DOMAIN attachment |->
                 IF a \in AttachmentsOf(d) THEN [attachment[a] EXCEPT !.active = FALSE] ELSE attachment[a]]

\* The row is read again; the definition before is kept as a revision.
SaveUpdate(r) ==
    LET d == document[r.at] IN
    /\ r.phase = "update" /\ d.revisions < MaxRevisions
    /\ MayWrite(d.owner)
    /\ r.file # 0 => UploadIsOpen(d.owner)
    /\ ~d.deleted /\ ValidScope(r.type, d.owner)
    /\ document' = [document EXCEPT ![r.at].type = r.type, ![r.at].revisions = @ + 1]
    /\ attachment' = IF r.file = 0 THEN attachment ELSE Append(Retired(r.at), File(r.at, r.file, 0))

\* createStarterFromDeliverable(): the new row names the same object.
SaveStarter(r) ==
    /\ r.phase = "starter"
    /\ ~document[r.at].deleted /\ ~attachment[r.source].deleted
    /\ Added("starter", "other task", attachment[r.source].object, r.source)

Saves(c) == SaveCreate(saving[c]) \/ SaveUpdate(saving[c]) \/ SaveStarter(saving[c])

Commit(c) ==
    /\ Saves(c)
    /\ saving' = [saving EXCEPT ![c] = NoSave]
    /\ UNCHANGED <<stored, uploads, evidence, workplace, unsure, leftover>>

\* The handler takes a lost answer to its commit for a failure.
CommitUnanswered(c) ==
    /\ saving[c].file # 0 /\ Saves(c)
    /\ saving' = [saving EXCEPT ![c] = NoSave]
    /\ stored' = stored \ {saving[c].file}
    /\ unsure' = unsure \cup {saving[c].file}
    /\ UNCHANGED <<uploads, evidence, workplace, leftover>>

\* The transaction is refused or fails, and the object is deleted.
Undone(c) ==
    /\ saving[c] # NoSave
    /\ saving' = [saving EXCEPT ![c] = NoSave]
    /\ stored' = stored \ {saving[c].file}
    /\ UNCHANGED <<document, attachment, uploads, evidence, workplace, unsure, leftover>>

\* The store does not answer, or the server stops.
NotUndone(c) ==
    /\ saving[c].file # 0
    /\ saving' = [saving EXCEPT ![c] = NoSave]
    /\ leftover' = leftover \cup {saving[c].file}
    /\ UNCHANGED <<document, attachment, stored, uploads, evidence, workplace, unsure>>

-----------------------------------------------------------------------------
(***************************************************************************)
(* Requests that are one transaction.                                      *)
(***************************************************************************)
\* Mutant of the next: what is deleted is removed from the store.
StoredWithout_Removed(as) == stored \ {attachment[a].object : a \in as}

\* Deleted files stay in the store.
StoredWithout(as) == stored

Tombstones(as) ==
    /\ attachment' = [a \in DOMAIN attachment |->
           IF a \in as THEN [attachment[a] EXCEPT !.deleted = TRUE, !.active = FALSE] ELSE attachment[a]]
    /\ stored' = StoredWithout(as)
    /\ UNCHANGED <<uploads, saving, evidence, workplace, unsure, leftover>>

DeleteDocument(d) ==
    /\ d \in DOMAIN document /\ MayWrite(document[d].owner)
    /\ document' = [document EXCEPT ![d].deleted = TRUE]
    /\ Tombstones(AttachmentsOf(d))

DeleteAttachment(a) ==
    /\ a \in DOMAIN attachment /\ MayWrite(document[attachment[a].of].owner)
    /\ Tombstones({a}) /\ UNCHANGED document

\* resolveSources() and createDocuments() of a package: active files only.
PackageStarter(a) ==
    /\ a \in DOMAIN attachment /\ attachment[a].active /\ ~attachment[a].deleted
    /\ ~document[attachment[a].of].deleted /\ document[attachment[a].of].type = "deliverable"
    /\ Added("starter", "other task", attachment[a].object, a)
    /\ UNCHANGED <<stored, uploads, saving, evidence, workplace, unsure, leftover>>

\* execute() attaches the deliverables of the item to a submission.  Bound: one
\* submission has files.
SubmitEvidence ==
    /\ workplace = "open" /\ evidence = {}
    /\ evidence' =
           {[file |-> a, of |-> attachment[a].of, object |-> attachment[a].object] :
              a \in {x \in DOMAIN attachment :
                       LET d == document[attachment[x].of] IN
                       attachment[x].active /\ ~attachment[x].deleted /\ ~d.deleted /\ d.owner = "item"
                         /\ d.type = "deliverable"}}
    /\ evidence' # evidence
    /\ UNCHANGED <<document, attachment, stored, uploads, saving, workplace, unsure, leftover>>

\* The work goes on: ChecklistWorkflow and TaskHierarchy.
CloseWork(to) ==
    /\ workplace = "open" /\ workplace' = to
    /\ UNCHANGED <<document, attachment, stored, uploads, saving, evidence, unsure, leftover>>

DocumentsInit ==
    /\ document = <<>> /\ attachment = <<>> /\ evidence = {}
    /\ stored = {} /\ uploads = 0 /\ unsure = {} /\ leftover = {}
    /\ saving = [c \in Savers |-> NoSave]
    /\ workplace = "open"

SaverNext(c) ==
    \/ \E type \in Types, owner \in {"task", "item"}, withFile \in BOOLEAN :
          BeginCreate(c, type, owner, withFile)
    \/ \E d \in DOMAIN document, type \in Types, withFile \in BOOLEAN : BeginUpdate(c, d, type, withFile)
    \/ \E d \in DOMAIN document : BeginStarter(c, d)
    \/ Commit(c) \/ CommitUnanswered(c) \/ Undone(c) \/ NotUndone(c)

DocumentsNext ==
    \/ \E c \in Savers : SaverNext(c)
    \/ \E d \in DOMAIN document : DeleteDocument(d)
    \/ \E a \in DOMAIN attachment : DeleteAttachment(a) \/ PackageStarter(a)
    \/ SubmitEvidence
    \/ \E to \in Closings : CloseWork(to)

DocumentsSpec == DocumentsInit /\ [][DocumentsNext]_documentVars

-----------------------------------------------------------------------------
DocumentsTypeOK ==
    /\ \A d \in DOMAIN document : document[d].type \in Types /\ document[d].owner \in Owners
    /\ \A a \in DOMAIN attachment : attachment[a].of \in DOMAIN document
    /\ stored \subseteq 1 .. uploads
    /\ workplace \in {"open"} \cup Closings

(***************************************************************************)
(* A document has one current file at most, which is not deleted and not   *)
(* of a deleted document; what was replaced left a revision.               *)
(***************************************************************************)
OneCurrentFile ==
    \A d \in DOMAIN document :
        /\ Cardinality(ActiveOf(d)) <= 1
        /\ Cardinality(AttachmentsOf(d)) <= 1 + document[d].revisions
        /\ \A a \in ActiveOf(d) : ~attachment[a].deleted /\ ~document[d].deleted

(***************************************************************************)
(* "A shared blob remains retained for other valid references"             *)
(* (docs/task-checklist-workflow-api-and-rollout.md:71): the object of     *)
(* each file and of each evidence is stored, whoever else used it, unless  *)
(* the answer to a commit was lost.                                        *)
(***************************************************************************)
FilesAreStored ==
    /\ \A a \in DOMAIN attachment : attachment[a].object \in stored \cup unsure
    /\ \A e \in evidence : attachment[e.file].of = e.of /\ attachment[e.file].object = e.object

\* No object is stored for nothing, except what could not be cleaned up.
NothingIsLeft ==
    stored \subseteq {attachment[a].object : a \in DOMAIN attachment}
                        \cup {saving[c].file : c \in Savers} \cup leftover

\* "Reference documents belong to the task; deliverables require an owning
\* checklist" (:62), whatever updates did to their types.
ScopesAreValid ==
    \A d \in DOMAIN document : ValidScope(document[d].type, document[d].owner)

\* All of these hold of a task's documents.
DocumentsAreKept == OneCurrentFile /\ FilesAreStored /\ NothingIsLeft /\ ScopesAreValid
=============================================================================
