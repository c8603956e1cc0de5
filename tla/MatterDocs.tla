----------------------------- MODULE MatterDocs -----------------------------
(***************************************************************************)
(* The private documents of a matter: LegalMemoryStore's operations on     *)
(* matters, matter_documents, matter_document_versions, matter_facts,      *)
(* matter_folders and document_edits, called by concurrent requests.       *)
(*                                                                         *)
(* Every request opens its own SQLite connection (WAL).  Python's sqlite3  *)
(* runs a SELECT issued before the first INSERT/UPDATE/DELETE in           *)
(* autocommit, and that first statement takes the write lock until         *)
(* commit() or close().  So each read that precedes the first write is a   *)
(* step of its own, which sees the committed state, and everything from    *)
(* the first write to commit() is one atomic step.  A crash, or a "database*)
(* is locked" error, loses the request and the writes it has not committed.*)
(***************************************************************************)
EXTENDS Naturals, Sequences

CONSTANTS
  Matters,      \* matter ids
  Docs,         \* document ids: a hash of the matter, the title and the text
  MatterOf,     \* the matter a document id is derived from
  Original,     \* the text a document id is derived from
  Folders,      \* folder ids
  FolderMatter, \* the matter a folder id is derived from
  Edits,        \* ids of proposed revisions
  Texts,        \* document texts, abstracted
  Conns,        \* requests that may be in flight at once
  Nil,          \* "no folder", "no document", "argument not given"
  MaxVersions,  \* bound: nothing that adds a version starts on a document with
                \* this many (requests already started may still add theirs)
  DeleteRaces,  \* whether a matter may be deleted under a request in flight
  MayCrash      \* whether requests are lost half way

ASSUME IdsAssumption ==
  /\ MatterOf \in [Docs -> Matters]
  /\ Original \in [Docs -> Texts]
  /\ FolderMatter \in [Folders -> Matters]
  /\ Nil \notin Texts \cup Folders \cup Edits \cup Docs
ASSUME BoundAssumption ==
  /\ MaxVersions \in Nat
  /\ DeleteRaces \in BOOLEAN
  /\ MayCrash \in BOOLEAN

VARIABLES
  matters,   \* rows of matters
  folders,   \* rows of matter_folders
  content,   \* matter_documents.content, Nil when there is no row
  folder,    \* matter_documents.folder_id
  versions,  \* matter_document_versions, in version_number order
  facts,     \* the text the rows of matter_facts were extracted from
  edits,     \* document_edits: the document, the revised text and the status
  pc,        \* how far the request of a connection has come
  arg,       \* its arguments
  row,       \* the document row it has read
  snap       \* the snapshot it is about to insert: its number and content

db == <<matters, folders, content, folder, versions, facts, edits>>
req == <<pc, arg, row, snap>>
vars == <<matters, folders, content, folder, versions, facts, edits, pc, arg, row, snap>>

FolderVal == Folders \cup {Nil}
TextVal == Texts \cup {Nil}
Version == [content : Texts, folder : FolderVal, edit : Edits \cup {Nil}]
EditRow == [doc : Docs, revised : Texts, status : {"proposed", "applied"}]
NoEdit == [doc |-> Nil, revised |-> Nil, status |-> "absent"]

\* "keep" is the argument None: the folder stays as it was read.
Arguments == [doc : Docs \cup {Nil}, edit : Edits \cup {Nil},
              text : TextVal, folder : FolderVal \cup {"keep"}]
NoArg == [doc |-> Nil, edit |-> Nil, text |-> Nil, folder |-> "keep"]
NoRow == [text |-> Nil, folder |-> Nil]
NoSnap == [number |-> 0, text |-> Nil, folder |-> Nil]

Exists(d) == content[d] # Nil
DocsOf(m) == {d \in Docs : MatterOf[d] = m}
\* Mutant: the folder check forgets whose folder it is.
FolderOfAnyMatter(f, d) == f = Nil \/ f \in folders
\* folder is None or folder["matter_id"] != row["matter_id"]
FolderFits(f, d) == f = Nil \/ (f \in folders /\ FolderMatter[f] = MatterOf[d])

(***************************************************************************)
(* Documents may exist before the version table does: they have the text   *)
(* they were ingested with, its facts, and no versions.                    *)
(***************************************************************************)
Init ==
  /\ matters \in SUBSET Matters
  /\ folders = {}
  /\ \E legacy \in SUBSET {d \in Docs : MatterOf[d] \in matters} :
       /\ content = [d \in Docs |-> IF d \in legacy THEN Original[d] ELSE Nil]
       /\ facts = content
  /\ folder = [d \in Docs |-> Nil]
  /\ versions = [d \in Docs |-> << >>]
  /\ edits = [e \in Edits |-> NoEdit]
  /\ pc = [c \in Conns |-> "idle"]
  /\ arg = [c \in Conns |-> NoArg]
  /\ row = [c \in Conns |-> NoRow]
  /\ snap = [c \in Conns |-> NoSnap]

-----------------------------------------------------------------------------
(* Operations that are a single transaction.                               *)

CreateMatter(m) ==
  /\ matters' = matters \cup {m}
  /\ UNCHANGED <<folders, content, folder, versions, facts, edits, req>>

\* The foreign keys cascade to folders, documents, versions, facts and edits.
DeleteMatter(m) ==
  /\ m \in matters
  /\ DeleteRaces \/ \A c \in Conns : arg[c].doc \notin DocsOf(m)
  /\ matters' = matters \ {m}
  /\ folders' = {f \in folders : FolderMatter[f] # m}
  /\ content' = [d \in Docs |-> IF MatterOf[d] = m THEN Nil ELSE content[d]]
  /\ folder' = [d \in Docs |-> IF MatterOf[d] = m THEN Nil ELSE folder[d]]
  /\ versions' = [d \in Docs |-> IF MatterOf[d] = m THEN << >> ELSE versions[d]]
  /\ facts' = [d \in Docs |-> IF MatterOf[d] = m THEN Nil ELSE facts[d]]
  /\ edits' = [e \in Edits |-> IF edits[e].doc \in DocsOf(m) THEN NoEdit ELSE edits[e]]
  /\ UNCHANGED req

CreateFolder(f) ==
  /\ FolderMatter[f] \in matters
  /\ f \notin folders
  /\ folders' = folders \cup {f}
  /\ UNCHANGED <<matters, content, folder, versions, facts, edits, req>>

\* Mutants: versions in the wrong order, only the newest kept, only edits kept.
AddVersionFirst(vs, t, f, e) == <<[content |-> t, folder |-> f, edit |-> e]>> \o vs
AddVersionOnly(vs, t, f, e) == <<[content |-> t, folder |-> f, edit |-> e]>>
AddVersionOfEdit(vs, t, f, e) ==
  IF e = Nil THEN vs ELSE Append(vs, [content |-> t, folder |-> f, edit |-> e])

\* create_matter_document_version: the row as it is now becomes MAX + 1.
AddVersion(vs, t, f, e) == Append(vs, [content |-> t, folder |-> f, edit |-> e])

\* Mutant: the facts of the text that is overwritten stay.
IngestKeepingFacts(d) ==
  /\ MatterOf[d] \in matters
  /\ Len(versions[d]) < MaxVersions
  /\ content' = [content EXCEPT ![d] = Original[d]]
  /\ folder' = [folder EXCEPT ![d] = Nil]
  /\ versions' = [versions EXCEPT ![d] = AddVersion(@, Original[d], Nil, Nil)]
  /\ facts' = IF Exists(d) THEN facts ELSE [facts EXCEPT ![d] = Original[d]]
  /\ UNCHANGED <<matters, folders, edits, req>>

\* Ingesting the same file again finds the same id: the row is overwritten
\* with the original text and, no folder being in the metadata, leaves its folder.
Ingest(d) ==
  /\ MatterOf[d] \in matters
  /\ Len(versions[d]) < MaxVersions
  /\ content' = [content EXCEPT ![d] = Original[d]]
  /\ folder' = [folder EXCEPT ![d] = Nil]
  /\ facts' = [facts EXCEPT ![d] = Original[d]]
  /\ versions' = [versions EXCEPT ![d] = AddVersion(@, Original[d], Nil, Nil)]
  /\ UNCHANGED <<matters, folders, edits, req>>

\* The edit id hashes the text and the time: it is fresh.
CreateEdit(e, d, t) ==
  /\ Exists(d)
  /\ edits[e] = NoEdit
  /\ \A c \in Conns : arg[c].edit # e
  /\ edits' = [edits EXCEPT ![e] = [doc |-> d, revised |-> t, status |-> "proposed"]]
  /\ UNCHANGED <<matters, folders, content, folder, versions, facts, req>>

-----------------------------------------------------------------------------
(* update_matter_document, and the operations that call it.                *)

Begin(c, p, a) ==
  /\ pc[c] = "idle"
  /\ pc' = [pc EXCEPT ![c] = p]
  /\ arg' = [arg EXCEPT ![c] = a]
  /\ UNCHANGED <<row, snap, db>>

Goto(c, p) ==
  /\ pc' = [pc EXCEPT ![c] = p]
  /\ UNCHANGED <<arg, row, snap>>

Forget(c) ==
  /\ row' = [row EXCEPT ![c] = NoRow]
  /\ snap' = [snap EXCEPT ![c] = NoSnap]

Finish(c) ==
  /\ pc' = [pc EXCEPT ![c] = "idle"]
  /\ arg' = [arg EXCEPT ![c] = NoArg]
  /\ Forget(c)

\* PATCH /api/matter-documents/<id>, and the OCR route: an argument that is
\* not given keeps the value the row had when it was read.
StartUpdate(c, d, t, f) ==
  /\ Len(versions[d]) < MaxVersions
  /\ Begin(c, "row", [doc |-> d, edit |-> Nil, text |-> t, folder |-> f])

\* restore_matter_document_version reads the version, then updates from it.
StartRestore(c, d, i) ==
  /\ i \in 1..Len(versions[d])
  /\ Len(versions[d]) < MaxVersions
  /\ Begin(c, "row", [doc |-> d, edit |-> Nil, text |-> versions[d][i].content,
                      folder |-> versions[d][i].folder])

\* Mutant: an edit that is applied is applied again.
StartApplyAgain(c, e) ==
  /\ edits[e] # NoEdit
  /\ Len(versions[edits[e].doc]) < MaxVersions
  /\ Begin(c, "row", [doc |-> edits[e].doc, edit |-> e, text |-> edits[e].revised,
                      folder |-> "keep"])

\* apply_document_edit returns at once when the edit it reads is applied.
StartApply(c, e) ==
  /\ edits[e].status = "proposed"
  /\ Len(versions[edits[e].doc]) < MaxVersions
  /\ Begin(c, "row", [doc |-> edits[e].doc, edit |-> e, text |-> edits[e].revised,
                      folder |-> "keep"])

\* UPDATE document_edits SET status = 'applied' WHERE id = e
Marked(e) == IF edits[e] = NoEdit THEN edits ELSE [edits EXCEPT ![e].status = "applied"]

\* Mutant: nothing follows.
NeverMarked(c) == Finish(c)

\* What follows update_matter_document in its caller: apply_document_edit
\* marks the edit whatever the update returned, the others answer.
AfterUpdate(c) ==
  IF arg[c].edit # Nil
    THEN pc' = [pc EXCEPT ![c] = "mark"] /\ UNCHANGED arg /\ Forget(c)
    ELSE Finish(c)

ReadRow(c) ==
  LET d == arg[c].doc IN
  /\ pc[c] = "row"
  /\ \/ /\ Exists(d)
        /\ pc' = [pc EXCEPT ![c] = "list"]
        /\ row' = [row EXCEPT ![c] = [text |-> content[d], folder |-> folder[d]]]
        /\ UNCHANGED <<arg, snap>>
     \/ /\ ~Exists(d)
        /\ AfterUpdate(c)
  /\ UNCHANGED db

\* Mutant: a text that changed since the row was read is kept.
NewerTextKept(c) ==
  IF arg[c].text = Nil \/ content[arg[c].doc] # row[c].text
    THEN content[arg[c].doc] ELSE arg[c].text

WantedText(c) == IF arg[c].text = Nil THEN row[c].text ELSE arg[c].text
WantedFolder(c) == IF arg[c].folder = "keep" THEN row[c].folder ELSE arg[c].folder

\* A folder that is not one of the matter's ends the update with an error.
CheckFolder(c) ==
  IF FolderFits(WantedFolder(c), arg[c].doc) THEN Goto(c, "write") ELSE AfterUpdate(c)

\* With versions on record nothing is written before the folder check.
ListVersions(c) ==
  /\ pc[c] = "list"
  /\ IF versions[arg[c].doc] = << >> THEN Goto(c, "snapshot") ELSE CheckFolder(c)
  /\ UNCHANGED db

\* create_matter_document_version for a document without versions: it reads the
\* row, and in a second read MAX(version_number), before its INSERT opens the
\* transaction; no row, no snapshot, and the folder check is a read too.
ReadForSnapshot(c) ==
  LET d == arg[c].doc IN
  /\ pc[c] = "snapshot"
  /\ \/ /\ Exists(d)
        /\ pc' = [pc EXCEPT ![c] = "number"]
        /\ snap' = [snap EXCEPT ![c] = [number |-> 0, text |-> content[d],
                                        folder |-> folder[d]]]
        /\ UNCHANGED <<arg, row>>
     \/ /\ ~Exists(d)
        /\ CheckFolder(c)
  /\ UNCHANGED db

\* Another writer may commit between the two reads: the number is then that of
\* a newer version than the text.
ReadNumber(c) ==
  /\ pc[c] = "number"
  /\ pc' = [pc EXCEPT ![c] = "write"]
  /\ snap' = [snap EXCEPT ![c].number = Len(versions[arg[c].doc]) + 1]
  /\ UNCHANGED <<arg, row, db>>

Snapping(c) == snap[c] # NoSnap
SnapshotFits(c) ==
  Snapping(c) => Exists(arg[c].doc) /\ snap[c].number = Len(versions[arg[c].doc]) + 1
\* Mutant: the text of a document without versions is not recorded.
SnapshotForgotten(c) == versions[arg[c].doc]

Snapshotted(c) ==
  IF Snapping(c) THEN AddVersion(versions[arg[c].doc], snap[c].text, snap[c].folder, Nil)
                 ELSE versions[arg[c].doc]

\* The number chosen for the snapshot is taken, or its document is gone: the
\* INSERT raises and the request is lost.
SnapshotFails(c) ==
  /\ pc[c] = "write"
  /\ ~SnapshotFits(c)
  /\ Finish(c)
  /\ UNCHANGED db

\* The row vanished after it was read: nothing is updated (inserting the facts
\* of a changed text would raise, which leaves the tables just the same).
WriteNothing(c) ==
  /\ pc[c] = "write"
  /\ ~Snapping(c)
  /\ ~Exists(arg[c].doc)
  /\ AfterUpdate(c)
  /\ UNCHANGED db

\* The folder check of a request that has inserted its snapshot fails inside
\* the transaction: apply_document_edit goes on, marks the edit and commits the
\* snapshot with it, the other callers close the connection.
WriteRefused(c) ==
  /\ pc[c] = "write"
  /\ Snapping(c)
  /\ SnapshotFits(c)
  /\ ~FolderFits(WantedFolder(c), arg[c].doc)
  /\ Finish(c)
  /\ \/ /\ arg[c].edit = Nil
        /\ UNCHANGED <<versions, edits>>
     \/ /\ arg[c].edit # Nil
        /\ versions' = [versions EXCEPT ![arg[c].doc] = Snapshotted(c)]
        /\ edits' = Marked(arg[c].edit)
  /\ UNCHANGED <<matters, folders, content, folder, facts>>

\* Every column is written, from the arguments or from the row as it was
\* read; the facts only when the text differs from the text as it was read.
WriteRow(c) ==
  LET d == arg[c].doc
      t == WantedText(c)
      f == WantedFolder(c)
  IN
  /\ pc[c] = "write"
  /\ Exists(d)
  /\ SnapshotFits(c)
  /\ Snapping(c) => FolderFits(f, d)
  /\ content' = [content EXCEPT ![d] = t]
  /\ folder' = [folder EXCEPT ![d] = f]
  /\ facts' = IF t # row[c].text THEN [facts EXCEPT ![d] = t] ELSE facts
  /\ versions' = [versions EXCEPT ![d] = AddVersion(Snapshotted(c), t, f, arg[c].edit)]
  /\ AfterUpdate(c)
  /\ UNCHANGED <<matters, folders, edits>>

\* The second transaction of apply_document_edit; no row, no update.
MarkApplied(c) ==
  /\ pc[c] = "mark"
  /\ edits' = Marked(arg[c].edit)
  /\ Finish(c)
  /\ UNCHANGED <<matters, folders, content, folder, versions, facts>>

-----------------------------------------------------------------------------
(* assign_matter_document_folder: a move, which makes no version.          *)

StartAssign(c, d, f) ==
  /\ Exists(d)
  /\ FolderFits(f, d)
  /\ Begin(c, "assign", [doc |-> d, edit |-> Nil, text |-> Nil, folder |-> f])

\* Mutant: the move does not mind that the row is gone.
WriteAssignAnyway(c) ==
  /\ pc[c] = "assign"
  /\ folder' = [folder EXCEPT ![arg[c].doc] = arg[c].folder]
  /\ Finish(c)
  /\ UNCHANGED <<matters, folders, content, versions, facts, edits>>

WriteAssign(c) ==
  LET d == arg[c].doc IN
  /\ pc[c] = "assign"
  /\ folder' = IF Exists(d) THEN [folder EXCEPT ![d] = arg[c].folder] ELSE folder
  /\ Finish(c)
  /\ UNCHANGED <<matters, folders, content, versions, facts, edits>>

\* The process dies, or the write lock is not granted within busy_timeout.
Crash(c) ==
  /\ MayCrash
  /\ pc[c] # "idle"
  /\ Finish(c)
  /\ UNCHANGED db

-----------------------------------------------------------------------------
Start(c) ==
  \/ \E d \in Docs, t \in TextVal, f \in FolderVal \cup {"keep"} : StartUpdate(c, d, t, f)
  \/ \E d \in Docs : \E i \in 1..Len(versions[d]) : StartRestore(c, d, i)
  \/ \E e \in Edits : StartApply(c, e)
  \/ \E d \in Docs, f \in FolderVal : StartAssign(c, d, f)

Step(c) ==
  \/ ReadRow(c) \/ ListVersions(c) \/ ReadForSnapshot(c) \/ ReadNumber(c)
  \/ SnapshotFails(c) \/ WriteNothing(c) \/ WriteRefused(c) \/ WriteRow(c)
  \/ MarkApplied(c) \/ WriteAssign(c)

Atomic ==
  \/ \E m \in Matters : CreateMatter(m) \/ DeleteMatter(m)
  \/ \E f \in Folders : CreateFolder(f)
  \/ \E d \in Docs : Ingest(d)
  \/ \E e \in Edits, d \in Docs, t \in Texts : CreateEdit(e, d, t)

Next == Atomic \/ \E c \in Conns : Start(c) \/ Step(c) \/ Crash(c)

Spec == Init /\ [][Next]_vars

(***************************************************************************)
(* One local user in one window: a request runs to its end before the next *)
(* one starts, and none is lost.  Each running request keeps being         *)
(* scheduled: handlers are synchronous code with no wait but the database. *)
(***************************************************************************)
Alone == \A c \in Conns : pc[c] = "idle"

SerialNext ==
  \/ Alone /\ (Atomic \/ \E c \in Conns : Start(c))
  \/ \E c \in Conns : Step(c)

SerialSpec == Init /\ [][SerialNext]_vars /\ \A c \in Conns : WF_vars(Step(c))

-----------------------------------------------------------------------------
(* Properties.                                                             *)

\* Every table holds rows of its own shape, and a request only what it read.
TypeOK ==
  /\ matters \in SUBSET Matters
  /\ folders \in SUBSET Folders
  /\ content \in [Docs -> TextVal]
  /\ folder \in [Docs -> FolderVal]
  /\ versions \in [Docs -> Seq(Version)]
  /\ facts \in [Docs -> TextVal]
  /\ edits \in [Edits -> EditRow \cup {NoEdit}]
  /\ pc \in [Conns -> {"idle", "row", "list", "snapshot", "number", "write", "mark", "assign"}]
  /\ arg \in [Conns -> Arguments]
  /\ row \in [Conns -> [text : TextVal, folder : FolderVal]]
  /\ snap \in [Conns -> [number : Nat, text : TextVal, folder : FolderVal]]

\* The text of a document is the text of its newest version, whatever stale row
\* a concurrent update wrote back: update and version are one transaction.
LastVersionIsText ==
  \A d \in Docs : Exists(d) /\ versions[d] # << >> =>
    versions[d][Len(versions[d])].content = content[d]

\* A text is on record in the history of its document.
OnRecord(d, t) == \E i \in 1..Len(versions[d]) : versions[d][i].content = t

\* Facts are never those of a text the document did not have, even when an
\* update that compared with a stale text has left facts of an older one.
FactsOnRecord ==
  \A d \in Docs : Exists(d) => facts[d] = content[d] \/ OnRecord(d, facts[d])

\* No interleaving of moves, restores, updates and matter deletions files a
\* document under a folder of another matter.
NoForeignFolder ==
  \A d \in Docs : folder[d] # Nil => FolderMatter[folder[d]] = MatterOf[d]

\* Rows of a deleted matter are gone from every table, and no request still in
\* flight brings one back.
NoOrphans ==
  /\ \A d \in Docs : Exists(d) => MatterOf[d] \in matters
  /\ \A d \in Docs : ~Exists(d) => versions[d] = << >> /\ facts[d] = Nil /\ folder[d] = Nil
  /\ \A f \in folders : FolderMatter[f] \in matters
  /\ \A e \in Edits : edits[e] # NoEdit => Exists(edits[e].doc)

\* An edit shown as applied was written: some version of its document carries
\* it, with the revised text.
AppliedWasWritten ==
  \A e \in Edits : edits[e].status = "applied" =>
    LET vs == versions[edits[e].doc] IN
    \E i \in 1..Len(vs) : vs[i].edit = e /\ vs[i].content = edits[e].revised

\* Each document is a text whose replaced texts stay on record: VersionedText.
History(d) == INSTANCE VersionedText WITH
  Gone <- Nil,
  text <- content[d],
  log  <- [i \in 1..Len(versions[d]) |-> versions[d][i].content]
\* This is \A d \in Docs : History(d)!Spec with the quantifier inside the box.
ImplementsHistory ==
  /\ \A d \in Docs : History(d)!Init
  /\ [][\A d \in Docs : History(d)!Next \/ UNCHANGED <<content[d], versions[d]>>]_vars

\* While a document exists its history is append-only, and it grows whenever
\* the text changes: an update that wrote over newer text lost nothing.
HistoryKept ==
  [][\A d \in Docs : Exists(d) /\ Exists(d)' =>
       /\ Len(versions[d]) <= Len(versions'[d])
       /\ \A i \in 1..Len(versions[d]) : versions'[d][i] = versions[d][i]
       /\ content'[d] # content[d] => \E i \in 1..Len(versions'[d]) :
                                         versions'[d][i].content = content[d]]_vars

\* When requests do not overlap: the facts are those of the current text,
FactsMatchText == \A d \in Docs : facts[d] = content[d]

\* an edit is written once, and only an edit being applied is written and not
\* yet marked,
WrittenBy(e) == {i \in 1..Len(versions[edits[e].doc]) : versions[edits[e].doc][i].edit = e}
AppliedOnce ==
  \A e \in Edits : edits[e] # NoEdit =>
    /\ \A i, j \in WrittenBy(e) : i = j
    /\ WrittenBy(e) # {} /\ edits[e].status = "proposed" =>
         \E c \in Conns : arg[c].edit = e /\ pc[c] = "mark"

\* and an edit that a request sets out to apply ends up applied.
ApplyCompletes ==
  \A e \in Edits :
    (\E c \in Conns : arg[c].edit = e) ~> edits[e].status = "applied"
=============================================================================
