--------------------------- MODULE WorkspaceRows ---------------------------
(***************************************************************************)
(* The rows of a matter's workspace: matters, folders, annotations,        *)
(* comments, tabular reviews and their views, chats, agent memories,       *)
(* artifacts, templates, settings, and workflow packs with their versions. *)
(*                                                                         *)
(* Every handler that changes one of two fields reads the whole row in one *)
(* statement and writes the whole row in another, with an UPDATE or, for   *)
(* some tables, with the upsert that also creates rows.  Rows of different *)
(* tables meet only where the deletion of a parent cascades, so the module *)
(* follows one row of any one table, fixed at the start, under requests    *)
(* that overlap.                                                           *)
(***************************************************************************)
EXTENDS Naturals, FiniteSetsExt

CONSTANTS
  Tables,      \* the tables whose rows are followed
  Values,      \* what a field may hold
  Reqs,        \* requests under way at once: bound on the server's threads
  None,        \* no row
  MaxVersions  \* bound on the versions of a workflow pack

ASSUME VersionsAssumption == MaxVersions \in Nat

\* For a review, two of its cells; for a pack, its label and requirements.
Fields == {"a", "b"}
Rows == [Fields -> Values]
ASSUME NoneAssumption == None \notin Rows

Keyed == {"folder", "annotation", "comment", "review", "view"}
\* Its id is new for every row, so it is inserted and never replaced.
Inserted == {"annotation", "comment", "review", "chat", "artifact"}
\* A change is written with the upsert.
Upserted == {"matter", "memory", "setting"}

VARIABLES
  table,     \* the table of the row, fixed
  row,       \* the row, or None
  parent,    \* whether the matter, document or review it belongs to exists
  versions,  \* custom_workflow_versions of a pack: pairs of number and row
  pc,        \* where a request is
  arg,       \* the row it will write, or the field and value to change
  got,       \* the row it has read
  number,    \* the version number it has read
  born,      \* history: the row has existed
  want,      \* history: what the completed requests asked for, in their order
  owed,      \* history: rows a pack had, by "save" or "update", in no version
  mixed      \* history: two requests have overlapped

vars == <<table, row, parent, versions, pc, arg, got, number, born, want, owed, mixed>>
locals == <<arg, got, number>>

Init ==
  /\ table \in Tables
  /\ parent = TRUE
  /\ row \in IF table = "setting" THEN Rows ELSE {None}
  /\ want = row
  /\ versions = {} /\ owed = {}
  /\ pc = [r \in Reqs |-> "idle"]
  /\ arg = [r \in Reqs |-> None]
  /\ got = [r \in Reqs |-> None]
  /\ number = [r \in Reqs |-> 0]
  /\ born = FALSE /\ mixed = FALSE

Idle(r) == pc[r] = "idle"
Goto(r, step) == pc' = [pc EXCEPT ![r] = step]
Overlap(r) == mixed' = (mixed \/ \E o \in Reqs \ {r} : ~Idle(o))
\* The request is over and its locals are gone.
End(r) ==
  /\ Goto(r, "idle")
  /\ arg' = [arg EXCEPT ![r] = None]
  /\ got' = [got EXCEPT ![r] = None]
  /\ number' = [number EXCEPT ![r] = 0]

Changed(old, f, v) == [old EXCEPT ![f] = v]
\* What the pack has been and no version holds.
Owe(more) ==
  owed' = {s \in owed \cup more : \A v \in versions' : v[2] # s[1]}
Newest == Max({0} \cup {v[1] : v \in versions})
NextNumber == Newest + 1

-----------------------------------------------------------------------------
(* Rows that are created.                                                  *)

\* A row that needs no parent is written at once, over one of the same id.
CreateAtOnce(r, new) ==
  /\ Idle(r)
  /\ table \in Inserted => ~born
  /\ row' = new /\ want' = new /\ born' = TRUE
  /\ Overlap(r)
  /\ UNCHANGED <<table, parent, versions, pc, locals, owed>>

CreateMatter(r, new) == table = "matter" /\ CreateAtOnce(r, new)
AddMemory(r, new) == table = "memory" /\ CreateAtOnce(r, new)
SaveTemplate(r, new) == table = "template" /\ CreateAtOnce(r, new)
CreateArtifact(r, new) == table = "artifact" /\ CreateAtOnce(r, new)

\* The parent is looked up first.
LookUpParent(r, new) ==
  /\ Idle(r)
  /\ parent
  /\ table \in Inserted => ~born
  /\ Goto(r, "insert")
  /\ arg' = [arg EXCEPT ![r] = new]
  /\ Overlap(r)
  /\ UNCHANGED <<table, row, parent, versions, got, number, born, want, owed>>

CreateFolder(r, new) == table = "folder" /\ LookUpParent(r, new)
AddAnnotation(r, new) == table = "annotation" /\ LookUpParent(r, new)
AddComment(r, new) == table = "comment" /\ LookUpParent(r, new)
CreateReview(r, new) == table = "review" /\ LookUpParent(r, new)
SaveView(r, new) == table = "view" /\ LookUpParent(r, new)
CreateChat(r, new) == table = "chat" /\ LookUpParent(r, new)

\* The foreign key refuses a row whose parent is gone; a chat has none.  A new
\* id that is taken by now is that of another row.
Insert(r) ==
  /\ pc[r] = "insert"
  /\ IF (table \in Keyed /\ ~parent) \/ (table \in Inserted /\ born)
     THEN UNCHANGED <<row, want, born>>
     ELSE row' = arg[r] /\ want' = arg[r] /\ born' = TRUE
  /\ End(r)
  /\ UNCHANGED <<table, parent, versions, owed, mixed>>

-----------------------------------------------------------------------------
(* Rows that are changed.                                                  *)

\* The row is read; none ends the request.  Settings start as defaults.
ReadFor(r, f, v, step) ==
  /\ Idle(r)
  /\ row # None
  /\ Goto(r, step)
  /\ arg' = [arg EXCEPT ![r] = <<f, v>>]
  /\ got' = [got EXCEPT ![r] = row]
  /\ Overlap(r)
  /\ UNCHANGED <<table, row, parent, versions, number, born, want, owed>>

ReadRow(r, f, v) == ReadFor(r, f, v, "write")

PatchMatter(r, f, v) == table = "matter" /\ ReadRow(r, f, v)
PatchMemory(r, f, v) == table = "memory" /\ ReadRow(r, f, v)
PatchFolder(r, f, v) == table = "folder" /\ ReadRow(r, f, v)
PatchAnnotation(r, f, v) == table = "annotation" /\ ReadRow(r, f, v)
PatchComment(r, f, v) == table = "comment" /\ ReadRow(r, f, v)
PatchReview(r, f, v) == table = "review" /\ ReadRow(r, f, v)
\* All rows of the review are read and written for one cell, with its title and
\* columns as they are when it is read again.
EditCell(r, f, v) == table = "review" /\ ReadFor(r, f, v, "again")
PatchChat(r, f, v) == table = "chat" /\ ReadRow(r, f, v)
UpdatePack(r, f, v) == table = "pack" /\ ReadRow(r, f, v)
SaveSettings(r, f, v) == table = "setting" /\ ReadRow(r, f, v)

ReadAgain(r) ==
  /\ pc[r] = "again"
  /\ IF row = None THEN End(r) ELSE Goto(r, "write") /\ UNCHANGED locals
  /\ UNCHANGED <<table, row, parent, versions, born, want, owed, mixed>>

\* Mutant: every change is written with the upsert.
ReplacesAlways(r) == TRUE

\* An UPDATE of a row that is gone changes nothing; an upsert inserts it.
Replaces(r) == row # None \/ table \in Upserted

\* Mutant: an update of a pack takes no snapshot.
SnapshotForgotten(r, new) == versions' = versions

\* The update of a pack and its snapshot are one transaction.
Snapshot(r, new) ==
  versions' = IF table = "pack" /\ row # None
              THEN versions \cup {<<NextNumber, new>>} ELSE versions

\* Mutant: a column that the request leaves out falls back to a default.
NewRowOfDefaults(r) == [f \in Fields |-> arg[r][2]]

NewRow(r) == Changed(got[r], arg[r][1], arg[r][2])

\* All columns are written, the others as they were read.
Write(r) ==
  /\ pc[r] = "write"
  /\ table = "pack" => Newest < MaxVersions
  /\ LET new == NewRow(r) IN
       /\ row' = IF Replaces(r) THEN new ELSE row
       /\ Snapshot(r, new)
       /\ Owe(IF table = "pack" /\ row # None THEN {<<new, "update">>} ELSE {})
  /\ want' = IF want = None THEN None ELSE Changed(want, arg[r][1], arg[r][2])
  /\ End(r)
  /\ UNCHANGED <<table, parent, born, mixed>>

-----------------------------------------------------------------------------
(* Workflow packs: a save, a duplicate of another pack or of a builtin one *)
(* is an upsert of its own, and its snapshot follows in other statements.  *)

SavePack(r, new) ==
  /\ table = "pack"
  /\ Idle(r)
  /\ Newest < MaxVersions
  /\ row' = new /\ want' = new /\ born' = TRUE
  /\ UNCHANGED <<table, parent, versions, locals>>
  /\ Owe({<<new, "save">>})
  /\ Goto(r, "snapshot")
  /\ Overlap(r)

\* The id of a copy comes from its label: it replaces a pack of that id.
DuplicatePack(r, new) == SavePack(r, new)

ReadPack(r) ==
  /\ pc[r] = "snapshot"
  /\ IF row = None
     THEN End(r)
     ELSE /\ Goto(r, "number")
          /\ got' = [got EXCEPT ![r] = row]
          /\ UNCHANGED <<arg, number>>
  /\ UNCHANGED <<table, row, parent, versions, born, want, owed, mixed>>

ReadNumber(r) ==
  /\ pc[r] = "number"
  /\ Newest < MaxVersions
  /\ number' = [number EXCEPT ![r] = NextNumber]
  /\ Goto(r, "version")
  /\ UNCHANGED <<table, row, parent, versions, arg, got, born, want, owed, mixed>>

\* A number that is taken, or a pack that is gone, refuses the version.
InsertVersion(r) ==
  /\ pc[r] = "version"
  /\ IF row = None \/ \E v \in versions : v[1] = number[r]
     THEN UNCHANGED versions
     ELSE versions' = versions \cup {<<number[r], got[r]>>}
  /\ Owe({})
  /\ End(r)
  /\ UNCHANGED <<table, row, parent, born, want, mixed>>

-----------------------------------------------------------------------------
(* Rows that are deleted.                                                  *)

\* Versions go with their pack.
DeleteRow(r) ==
  /\ Idle(r)
  /\ row # None
  /\ row' = None /\ want' = None
  /\ versions' = {} /\ owed' = {}
  /\ Overlap(r)
  /\ UNCHANGED <<table, parent, pc, locals, born>>

DeleteMatter(r) == table = "matter" /\ DeleteRow(r)
DeleteMemory(r) == table = "memory" /\ DeleteRow(r)
DeleteAnnotation(r) == table = "annotation" /\ DeleteRow(r)
DeletePack(r) == table = "pack" /\ DeleteRow(r)
DeleteChat(r) == table = "chat" /\ DeleteRow(r)

\* The matter goes with the rows whose key cascades and with its chats;
\* memories and artifacts stay.
DeleteParent(r) ==
  /\ table \in Keyed \cup {"chat"}
  /\ Idle(r)
  /\ parent
  /\ parent' = FALSE
  /\ row' = None /\ want' = None
  /\ Overlap(r)
  /\ UNCHANGED <<table, versions, owed, pc, locals, born>>

\* The process stops.
Crash ==
  /\ \E r \in Reqs : ~Idle(r)
  /\ pc' = [r \in Reqs |-> "idle"]
  /\ arg' = [r \in Reqs |-> None]
  /\ got' = [r \in Reqs |-> None]
  /\ number' = [r \in Reqs |-> 0]
  /\ mixed' = (mixed \/ \E r \in Reqs : pc[r] \in {"snapshot", "number", "version"})
  /\ UNCHANGED <<table, row, parent, versions, born, want, owed>>

Creation(r) ==
  \E new \in Rows :
    \/ CreateMatter(r, new) \/ AddMemory(r, new) \/ SaveTemplate(r, new)
    \/ CreateArtifact(r, new) \/ CreateFolder(r, new) \/ AddAnnotation(r, new)
    \/ AddComment(r, new) \/ CreateReview(r, new) \/ SaveView(r, new)
    \/ CreateChat(r, new) \/ SavePack(r, new) \/ DuplicatePack(r, new)

Change(r) ==
  \E f \in Fields, v \in Values :
    \/ PatchMatter(r, f, v) \/ PatchMemory(r, f, v) \/ PatchFolder(r, f, v)
    \/ PatchAnnotation(r, f, v) \/ PatchComment(r, f, v)
    \/ PatchReview(r, f, v) \/ EditCell(r, f, v)
    \/ PatchChat(r, f, v) \/ UpdatePack(r, f, v) \/ SaveSettings(r, f, v)

Deletion(r) ==
  \/ DeleteMatter(r) \/ DeleteMemory(r) \/ DeleteAnnotation(r)
  \/ DeletePack(r) \/ DeleteChat(r) \/ DeleteParent(r)

Next ==
  \/ \E r \in Reqs :
       \/ Creation(r) \/ Insert(r)
       \/ Change(r) \/ ReadAgain(r) \/ Write(r)
       \/ ReadPack(r) \/ ReadNumber(r) \/ InsertVersion(r)
       \/ Deletion(r)
  \/ Crash

Spec == Init /\ [][Next]_vars

-----------------------------------------------------------------------------
(* Properties.                                                             *)

\* The row is what the completed requests asked for, one after the other: no
\* change of a cell, a note or a setting is lost, unless two requests overlap,
\* when the later write puts back the columns it has read.
LastEditStands == ~mixed => row = want

\* What was deleted, with its matter or by itself, is not written back by a
\* request that had read it before: only changes of matters, memories and
\* settings do so, which are written with the upsert.
DeletedStaysDeleted == want = None => row = None \/ (mixed /\ table \in Upserted)

Saving == \E r \in Reqs : pc[r] \in {"snapshot", "number", "version"}

\* Every definition a pack has had can be restored from its versions, those a
\* copy has replaced too, and the newest version is the pack.  An update keeps
\* this whatever it overlaps with; a save, whose snapshot is not in its
\* transaction, unless it overlaps or is cut short.
VersionsFollowPack ==
  /\ \A s \in owed : s[2] = "save" /\ (mixed \/ Saving)
  /\ table = "pack" /\ row # None /\ ~mixed /\ ~Saving
       => <<Newest, row>> \in versions
=============================================================================
