---------------------------- MODULE MatterFiles ----------------------------
(***************************************************************************)
(* The files Judicex keeps beside its database: the attachments of a       *)
(* matter's documents in <db>_files/matters/<matter>, written before the   *)
(* row that names them and removed after the rows are gone, and the ZIP    *)
(* backup that copies database and files one after the other and is        *)
(* restored over both.                                                     *)
(*                                                                         *)
(* The database is in WAL mode: what is committed is in a log beside the   *)
(* file until a checkpoint, and the last connection that closes makes one. *)
(* A restore copies and replaces the file, removes the log and knows       *)
(* nothing of the connections that are open.                               *)
(*                                                                         *)
(* An upload copies its file unless one of that name exists.  A copy that  *)
(* stops half-way leaves a file that exists all the same.                  *)
(*                                                                         *)
(* A document is identified by its matter, title and text; a file by its   *)
(* matter and the hash of its bytes.  Files holds binaries of one text, so *)
(* that every pair of a title and a file may be uploaded.                  *)
(***************************************************************************)
EXTENDS Naturals, FiniteSets

CONSTANTS
  Matters,  \* ids of matters; a title, client and area give the same id again
  Titles,   \* titles of documents
  Files,    \* binaries
  Reqs,     \* requests under way at once: bound on the server's threads
  None,     \* no file, no request
  MaxStarts, \* bound: requests of these kinds in all
  Gone      \* no such matter

ASSUME NoFileAssumption == None \notin Files
ASSUME NobodyAssumption == None \notin Reqs
ASSUME GoneAssumption == Gone \notin [Titles -> Files \cup {None}]

VARIABLES
  db,      \* what a new connection reads: documents of each matter, or Gone
  main,    \* what the database file holds without its log
  files,   \* paths on the disk
  half,    \* files whose content is incomplete, with the request that writes it
  pc,      \* where a request is
  arg,     \* the matter, title and file of an upload or a deletion
  todo,    \* paths a deletion has still to unlink or a restore to write
  seen,    \* the database as a backup or a restore has copied it
  backup,  \* the last finished backup: database and files
  cut,     \* requests whose connection was open when the file was replaced
  before,  \* what their log, removed by then, leads to
  env,     \* the password is set in the environment
  lost,    \* history: a pre_restore copy lacked something committed
  raced,   \* history: requests on a matter or on the files have overlapped
  upset,   \* history: matters an upload or a deletion was disturbed on, see Upset
  broken,  \* history: a copy of a file was stopped, or archived half-way
  crashed, \* history: the process has stopped before
  started  \* requests so far, up to MaxStarts

vars == <<db, main, files, half, pc, arg, todo, seen, backup, cut, before, env,
          lost, raced, upset, broken, crashed, started>>
disk == <<db, main, files, half>>
locals == <<arg, todo, seen>>
others == <<backup, cut, before, env, lost>>
marks == <<upset, broken, crashed, started>>

Paths == Matters \X Files
Empty == [m \in Matters |-> Gone]
NoDocs == [t \in Titles |-> None]
NoArg == <<None, None, None>>

\* The paths the rows of a database name.
Named(d) == {p \in Paths : d[p[1]] # Gone /\ \E t \in Titles : d[p[1]][t] = p[2]}

\* The files that are incomplete.
Torn == {h[1] : h \in half}

Init ==
  /\ db = Empty /\ main = Empty /\ files = {} /\ half = {}
  /\ pc = [r \in Reqs |-> "idle"]
  /\ arg = [r \in Reqs |-> NoArg]
  /\ todo = [r \in Reqs |-> {}]
  /\ seen = [r \in Reqs |-> Empty]
  /\ backup = [db |-> Empty, files |-> {}, torn |-> {}]
  /\ cut = {} /\ before = Empty
  /\ env \in BOOLEAN
  /\ lost = FALSE /\ raced = FALSE
  /\ upset = {} /\ broken = FALSE /\ crashed = FALSE /\ started = 0

Uploading == {"store", "open", "fill", "add"}
Deleting == {"delete", "unlink"}
Restoring == {"copy", "replace", "files", "write"}
At(where) == {r \in Reqs : pc[r] \in where}
OnMatter(m, where) == {r \in At(where) : arg[r][1] = m}

\* A restore, a backup that archives files and a finished request have no
\* connection to the database.
Connected == At(Uploading \cup Deleting \cup {"backup", "close"})

Goto(r, step) == pc' = [pc EXCEPT ![r] = step]
Begin(r, step) ==
  /\ pc[r] = "idle" /\ started < MaxStarts
  /\ started' = started + 1
  /\ Goto(r, step)
Overlap(with) == raced' = (raced \/ with # {})

\* An upload of m has overlapped with its deletion, has failed or was stopped
\* after it stored its file, or has given a document another binary; or the
\* deletion was stopped, or a restore has replaced all matters.
Upset(ms) == upset' = upset \cup ms

\* The file written at a path before, if any, is not the file of the path now.
Afresh(p) == {h \in half : h[1] # p}

-----------------------------------------------------------------------------
(* Connections: what is committed, and the log a closing connection leaves *)
(* or copies into the file.                                                *)

\* A commit goes to the log.  That of a connection older than the restore
\* goes to a log that has been removed.
Commit(r, new) ==
  /\ db' = IF r \in cut THEN db ELSE new
  /\ main' = main

\* Mutant: nobody closes the connection, and the log is never copied.
CloseForgotten(r) ==
  /\ r \notin cut
  /\ db' = db /\ main' = main

\* The last connection copies the log into the file; the one that was cut off
\* loses its log, or copies it over the restored file.
Close(r) ==
  \/ /\ r \notin cut
     /\ db' = db
     /\ main' = IF Connected \ {r} # {} THEN main ELSE db
  \/ /\ r \in cut
     /\ \E d \in {db, before} : db' = d /\ main' = d

\* The with block of a request ends; a backup goes on without it.
CloseStore(r) ==
  /\ pc[r] \in {"close", "backup"}
  /\ Close(r)
  /\ cut' = cut \ {r}
  /\ before' = IF cut' = {} THEN Empty ELSE before
  /\ Goto(r, IF pc[r] = "backup" THEN "walk" ELSE "idle")
  /\ arg' = [arg EXCEPT ![r] = NoArg]
  /\ UNCHANGED <<files, half, todo, seen, backup, env, lost, raced, marks>>

\* A checkpoint of SQLite's own, or that of a request that only reads and is
\* the last to close.
Checkpoint ==
  /\ main # db /\ cut = {}
  /\ main' = db
  /\ UNCHANGED <<db, files, half, pc, locals, others, raced, marks>>

\* The matter, created or created anew with the same id.
CreateMatter(m) ==
  /\ db[m] = Gone
  /\ db' = [db EXCEPT ![m] = NoDocs]
  /\ main' = IF Connected # {} THEN main ELSE db'
  /\ Overlap(At(Restoring))
  /\ UNCHANGED <<files, half, pc, locals, others, marks>>

-----------------------------------------------------------------------------
(* Upload: the file first, then the row.                                   *)

StartUpload(r, m, t, f) ==
  /\ Begin(r, "store")
  /\ db[m] # Gone
  /\ arg' = [arg EXCEPT ![r] = <<m, t, f>>]
  /\ Overlap(OnMatter(m, Deleting) \cup At(Restoring))
  /\ Upset(IF OnMatter(m, Deleting) = {} THEN {} ELSE {m})
  /\ UNCHANGED <<disk, todo, seen, others, broken, crashed>>

Path(r) == <<arg[r][1], arg[r][3]>>
WithDocument(r) == [db EXCEPT ![arg[r][1]] = [@ EXCEPT ![arg[r][2]] = arg[r][3]]]

\* A file of that name is taken for the file, complete or not.
StoreFile(r) ==
  /\ pc[r] = "store"
  /\ Goto(r, IF Path(r) \in files THEN "add" ELSE "open")
  /\ UNCHANGED <<disk, locals, others, raced, marks>>

\* The copy opens its target, which empties a file stored there since.
OpenCopy(r) ==
  /\ pc[r] = "open"
  /\ files' = files \cup {Path(r)}
  /\ half' = Afresh(Path(r)) \cup {<<Path(r), r>>}
  /\ Goto(r, "fill")
  /\ UNCHANGED <<db, main, locals, others, raced, marks>>

\* The content is written, to a file that may have been unlinked or moved.
FillCopy(r) ==
  /\ pc[r] = "fill"
  /\ half' = half \ {<<Path(r), r>>}
  /\ Goto(r, "add")
  /\ UNCHANGED <<db, main, files, locals, others, raced, marks>>

\* The matter may be gone by now, which is an error or breaks the foreign key:
\* the file stays.  A document ingested again from another binary names that
\* one, and the other stays too.
AddDocument(r) ==
  /\ pc[r] = "add"
  /\ IF db[arg[r][1]] = Gone
     THEN UNCHANGED <<db, main, upset>>
     ELSE /\ Commit(r, WithDocument(r))
          /\ Upset(IF db[arg[r][1]][arg[r][2]] \in {None, arg[r][3]} THEN {} ELSE {arg[r][1]})
  /\ Goto(r, "close")
  /\ UNCHANGED <<files, half, locals, others, raced, broken, crashed, started>>

\* An upload fails: the file cannot be read, the disk is full, or the database
\* is locked for too long.  What it has stored stays.
UploadFails(r) ==
  /\ pc[r] \in Uploading
  /\ half' = {IF h[2] = r THEN <<h[1], None>> ELSE h : h \in half}
  /\ broken' = (broken \/ pc[r] = "fill")
  /\ Upset(IF pc[r] \in {"fill", "add"} THEN {arg[r][1]} ELSE {})
  /\ Goto(r, "close")
  /\ UNCHANGED <<db, main, files, locals, others, raced, crashed, started>>

-----------------------------------------------------------------------------
(* Deletion of a matter: its rows first, then the files they named.        *)

\* The paths are read before the transaction that deletes the rows.
StartDelete(r, m) ==
  /\ Begin(r, "delete")
  /\ db[m] # Gone
  /\ arg' = [arg EXCEPT ![r] = <<m, None, None>>]
  /\ todo' = [todo EXCEPT ![r] = {p \in Named(db) : p[1] = m}]
  /\ Overlap(OnMatter(m, Uploading \cup Deleting) \cup At(Restoring \cup {"backup", "walk"}))
  /\ Upset(IF OnMatter(m, Uploading) = {} THEN {} ELSE {m})
  /\ UNCHANGED <<disk, seen, others, broken, crashed>>

\* Mutant: the rows that name the files are looked up when they are gone.
DeleteRowsBlindly(r) ==
  /\ pc[r] = "delete"
  /\ Commit(r, [db EXCEPT ![arg[r][1]] = Gone])
  /\ todo' = [todo EXCEPT ![r] = {}]
  /\ Goto(r, "unlink")
  /\ UNCHANGED <<files, half, arg, seen, others, raced, marks>>

\* A matter somebody else has deleted meanwhile ends the request.
DeleteRows(r) ==
  /\ pc[r] = "delete"
  /\ IF db[arg[r][1]] = Gone
     THEN Goto(r, "close") /\ UNCHANGED <<db, main>>
     ELSE Goto(r, "unlink") /\ Commit(r, [db EXCEPT ![arg[r][1]] = Gone])
  /\ todo' = IF pc'[r] = "close" THEN [todo EXCEPT ![r] = {}] ELSE todo
  /\ UNCHANGED <<files, half, arg, seen, others, raced, marks>>

Unlink(r) ==
  /\ pc[r] = "unlink"
  /\ \/ /\ \E p \in todo[r] :
             /\ files' = files \ {p} /\ half' = Afresh(p)
             /\ todo' = [todo EXCEPT ![r] = @ \ {p}]
        /\ pc' = pc
     \/ /\ todo[r] = {}
        /\ Goto(r, "close")
        /\ UNCHANGED <<files, half, todo>>
  /\ UNCHANGED <<db, main, arg, seen, others, raced, marks>>

-----------------------------------------------------------------------------
(* Backup and restore.                                                     *)

StartBackup(r) ==
  /\ Begin(r, "backup")
  /\ seen' = [seen EXCEPT ![r] = db]
  /\ Overlap(At(Deleting \cup Restoring))
  /\ UNCHANGED <<disk, arg, todo, others, upset, broken, crashed>>

\* The files are archived after the database has been copied and closed.
WalkFiles(r) ==
  /\ pc[r] = "walk"
  /\ backup' = [db |-> seen[r], files |-> files, torn |-> Torn]
  /\ broken' = (broken \/ At({"fill"}) # {})
  /\ seen' = [seen EXCEPT ![r] = Empty]
  /\ Goto(r, "idle")
  /\ UNCHANGED <<disk, arg, todo, cut, before, env, lost, raced, upset, crashed, started>>

\* The request's password check opens the database and closes it again, which
\* copies a log that a crash has left; but a password set in the environment is
\* checked without the database.
StartRestore(r) ==
  /\ Begin(r, "copy")
  /\ main' = IF env \/ Connected # {} THEN main ELSE db
  /\ Overlap(At(Restoring \cup {"walk"}) \cup Connected)
  /\ UNCHANGED <<db, files, half, locals, others, upset, broken, crashed>>

\* Only the file is copied, not its log.
CopyDatabase(r) ==
  /\ pc[r] = "copy"
  /\ seen' = [seen EXCEPT ![r] = main]
  /\ Goto(r, "replace")
  /\ UNCHANGED <<disk, arg, todo, others, raced, marks>>

\* The log is removed and the file overwritten, whoever has them open.
ReplaceDatabase(r) ==
  /\ pc[r] = "replace"
  /\ db' = backup.db
  /\ main' = backup.db
  /\ lost' = (lost \/ seen[r] # db)
  /\ seen' = [seen EXCEPT ![r] = Empty]
  /\ cut' = Connected
  /\ before' = IF Connected = {} THEN Empty ELSE db
  /\ Upset(Matters)
  /\ Goto(r, "files")
  /\ UNCHANGED <<files, half, arg, todo, backup, env, raced, broken, crashed, started>>

\* Mutant: a file that is on the disk before the move is not written again.
MoveFilesKeepingOld(r) ==
  /\ pc[r] = "files"
  /\ files' = IF backup.files = {} THEN files ELSE {}
  /\ half' = IF backup.files = {} THEN half ELSE {}
  /\ todo' = [todo EXCEPT ![r] = backup.files \ files]
  /\ Goto(r, "write")
  /\ UNCHANGED <<db, main, arg, seen, others, raced, marks>>

\* The files on the disk are moved away, unless the backup holds none.
MoveFiles(r) ==
  /\ pc[r] = "files"
  /\ files' = IF backup.files = {} THEN files ELSE {}
  /\ half' = IF backup.files = {} THEN half ELSE {}
  /\ todo' = [todo EXCEPT ![r] = backup.files]
  /\ Goto(r, "write")
  /\ UNCHANGED <<db, main, arg, seen, others, raced, marks>>

WriteFile(r) ==
  /\ pc[r] = "write"
  /\ \/ /\ \E p \in todo[r] :
             /\ files' = files \cup {p}
             /\ half' = Afresh(p) \cup ({p} \cap backup.torn) \X {None}
             /\ todo' = [todo EXCEPT ![r] = @ \ {p}]
        /\ pc' = pc
     \/ /\ todo[r] = {}
        /\ Goto(r, "idle")
        /\ UNCHANGED <<files, half, todo>>
  /\ UNCHANGED <<db, main, arg, seen, others, raced, marks>>

\* The process stops: what was committed is in the log, what was under way is
\* left as it is.
Crash ==
  /\ At({"idle"}) # Reqs
  /\ pc' = [r \in Reqs |-> "idle"]
  /\ arg' = [r \in Reqs |-> NoArg]
  /\ todo' = [r \in Reqs |-> {}]
  /\ seen' = [r \in Reqs |-> Empty]
  /\ cut' = {} /\ before' = Empty
  /\ half' = Torn \X {None}
  /\ Upset({arg[r][1] : r \in At({"fill", "add", "unlink"})})
  /\ broken' = (broken \/ At({"fill"}) # {})
  /\ crashed' = TRUE
  /\ Overlap(At({"replace", "files", "write"}) \cup cut)
  /\ UNCHANGED <<db, main, files, backup, env, lost, started>>

Next ==
  \/ \E m \in Matters : CreateMatter(m)
  \/ \E r \in Reqs :
       \/ \E m \in Matters, t \in Titles, f \in Files : StartUpload(r, m, t, f)
       \/ StoreFile(r) \/ OpenCopy(r) \/ FillCopy(r) \/ AddDocument(r) \/ UploadFails(r)
       \/ \E m \in Matters : StartDelete(r, m)
       \/ DeleteRows(r) \/ Unlink(r)
       \/ StartBackup(r) \/ WalkFiles(r)
       \/ StartRestore(r) \/ CopyDatabase(r) \/ ReplaceDatabase(r)
       \/ MoveFiles(r) \/ WriteFile(r)
       \/ CloseStore(r)
  \/ Checkpoint
  \/ Crash

Spec == Init /\ [][Next]_vars

-----------------------------------------------------------------------------
(* Properties.                                                             *)

\* The file of a document is on the disk, to be shown, downloaded and backed
\* up, after uploads, deletions, crashes, backups and restores in any order,
\* unless a deletion or a restore has overlapped with another request; and it
\* is complete unless a copy was stopped half-way before, whose file the next
\* upload takes for its own.
RowsHaveFiles ==
  ~raced /\ At({"files", "write"}) = {} =>
    /\ Named(db) \subseteq files
    /\ ~broken /\ At({"fill"}) = {} => Named(db) \cap Torn = {}

\* Paths a request has still to name or to unlink.
Pending ==
  {Path(r) : r \in At({"fill", "add"})} \cup UNION {todo[r] : r \in At({"unlink"})}

\* A file is one that a document names, or that a request is about to name or to
\* unlink: those of a deleted matter are gone, unless an upload or a deletion of
\* the matter was disturbed before.
FilesHaveRows == \A p \in files : p[1] \notin upset => p \in Named(db) \cup Pending

\* "The current database will be copied as pre_restore and then replaced": all
\* that was committed is in the copy, unless the restore has overlapped with
\* another request, whose connection keeps the log from being copied, or the
\* password is in the environment and a crash may have left a log.
PreRestoreIsWhole == lost => raced \/ (env /\ crashed)
=============================================================================
