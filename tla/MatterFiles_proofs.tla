------------------------- MODULE MatterFiles_proofs -------------------------
(* Theorems about MatterFiles, for any matters, files and requests.        *)
EXTENDS MatterFiles, TLAPS

Steps == {"idle", "store", "open", "fill", "add", "close", "delete", "unlink", "backup", "walk",
          "copy", "replace", "files", "write"}

Databases == [Matters -> [Titles -> Files \cup {None}] \cup {Gone}]

\* What is on the disk.
DiskOK ==
  /\ files \subseteq Paths /\ half \subseteq Paths \X (Reqs \cup {None})
  /\ db \in Databases /\ main \in Databases /\ before \in Databases
  /\ backup \in [db : Databases, files : SUBSET Paths, torn : SUBSET Paths]
  /\ env \in BOOLEAN /\ lost \in BOOLEAN /\ raced \in BOOLEAN
  /\ upset \subseteq Matters /\ broken \in BOOLEAN /\ crashed \in BOOLEAN

\* What a request has read.
ReqOK ==
  /\ pc \in [Reqs -> Steps]
  /\ arg \in [Reqs -> (Matters \cup {None}) \X (Titles \cup {None}) \X (Files \cup {None})]
  /\ todo \in [Reqs -> SUBSET Paths]
  /\ seen \in [Reqs -> Databases]
  /\ \A r \in Reqs :
       /\ pc[r] \in Uploading => arg[r] \in Matters \X Titles \X Files
       /\ pc[r] \in Deleting => arg[r][1] \in Matters

TypeOK == DiskOK /\ ReqOK

USE NoFileAssumption, NobodyAssumption, GoneAssumption
    DEF Steps, Uploading, Deleting, Restoring

-----------------------------------------------------------------------------
(* The paths a database names.                                             *)

\* A new matter names none.
LEMMA NewNames ==
  ASSUME NEW d \in Databases, NEW m \in Matters, d[m] = Gone
  PROVE  Named([d EXCEPT ![m] = NoDocs]) = Named(d)
  BY DEF Named, NoDocs, Databases, Paths

\* A deleted matter takes those of its documents along.
LEMMA DeletedNames ==
  ASSUME NEW d \in Databases, NEW m \in Matters
  PROVE  Named([d EXCEPT ![m] = Gone]) = {p \in Named(d) : p[1] # m}
  BY DEF Named, Databases, Paths

\* A document adds its own.
LEMMA AddedNames ==
  ASSUME NEW d \in Databases, NEW m \in Matters, NEW t \in Titles, NEW f \in Files, d[m] # Gone
  PROVE  Named([d EXCEPT ![m] = [@ EXCEPT ![t] = f]]) \subseteq Named(d) \cup {<<m, f>>}
  BY DEF Named, Databases, Paths

\* And takes from them at most the one of another binary.
LEMMA ReplacedNames ==
  ASSUME NEW d \in Databases, NEW m \in Matters, NEW t \in Titles, NEW f \in Files, d[m] # Gone,
         NEW p \in Named(d) \cup {<<m, f>>}, p[1] # m \/ d[m][t] \in {None, f}
  PROVE  p \in Named([d EXCEPT ![m] = [@ EXCEPT ![t] = f]])
  <1>. DEFINE e == [d EXCEPT ![m] = [@ EXCEPT ![t] = f]]
  <1>1. /\ e[m] = [d[m] EXCEPT ![t] = f] /\ e[m][t] = f /\ e[m] # Gone
        /\ \A u \in Titles \ {t} : e[m][u] = d[m][u]
        /\ \A n \in Matters \ {m} : e[n] = d[n]
    BY DEF Databases
  <1>2. p \in Paths
    BY DEF Named, Paths
  <1>3. CASE p = <<m, f>>
    BY <1>1, <1>2, <1>3 DEF Named
  <1>4. CASE p \in Named(d) /\ p # <<m, f>>
    <2>1. PICK u \in Titles : d[p[1]] # Gone /\ d[p[1]][u] = p[2] /\ p[2] \in Files
      BY <1>4 DEF Named, Paths
    <2>2. CASE p[1] # m
      <3>1. p[1] \in Matters
        BY <1>2 DEF Paths
      <3>2. e[p[1]] = d[p[1]]
        BY <1>1, <2>2, <3>1
      <3>. QED BY <1>2, <2>1, <3>2 DEF Named
    <2>3. CASE p[1] = m
      <3>1. u # t
        <4>1. p = <<p[1], p[2]>>
          BY <1>2 DEF Paths
        <4>. QED BY <1>4, <2>1, <2>3, <4>1
      <3>2. e[p[1]][u] = p[2] /\ e[p[1]] # Gone
        BY <1>1, <2>1, <2>3, <3>1
      <3>. QED BY <1>2, <3>2 DEF Named
    <2>. QED BY <2>2, <2>3
  <1>. QED BY <1>3, <1>4

LEMMA EmptyType == Empty \in Databases /\ Named(Empty) = {}
  BY DEF Empty, Databases, Named, Paths

LEMMA NewType ==
  ASSUME NEW d \in Databases, NEW m \in Matters
  PROVE  /\ [d EXCEPT ![m] = NoDocs] \in Databases
         /\ [d EXCEPT ![m] = Gone] \in Databases
  BY DEF Databases, NoDocs

LEMMA WithDocumentType ==
  ASSUME TypeOK, NEW r \in Reqs, pc[r] = "add", db[arg[r][1]] # Gone
  PROVE  /\ WithDocument(r) \in Databases
         /\ Named(WithDocument(r)) \subseteq Named(db) \cup {Path(r)}
         /\ Path(r) \in Paths
         /\ \A n \in Matters : db[n] # Gone => WithDocument(r)[n] # Gone
  <1>1. PICK m \in Matters, t \in Titles, f \in Files : arg[r] = <<m, t, f>>
    BY DEF TypeOK, ReqOK
  <1>2. WithDocument(r) = [db EXCEPT ![m] = [@ EXCEPT ![t] = f]] /\ Path(r) = <<m, f>>
    BY <1>1 DEF WithDocument, Path
  <1>3. db \in Databases /\ db[m] # Gone
    BY <1>1 DEF TypeOK, DiskOK
  <1>4. [db EXCEPT ![m] = [@ EXCEPT ![t] = f]] \in Databases
    BY <1>3 DEF Databases
  <1>5. Named([db EXCEPT ![m] = [@ EXCEPT ![t] = f]]) \subseteq Named(db) \cup {<<m, f>>}
    BY <1>3, AddedNames
  <1>6. <<m, f>> \in Paths
    BY DEF Paths
  <1>7. \A n \in Matters : db[n] # Gone => [db EXCEPT ![m] = [@ EXCEPT ![t] = f]][n] # Gone
    BY <1>3 DEF Databases
  <1>. QED BY <1>2, <1>4, <1>5, <1>6, <1>7

-----------------------------------------------------------------------------
(* Types.                                                                  *)

LEMMA InitType == Init => TypeOK
  <1>. SUFFICES ASSUME Init PROVE TypeOK
    OBVIOUS
  <1>1. DiskOK
    BY EmptyType DEF Init, DiskOK
  <1>2. ReqOK
    BY EmptyType DEF Init, ReqOK, NoArg
  <1>. QED BY <1>1, <1>2 DEF TypeOK

LEMMA NextType == TypeOK /\ [Next]_vars => TypeOK'
  <1>1. ASSUME TypeOK, UNCHANGED vars
        PROVE  TypeOK'
    BY <1>1 DEF TypeOK, DiskOK, ReqOK, vars
  <1>. USE DEF Goto, Begin, disk, locals, others, marks, Overlap, Upset
  <1>2. ASSUME TypeOK, NEW m \in Matters, CreateMatter(m)
        PROVE  TypeOK'
    <2>1. DiskOK'
      BY <1>2, NewType DEF CreateMatter, TypeOK, DiskOK
    <2>2. ReqOK'
      BY <1>2 DEF CreateMatter, TypeOK, ReqOK
    <2>. QED BY <2>1, <2>2 DEF TypeOK
  <1>3. ASSUME TypeOK, NEW r \in Reqs, NEW m \in Matters, NEW t \in Titles, NEW f \in Files,
               StartUpload(r, m, t, f)
        PROVE  TypeOK'
    BY <1>3 DEF StartUpload, TypeOK, DiskOK, ReqOK
  <1>4. ASSUME TypeOK, NEW r \in Reqs, StoreFile(r) \/ OpenCopy(r) \/ FillCopy(r) \/ UploadFails(r)
        PROVE  TypeOK'
    <2>1. Path(r) \in Paths /\ arg[r][1] \in Matters
      BY <1>4 DEF StoreFile, OpenCopy, FillCopy, UploadFails, Path, Paths, TypeOK, ReqOK
    <2>2. CASE StoreFile(r)
      BY <1>4, <2>2 DEF StoreFile, TypeOK, DiskOK, ReqOK
    <2>3. CASE OpenCopy(r)
      BY <1>4, <2>1, <2>3 DEF OpenCopy, Afresh, TypeOK, DiskOK, ReqOK
    <2>4. CASE FillCopy(r)
      BY <1>4, <2>4 DEF FillCopy, TypeOK, DiskOK, ReqOK
    <2>5. CASE UploadFails(r)
      <3>1. half' \subseteq Paths \X (Reqs \cup {None})
        BY <1>4, <2>5 DEF UploadFails, TypeOK, DiskOK
      <3>2. upset' \subseteq Matters /\ broken' \in BOOLEAN
        BY <1>4, <2>1, <2>5 DEF UploadFails, TypeOK, DiskOK
      <3>3. DiskOK'
        BY <1>4, <2>5, <3>1, <3>2 DEF UploadFails, TypeOK, DiskOK
      <3>4. ReqOK'
        BY <1>4, <2>5 DEF UploadFails, TypeOK, ReqOK
      <3>. QED BY <3>3, <3>4 DEF TypeOK
    <2>. QED BY <1>4, <2>2, <2>3, <2>4, <2>5
  <1>5. ASSUME TypeOK, NEW r \in Reqs, AddDocument(r)
        PROVE  TypeOK'
    <2>1. arg[r][1] \in Matters
      BY <1>5 DEF AddDocument, TypeOK, ReqOK
    <2>2. DiskOK'
      BY <1>5, <2>1, WithDocumentType DEF AddDocument, Commit, TypeOK, DiskOK
    <2>3. ReqOK'
      BY <1>5 DEF AddDocument, TypeOK, ReqOK
    <2>. QED BY <2>2, <2>3 DEF TypeOK
  <1>6. ASSUME TypeOK, NEW r \in Reqs, NEW m \in Matters, StartDelete(r, m)
        PROVE  TypeOK'
    <2>1. {p \in Named(db) : p[1] = m} \in SUBSET Paths
      BY DEF Named
    <2>. QED BY <1>6, <2>1 DEF StartDelete, TypeOK, DiskOK, ReqOK
  <1>7. ASSUME TypeOK, NEW r \in Reqs, DeleteRows(r)
        PROVE  TypeOK'
    <2>1. arg[r][1] \in Matters
      BY <1>7 DEF DeleteRows, TypeOK, ReqOK
    <2>2. [db EXCEPT ![arg[r][1]] = Gone] \in Databases
      BY <1>7, <2>1, NewType DEF TypeOK, DiskOK
    <2>3. DiskOK'
      BY <1>7, <2>2 DEF DeleteRows, Commit, TypeOK, DiskOK
    <2>4. ReqOK'
      BY <1>7 DEF DeleteRows, TypeOK, ReqOK
    <2>. QED BY <2>3, <2>4 DEF TypeOK
  <1>8. ASSUME TypeOK, NEW r \in Reqs, Unlink(r)
        PROVE  TypeOK'
    <2>1. /\ files' \subseteq files /\ half' \subseteq half
          /\ UNCHANGED <<db, main, backup, cut, before, env, lost, raced, upset, broken, crashed>>
      BY <1>8 DEF Unlink, Afresh
    <2>2. DiskOK'
      BY <1>8, <2>1 DEF TypeOK, DiskOK
    <2>3. ASSUME NEW p \in todo[r], todo' = [todo EXCEPT ![r] = @ \ {p}]
          PROVE  todo' \in [Reqs -> SUBSET Paths]
      BY <1>8, <2>3 DEF TypeOK, ReqOK
    <2>4. todo' \in [Reqs -> SUBSET Paths] /\ arg' = arg /\ seen' = seen
      BY <1>8, <2>3 DEF Unlink, TypeOK, ReqOK
    <2>5. /\ pc' \in [Reqs -> Steps]
          /\ \A o \in Reqs : pc'[o] = pc[o] \/ pc'[o] = "close"
      BY <1>8 DEF Unlink, TypeOK, ReqOK, Steps
    <2>6. ReqOK'
      BY <1>8, <2>4, <2>5 DEF TypeOK, ReqOK, Uploading, Deleting
    <2>. QED BY <2>2, <2>6 DEF TypeOK
  <1>9. ASSUME TypeOK, NEW r \in Reqs, StartBackup(r) \/ StartRestore(r) \/ CopyDatabase(r)
        PROVE  TypeOK'
    <2>1. DiskOK'
      BY <1>9 DEF StartBackup, StartRestore, CopyDatabase, TypeOK, DiskOK
    <2>2. CASE StartBackup(r)
      BY <1>9, <2>1, <2>2 DEF StartBackup, TypeOK, DiskOK, ReqOK
    <2>3. CASE StartRestore(r)
      BY <1>9, <2>1, <2>3 DEF StartRestore, TypeOK, ReqOK
    <2>4. CASE CopyDatabase(r)
      BY <1>9, <2>1, <2>4 DEF CopyDatabase, TypeOK, DiskOK, ReqOK
    <2>. QED BY <1>9, <2>2, <2>3, <2>4
  <1>10. ASSUME TypeOK, NEW r \in Reqs, WalkFiles(r)
         PROVE  TypeOK'
    <2>1. Torn \subseteq Paths
      BY <1>10 DEF Torn, TypeOK, DiskOK
    <2>2. backup' \in [db : Databases, files : SUBSET Paths, torn : SUBSET Paths]
      <3>1. seen[r] \in Databases /\ files \in SUBSET Paths /\ Torn \in SUBSET Paths
        BY <1>10, <2>1 DEF TypeOK, DiskOK, ReqOK
      <3>. QED BY <1>10, <3>1 DEF WalkFiles
    <2>4. DiskOK'
      BY <1>10, <2>2 DEF WalkFiles, TypeOK, DiskOK
    <2>3. ReqOK'
      BY <1>10, EmptyType DEF WalkFiles, TypeOK, ReqOK
    <2>. QED BY <2>3, <2>4 DEF TypeOK
  <1>11. ASSUME TypeOK, NEW r \in Reqs, ReplaceDatabase(r)
         PROVE  TypeOK'
    <2>1. DiskOK'
      BY <1>11, EmptyType DEF ReplaceDatabase, TypeOK, DiskOK
    <2>2. ReqOK'
      BY <1>11, EmptyType DEF ReplaceDatabase, TypeOK, ReqOK
    <2>. QED BY <2>1, <2>2 DEF TypeOK
  <1>12. ASSUME TypeOK, NEW r \in Reqs, MoveFiles(r) \/ WriteFile(r)
         PROVE  TypeOK'
    <2>1. CASE MoveFiles(r)
      <3>1. files' \subseteq Paths /\ half' \subseteq half
        BY <1>12, <2>1 DEF MoveFiles, TypeOK, DiskOK
      <3>2. DiskOK'
        BY <1>12, <2>1, <3>1 DEF MoveFiles, TypeOK, DiskOK
      <3>3. ReqOK'
        BY <1>12, <2>1 DEF MoveFiles, TypeOK, DiskOK, ReqOK
      <3>. QED BY <3>2, <3>3 DEF TypeOK
    <2>2. CASE WriteFile(r)
      <3>1. todo[r] \subseteq Paths /\ backup.torn \subseteq Paths
        BY <1>12 DEF TypeOK, DiskOK, ReqOK
      <3>2. files' \subseteq Paths /\ half' \subseteq Paths \X (Reqs \cup {None})
        <4>1. CASE files' = files /\ half' = half
          BY <1>12, <4>1 DEF TypeOK, DiskOK
        <4>2. ASSUME NEW p \in todo[r], files' = files \cup {p},
                     half' = Afresh(p) \cup ({p} \cap backup.torn) \X {None}
              PROVE  files' \subseteq Paths /\ half' \subseteq Paths \X (Reqs \cup {None})
          <5>1. ({p} \cap backup.torn) \X {None} \subseteq Paths \X (Reqs \cup {None})
            BY <3>1
          <5>2. Afresh(p) \subseteq Paths \X (Reqs \cup {None})
            BY <1>12 DEF Afresh, TypeOK, DiskOK
          <5>. QED BY <1>12, <3>1, <4>2, <5>1, <5>2 DEF TypeOK, DiskOK
        <4>. QED BY <2>2, <4>1, <4>2 DEF WriteFile
      <3>3. DiskOK'
        BY <1>12, <2>2, <3>2 DEF WriteFile, TypeOK, DiskOK
      <3>4. ReqOK'
        BY <1>12, <2>2 DEF WriteFile, TypeOK, ReqOK
      <3>. QED BY <3>3, <3>4 DEF TypeOK
    <2>. QED BY <1>12, <2>1, <2>2
  <1>13. ASSUME TypeOK, NEW r \in Reqs, CloseStore(r)
         PROVE  TypeOK'
    <2>1. DiskOK'
      BY <1>13, EmptyType DEF CloseStore, Close, TypeOK, DiskOK
    <2>2. ReqOK'
      BY <1>13 DEF CloseStore, NoArg, TypeOK, ReqOK
    <2>. QED BY <2>1, <2>2 DEF TypeOK
  <1>14. ASSUME TypeOK, Checkpoint
         PROVE  TypeOK'
    BY <1>14 DEF Checkpoint, TypeOK, DiskOK, ReqOK
  <1>15. ASSUME TypeOK, Crash
         PROVE  TypeOK'
    <2>0. /\ half' \subseteq Paths \X (Reqs \cup {None})
          /\ upset' \subseteq Matters
      <3>1. \A r \in Reqs : pc[r] \in {"fill", "add", "unlink"} => arg[r][1] \in Matters
        BY <1>15 DEF TypeOK, ReqOK
      <3>2. upset' \subseteq Matters
        BY <1>15, <3>1 DEF Crash, At, TypeOK, DiskOK
      <3>3. half' \subseteq Paths \X (Reqs \cup {None})
        BY <1>15 DEF Crash, Torn, TypeOK, DiskOK
      <3>. QED BY <3>2, <3>3
    <2>1. DiskOK'
      BY <1>15, <2>0, EmptyType DEF Crash, TypeOK, DiskOK
    <2>2. ReqOK'
      BY <1>15, EmptyType DEF Crash, NoArg, TypeOK, ReqOK
    <2>. QED BY <2>1, <2>2 DEF TypeOK
  <1>. HIDE DEF Goto, Begin, disk, locals, others, marks, Overlap, Upset
  <1>. QED
    BY <1>1, <1>2, <1>3, <1>4, <1>5, <1>6, <1>7, <1>8, <1>9, <1>10, <1>11, <1>12, <1>13,
       <1>14, <1>15 DEF Next

\* The databases, the files and what each request has read keep their types.
THEOREM TypeCorrect == Spec => []TypeOK
  BY InitType, NextType, PTL DEF Spec

-----------------------------------------------------------------------------
(* Files nobody names.                                                     *)

\* What a request on a matter that is not upset knows: an upload's matter is
\* there and nobody deletes it, a deletion has read all paths of its matter.
Counts(r) ==
  /\ pc[r] \in Uploading /\ arg[r][1] \notin upset => db[arg[r][1]] # Gone
  /\ pc[r] \in Deleting => \A p \in todo[r] : p[1] = arg[r][1]
  /\ pc[r] = "delete" /\ arg[r][1] \notin upset =>
       \A p \in Named(db) : p[1] = arg[r][1] => p \in todo[r]

\* No upload of a matter overlaps with its deletion.
NotBoth ==
  \A r, o \in Reqs :
    pc[r] \in Uploading /\ pc[o] \in Deleting /\ arg[r][1] = arg[o][1] => arg[r][1] \in upset

\* After a restore every matter is upset.
Restored ==
  cut # {} \/ (\E r \in Reqs : pc[r] \in {"files", "write"}) => upset = Matters

RowsInv == TypeOK /\ FilesHaveRows /\ (\A r \in Reqs : Counts(r)) /\ NotBoth /\ Restored

\* A file loses its name, or the request it waited for, only where the matter is
\* upset.
LEMMA FilesStep ==
  ASSUME RowsInv, Next
  PROVE  FilesHaveRows'
  <1>. USE DEF RowsInv, FilesHaveRows, Pending, Goto, Begin, disk, locals, others, marks, At, Upset,
               TypeOK, ReqOK
  <1>1. ASSUME NEW m \in Matters, CreateMatter(m)
        PROVE  FilesHaveRows'
    <2>1. Named(db') = Named(db)
      BY <1>1, NewNames DEF CreateMatter, DiskOK
    <2>. QED BY <1>1, <2>1 DEF CreateMatter, Path
  <1>2. ASSUME NEW r \in Reqs, NEW m \in Matters, NEW t \in Titles, NEW f \in Files,
               StartUpload(r, m, t, f)
        PROVE  FilesHaveRows'
    BY <1>2 DEF StartUpload, Path
  <1>3. ASSUME NEW r \in Reqs, StoreFile(r) \/ OpenCopy(r) \/ FillCopy(r)
        PROVE  FilesHaveRows'
    <2>1. CASE StoreFile(r)
      BY <2>1 DEF StoreFile, Path
    <2>2. CASE OpenCopy(r)
      BY <2>2 DEF OpenCopy, Path
    <2>3. CASE FillCopy(r)
      BY <2>3 DEF FillCopy, Path
    <2>. QED BY <1>3, <2>1, <2>2, <2>3
  <1>4. ASSUME NEW r \in Reqs, UploadFails(r)
        PROVE  FilesHaveRows'
    <2>1. /\ Pending \subseteq Pending' \cup {Path(r)} /\ upset \subseteq upset'
          /\ pc[r] \in {"fill", "add"} => arg[r][1] \in upset'
      BY <1>4 DEF UploadFails, Path
    <2>2. pc[r] \notin {"fill", "add"} => Pending \subseteq Pending'
      BY <1>4 DEF UploadFails, Path
    <2>3. Path(r)[1] = arg[r][1] /\ db' = db /\ files' = files
      BY <1>4 DEF UploadFails, Path
    <2>. HIDE DEF Pending
    <2>. QED BY <2>1, <2>2, <2>3
  <1>5. ASSUME NEW r \in Reqs, AddDocument(r)
        PROVE  FilesHaveRows'
    <2>1. /\ Pending \subseteq Pending' \cup {Path(r)} /\ upset \subseteq upset' /\ files' = files
      BY <1>5 DEF AddDocument, Path
    <2>2. ASSUME db[arg[r][1]] = Gone
          PROVE  db' = db /\ Path(r)[1] \in upset'
      <3>1. arg[r][1] \in upset
        BY <1>5, <2>2 DEF AddDocument, Counts
      <3>. QED BY <1>5, <2>1, <2>2, <3>1 DEF AddDocument, Path
    <2>3. ASSUME db[arg[r][1]] # Gone, NEW p \in Named(db) \cup {Path(r)}, p[1] \notin upset'
          PROVE  p \in Named(db')
      <3>1. PICK m \in Matters, t \in Titles, f \in Files : arg[r] = <<m, t, f>>
        BY <1>5 DEF AddDocument
      <3>2. Path(r) = <<m, f>> /\ WithDocument(r) = [db EXCEPT ![m] = [@ EXCEPT ![t] = f]]
        BY <3>1 DEF Path, WithDocument
      <3>3. p[1] \in Matters
        BY <3>2 DEF Named, Paths
      <3>4. r \notin cut
        BY <2>1, <2>3, <3>3 DEF Restored
      <3>5. db' = WithDocument(r)
        BY <1>5, <2>3, <3>4 DEF AddDocument, Commit
      <3>6. p[1] # m \/ db[m][t] \in {None, f}
        BY <1>5, <2>3, <3>1 DEF AddDocument
      <3>7. db \in Databases /\ db[m] # Gone /\ p \in Named(db) \cup {<<m, f>>}
        BY <2>3, <3>1, <3>2 DEF DiskOK
      <3>8. p \in Named([db EXCEPT ![m] = [@ EXCEPT ![t] = f]])
        BY ONLY <3>6, <3>7, ReplacedNames
      <3>. QED BY <3>2, <3>5, <3>8
    <2>. HIDE DEF Pending
    <2>. QED BY <2>1, <2>2, <2>3
  <1>6. ASSUME NEW r \in Reqs, NEW m \in Matters, StartDelete(r, m)
        PROVE  FilesHaveRows'
    BY <1>6 DEF StartDelete, Path
  <1>7. ASSUME NEW r \in Reqs, DeleteRows(r)
        PROVE  FilesHaveRows'
    <2>1. Pending \subseteq Pending' /\ files' = files /\ upset' = upset
      BY <1>7 DEF DeleteRows, Path
    <2>2. ASSUME NEW p \in Named(db), p[1] \notin upset
          PROVE  p \in Named(db') \cup Pending'
      <3>1. p[1] \in Matters /\ arg[r][1] \in Matters
        BY <1>7 DEF DeleteRows, Named, Paths
      <3>2. r \notin cut
        BY <2>2, <3>1 DEF Restored
      <3>3. CASE db[arg[r][1]] = Gone
        <4>1. db' = db
          BY <1>7, <3>3 DEF DeleteRows
        <4>. QED BY <2>2, <4>1
      <3>4. CASE db[arg[r][1]] # Gone
        <4>1. Named(db') = {q \in Named(db) : q[1] # arg[r][1]}
          <5>1. db' = [db EXCEPT ![arg[r][1]] = Gone]
            BY <1>7, <3>2, <3>4 DEF DeleteRows, Commit
          <5>2. Named([db EXCEPT ![arg[r][1]] = Gone]) = {q \in Named(db) : q[1] # arg[r][1]}
            BY <3>1, DeletedNames DEF DiskOK
          <5>. QED BY <5>1, <5>2
        <4>2. pc'[r] = "unlink" /\ todo' = todo
          BY <1>7, <3>4 DEF DeleteRows
        <4>3. p[1] = arg[r][1] => p \in todo[r]
          BY <1>7, <2>2 DEF DeleteRows, Counts
        <4>. QED BY <2>2, <4>1, <4>2, <4>3
      <3>. QED BY <3>3, <3>4
    <2>. HIDE DEF Pending
    <2>. QED BY <2>1, <2>2
  <1>8. ASSUME NEW r \in Reqs, Unlink(r)
        PROVE  FilesHaveRows'
    <2>1. ASSUME NEW p \in todo[r], files' = files \ {p}, todo' = [todo EXCEPT ![r] = @ \ {p}],
                 UNCHANGED <<pc, db, arg, upset>>
          PROVE  FilesHaveRows'
      <3>1. Pending \subseteq Pending' \cup {p}
        BY <1>8, <2>1 DEF Path
      <3>. QED BY <2>1, <3>1
    <2>2. ASSUME todo[r] = {}, pc' = [pc EXCEPT ![r] = "close"],
                 UNCHANGED <<files, todo, db, arg, upset>>
          PROVE  FilesHaveRows'
      <3>1. Pending \subseteq Pending'
        BY <1>8, <2>2 DEF Unlink, Path
      <3>. QED BY <2>2, <3>1
    <2>. QED BY <1>8, <2>1, <2>2 DEF Unlink
  <1>9. ASSUME NEW r \in Reqs, StartBackup(r) \/ StartRestore(r) \/ CopyDatabase(r) \/ WalkFiles(r)
        PROVE  FilesHaveRows'
    <2>1. Pending \subseteq Pending'
      BY <1>9 DEF StartBackup, StartRestore, CopyDatabase, WalkFiles, Path
    <2>2. UNCHANGED <<files, db, upset>>
      BY <1>9 DEF StartBackup, StartRestore, CopyDatabase, WalkFiles
    <2>. HIDE DEF Pending
    <2>. QED BY <2>1, <2>2
  <1>10. ASSUME NEW r \in Reqs, ReplaceDatabase(r) \/ MoveFiles(r) \/ WriteFile(r)
         PROVE  FilesHaveRows'
    <2>1. upset' = Matters
      <3>1. CASE ReplaceDatabase(r)
        BY <3>1 DEF ReplaceDatabase, DiskOK
      <3>2. CASE MoveFiles(r)
        BY <3>2 DEF MoveFiles, Restored
      <3>3. CASE WriteFile(r)
        BY <3>3 DEF WriteFile, Restored
      <3>. QED BY <1>10, <3>1, <3>2, <3>3
    <2>2. files' \subseteq Paths
      BY <1>10, NextType DEF DiskOK
    <2>. QED BY <2>1, <2>2 DEF Paths
  <1>11. ASSUME NEW r \in Reqs, CloseStore(r)
         PROVE  FilesHaveRows'
    <2>1. Pending \subseteq Pending' /\ files' = files /\ upset' = upset
      BY <1>11 DEF CloseStore, Path
    <2>2. CASE r \in cut
      BY <2>1, <2>2 DEF Restored, DiskOK, Paths
    <2>3. CASE r \notin cut
      BY <1>11, <2>1, <2>3 DEF CloseStore, Close
    <2>. QED BY <2>2, <2>3
  <1>12. ASSUME Checkpoint \/ Crash
         PROVE  FilesHaveRows'
    <2>1. CASE Checkpoint
      BY <2>1 DEF Checkpoint, Path
    <2>2. CASE Crash
      <3>1. \A p \in Pending : p[1] \in upset'
        <4>1. \A r \in Reqs : pc[r] \in {"fill", "add", "unlink"} => arg[r][1] \in upset'
          BY <2>2 DEF Crash
        <4>2. \A r \in Reqs : pc[r] = "unlink" => \A p \in todo[r] : p[1] = arg[r][1]
          BY DEF Counts
        <4>. QED BY <4>1, <4>2 DEF Path
      <3>. QED BY <2>2, <3>1 DEF Crash
    <2>. QED BY <1>12, <2>1, <2>2
  <1>. HIDE DEF FilesHaveRows
  <1>. QED
    BY <1>1, <1>2, <1>3, <1>4, <1>5, <1>6, <1>7, <1>8, <1>9, <1>10, <1>11, <1>12 DEF Next

\* An upload and a deletion of one matter meet only on a matter that is upset.
LEMMA CountsStep ==
  ASSUME RowsInv, Next
  PROVE  (\A o \in Reqs : Counts(o)') /\ NotBoth' /\ Restored'
  <1>. USE DEF RowsInv, Goto, Begin, disk, locals, others, marks, At, OnMatter, Upset, TypeOK, ReqOK
  <1>. DEFINE Kept == (\A o \in Reqs : Counts(o)') /\ NotBoth' /\ Restored'
  <1>1. ASSUME NEW m \in Matters, CreateMatter(m)
        PROVE  Kept
    <2>1. Named(db') = Named(db) /\ \A n \in Matters : db[n] # Gone => db'[n] # Gone
      BY <1>1, NewNames DEF CreateMatter, DiskOK, Databases
    <2>. QED BY <1>1, <2>1 DEF CreateMatter, Counts, NotBoth, Restored
  <1>2. ASSUME NEW r \in Reqs, NEW m \in Matters, NEW t \in Titles, NEW f \in Files,
               StartUpload(r, m, t, f)
        PROVE  Kept
    <2>1. /\ pc[r] = "idle" /\ pc'[r] = "store" /\ arg'[r][1] = m /\ db[m] # Gone
          /\ upset \subseteq upset' /\ UNCHANGED <<db, cut, todo>>
          /\ \A o \in Reqs \ {r} : pc'[o] = pc[o] /\ arg'[o] = arg[o]
          /\ (\E o \in Reqs : pc[o] \in Deleting /\ arg[o][1] = m) => m \in upset'
      BY <1>2 DEF StartUpload
    <2>2. upset' \subseteq Matters
      BY <1>2, NextType DEF DiskOK, StartUpload
    <2>3. \A o \in Reqs : Counts(o)'
      BY <2>1 DEF Counts
    <2>4. NotBoth'
      BY <2>1 DEF NotBoth
    <2>5. Restored'
      BY <2>1, <2>2 DEF Restored
    <2>. QED BY <2>3, <2>4, <2>5
  <1>3. ASSUME NEW r \in Reqs, StoreFile(r) \/ OpenCopy(r) \/ FillCopy(r)
        PROVE  Kept
    <2>1. /\ pc[r] \in Uploading /\ pc'[r] \in Uploading /\ UNCHANGED <<db, cut, todo, arg, upset>>
          /\ \A o \in Reqs \ {r} : pc'[o] = pc[o]
      BY <1>3 DEF StoreFile, OpenCopy, FillCopy
    <2>. QED BY <2>1 DEF Counts, NotBoth, Restored
  <1>4. ASSUME NEW r \in Reqs, UploadFails(r)
        PROVE  Kept
    <2>1. /\ pc'[r] = "close" /\ UNCHANGED <<db, cut, todo, arg>>
          /\ upset \subseteq upset' /\ \A o \in Reqs \ {r} : pc'[o] = pc[o]
      BY <1>4 DEF UploadFails
    <2>2. upset' \subseteq Matters
      BY <1>4, NextType DEF DiskOK
    <2>. QED BY <2>1, <2>2 DEF Counts, NotBoth, Restored
  <1>5. ASSUME NEW r \in Reqs, AddDocument(r)
        PROVE  Kept
    <2>1. /\ pc[r] = "add" /\ pc'[r] = "close" /\ UNCHANGED <<cut, todo, arg>>
          /\ upset \subseteq upset' /\ \A o \in Reqs \ {r} : pc'[o] = pc[o]
      BY <1>5 DEF AddDocument
    <2>2. upset' \subseteq Matters
      BY <1>5, NextType DEF DiskOK
    <2>3. NotBoth' /\ Restored'
      BY <2>1, <2>2 DEF NotBoth, Restored
    <2>4. db' = db \/ (db[arg[r][1]] # Gone /\ db' = WithDocument(r))
      BY <1>5 DEF AddDocument, Commit
    <2>5. /\ \A n \in Matters : db[n] # Gone => db'[n] # Gone
          /\ \A p \in Named(db') : p \in Named(db) \/ p[1] = arg[r][1]
      <3>1. ASSUME db[arg[r][1]] # Gone, db' = WithDocument(r)
            PROVE  /\ \A n \in Matters : db[n] # Gone => db'[n] # Gone
                   /\ Named(db') \subseteq Named(db) \cup {Path(r)}
        BY <2>1, <3>1, WithDocumentType
      <3>. QED BY <2>4, <3>1 DEF Path
    <2>6. ASSUME NEW o \in Reqs
          PROVE  Counts(o)'
      <3>1. pc[o] = "delete" /\ arg[o][1] = arg[r][1] => arg[o][1] \in upset
        BY <2>1 DEF NotBoth
      <3>2. pc'[o] \in Uploading => arg[o][1] \in Matters /\ pc[o] \in Uploading
        BY <2>1
      <3>. QED BY <2>1, <2>5, <3>1, <3>2 DEF Counts
    <2>. QED BY <2>3, <2>6
  <1>6. ASSUME NEW r \in Reqs, NEW m \in Matters, StartDelete(r, m)
        PROVE  Kept
    <2>1. /\ pc[r] = "idle" /\ pc'[r] = "delete" /\ arg'[r][1] = m /\ UNCHANGED <<db, cut>>
          /\ todo'[r] = {p \in Named(db) : p[1] = m}
          /\ upset \subseteq upset'
          /\ \A o \in Reqs \ {r} : pc'[o] = pc[o] /\ arg'[o] = arg[o] /\ todo'[o] = todo[o]
          /\ (\E o \in Reqs : pc[o] \in Uploading /\ arg[o][1] = m) => m \in upset'
      BY <1>6 DEF StartDelete
    <2>2. upset' \subseteq Matters
      BY <1>6, NextType DEF DiskOK
    <2>3. \A o \in Reqs : Counts(o)'
      BY <2>1 DEF Counts
    <2>4. NotBoth'
      BY <2>1 DEF NotBoth
    <2>5. Restored'
      BY <2>1, <2>2 DEF Restored
    <2>. QED BY <2>3, <2>4, <2>5
  <1>7. ASSUME NEW r \in Reqs, DeleteRows(r)
        PROVE  Kept
    <2>1. /\ pc[r] = "delete" /\ pc'[r] \in {"close", "unlink"} /\ UNCHANGED <<cut, arg, upset>>
          /\ todo'[r] \subseteq todo[r]
          /\ \A o \in Reqs \ {r} : pc'[o] = pc[o] /\ todo'[o] = todo[o]
      BY <1>7 DEF DeleteRows
    <2>2. NotBoth' /\ Restored'
      BY <2>1 DEF NotBoth, Restored
    <2>3. db' = db \/ db' = [db EXCEPT ![arg[r][1]] = Gone]
      BY <1>7 DEF DeleteRows, Commit
    <2>4. arg[r][1] \in Matters
      BY <2>1
    <2>5. /\ Named(db') \subseteq Named(db)
          /\ \A n \in Matters \ {arg[r][1]} : db'[n] = db[n]
      <3>1. PICK m \in Matters : m = arg[r][1]
        BY <2>4
      <3>2. db \in Databases
        BY DEF DiskOK
      <3>3. Named([db EXCEPT ![m] = Gone]) \subseteq Named(db)
        BY <3>2, DeletedNames
      <3>4. \A n \in Matters \ {m} : [db EXCEPT ![m] = Gone][n] = db[n]
        BY <3>2 DEF Databases
      <3>. QED BY <2>3, <3>1, <3>3, <3>4
    <2>6. ASSUME NEW o \in Reqs
          PROVE  Counts(o)'
      <3>1. pc[o] \in Uploading /\ arg[o][1] = arg[r][1] => arg[o][1] \in upset
        BY <2>1 DEF NotBoth
      <3>2. pc'[o] \in Uploading => arg[o][1] \in Matters /\ pc[o] \in Uploading
        BY <2>1
      <3>. QED BY <2>1, <2>5, <3>1, <3>2 DEF Counts
    <2>. QED BY <2>2, <2>6
  <1>8. ASSUME NEW r \in Reqs, Unlink(r)
        PROVE  Kept
    <2>1. /\ pc[r] = "unlink" /\ pc'[r] \in {"unlink", "close"} /\ UNCHANGED <<db, cut, arg, upset>>
          /\ todo'[r] \subseteq todo[r]
          /\ \A o \in Reqs \ {r} : pc'[o] = pc[o] /\ todo'[o] = todo[o]
      BY <1>8 DEF Unlink
    <2>. QED BY <2>1 DEF Counts, NotBoth, Restored
  <1>9. ASSUME NEW r \in Reqs, StartBackup(r) \/ StartRestore(r) \/ CopyDatabase(r) \/ WalkFiles(r)
        PROVE  Kept
    <2>1. /\ pc'[r] \in {"backup", "copy", "replace", "idle"}
          /\ UNCHANGED <<db, cut, arg, todo, upset>>
          /\ \A o \in Reqs \ {r} : pc'[o] = pc[o]
      BY <1>9 DEF StartBackup, StartRestore, CopyDatabase, WalkFiles
    <2>. QED BY <2>1 DEF Counts, NotBoth, Restored
  <1>10. ASSUME NEW r \in Reqs, ReplaceDatabase(r) \/ MoveFiles(r) \/ WriteFile(r)
         PROVE  Kept
    <2>1. upset' = Matters
      <3>1. CASE ReplaceDatabase(r)
        BY <3>1 DEF ReplaceDatabase, DiskOK
      <3>2. CASE MoveFiles(r)
        BY <3>2 DEF MoveFiles, Restored
      <3>3. CASE WriteFile(r)
        BY <3>3 DEF WriteFile, Restored
      <3>. QED BY <1>10, <3>1, <3>2, <3>3
    <2>2. /\ pc'[r] \in {"files", "write", "idle"} /\ arg' = arg
          /\ \A o \in Reqs \ {r} : pc'[o] = pc[o] /\ todo'[o] = todo[o]
      BY <1>10 DEF ReplaceDatabase, MoveFiles, WriteFile
    <2>3. \A o \in Reqs : pc'[o] \in Uploading \cup Deleting => arg'[o][1] \in upset'
      BY <2>1, <2>2
    <2>. QED BY <2>1, <2>2, <2>3 DEF Counts, NotBoth, Restored
  <1>11. ASSUME NEW r \in Reqs, CloseStore(r)
         PROVE  Kept
    <2>1. /\ pc'[r] \in {"walk", "idle"} /\ UNCHANGED <<todo, upset>> /\ cut' \subseteq cut
          /\ \A o \in Reqs \ {r} : pc'[o] = pc[o] /\ arg'[o] = arg[o]
      BY <1>11 DEF CloseStore
    <2>2. NotBoth' /\ Restored'
      BY <2>1 DEF NotBoth, Restored
    <2>3. CASE r \notin cut
      BY <1>11, <2>1, <2>2, <2>3 DEF CloseStore, Close, Counts
    <2>4. CASE r \in cut
      <3>1. upset' = Matters
        BY <2>1, <2>4 DEF Restored
      <3>2. \A o \in Reqs : pc'[o] \in Uploading \cup Deleting => arg'[o][1] \in upset' /\ o # r
        BY <2>1, <3>1
      <3>. QED BY <2>1, <2>2, <3>2 DEF Counts
    <2>. QED BY <2>3, <2>4
  <1>12. ASSUME Checkpoint \/ Crash
         PROVE  Kept
    <2>1. CASE Checkpoint
      BY <2>1 DEF Checkpoint, Counts, NotBoth, Restored
    <2>2. CASE Crash
      BY <2>2 DEF Crash, Counts, NotBoth, Restored
    <2>. QED BY <1>12, <2>1, <2>2
  <1>. HIDE DEF Kept
  <1>13. Kept
    BY <1>1, <1>2, <1>3, <1>4, <1>5, <1>6, <1>7, <1>8, <1>9, <1>10, <1>11, <1>12 DEF Next
  <1>. QED BY <1>13 DEF Kept

\* However uploads, deletions, backups, restores and crashes overlap, the files of
\* a matter are those its documents name, unless an upload or a deletion of that
\* matter was disturbed.
THEOREM StraysHaveCause == Spec => []FilesHaveRows
  <1>1. Init => RowsInv
    BY InitType DEF RowsInv, Init, FilesHaveRows, Counts, NotBoth, Restored
  <1>2. RowsInv /\ [Next]_vars => RowsInv'
    <2>1. ASSUME RowsInv, UNCHANGED vars
          PROVE  RowsInv'
      BY <2>1, NextType
         DEF RowsInv, FilesHaveRows, Pending, At, Path, Counts, NotBoth, Restored, vars
    <2>. QED BY <2>1, NextType, FilesStep, CountsStep DEF RowsInv
  <1>. QED BY <1>1, <1>2, PTL DEF Spec, RowsInv

-----------------------------------------------------------------------------
(* Incomplete files.                                                       *)

\* An incomplete file is being written, unless a copy was stopped half-way.
Writers ==
  \A h \in half : IF h[2] = None THEN broken ELSE pc[h[2]] = "fill" /\ Path(h[2]) = h[1]

Complete == TypeOK /\ Writers /\ (backup.torn # {} => broken)

LEMMA CompleteStep ==
  ASSUME Complete, Next
  PROVE  Writers' /\ (backup'.torn # {} => broken')
  <1>. USE DEF Complete, Writers, Goto, Begin, disk, locals, others, marks, At, TypeOK, ReqOK, DiskOK
  <1>1. \A h \in half : h[1] \in Paths /\ h[2] \in Reqs \cup {None}
    OBVIOUS
  <1>2. CASE \E m \in Matters : CreateMatter(m)
    BY <1>1, <1>2 DEF CreateMatter, Path
  <1>3. ASSUME NEW r \in Reqs, NEW m \in Matters, NEW t \in Titles, NEW f \in Files,
               StartUpload(r, m, t, f)
        PROVE  Writers' /\ (backup'.torn # {} => broken')
    <2>1. /\ pc[r] = "idle" /\ UNCHANGED <<half, backup, broken>>
          /\ \A o \in Reqs \ {r} : pc'[o] = pc[o] /\ arg'[o] = arg[o]
      BY <1>3 DEF StartUpload
    <2>. QED BY <1>1, <2>1 DEF Path
  <1>4. ASSUME NEW r \in Reqs, NEW m \in Matters, StartDelete(r, m)
        PROVE  Writers' /\ (backup'.torn # {} => broken')
    <2>1. /\ pc[r] = "idle" /\ UNCHANGED <<half, backup, broken>>
          /\ \A o \in Reqs \ {r} : pc'[o] = pc[o] /\ arg'[o] = arg[o]
      BY <1>4 DEF StartDelete
    <2>. QED BY <1>1, <2>1 DEF Path
  <1>5. ASSUME NEW r \in Reqs, StoreFile(r) \/ AddDocument(r) \/ DeleteRows(r)
        PROVE  Writers' /\ (backup'.torn # {} => broken')
    <2>1. /\ pc[r] # "fill" /\ UNCHANGED <<half, backup, broken, arg>>
          /\ \A o \in Reqs \ {r} : pc'[o] = pc[o]
      BY <1>5 DEF StoreFile, AddDocument, DeleteRows
    <2>. QED BY <1>1, <2>1 DEF Path
  <1>6. ASSUME NEW r \in Reqs, OpenCopy(r)
        PROVE  Writers' /\ (backup'.torn # {} => broken')
    <2>1. /\ pc[r] = "open" /\ pc'[r] = "fill" /\ UNCHANGED <<backup, broken, arg>>
          /\ half' = Afresh(Path(r)) \cup {<<Path(r), r>>}
          /\ \A o \in Reqs \ {r} : pc'[o] = pc[o]
      BY <1>6 DEF OpenCopy
    <2>. QED BY <1>1, <2>1 DEF Path, Afresh
  <1>7. ASSUME NEW r \in Reqs, FillCopy(r)
        PROVE  Writers' /\ (backup'.torn # {} => broken')
    <2>1. /\ UNCHANGED <<backup, broken, arg>> /\ half' = half \ {<<Path(r), r>>}
          /\ \A o \in Reqs \ {r} : pc'[o] = pc[o]
      BY <1>7 DEF FillCopy
    <2>2. \A h \in half' : h \in half /\ h[2] # r
      <3>. SUFFICES ASSUME NEW h \in half' PROVE h \in half /\ h[2] # r
        OBVIOUS
      <3>1. h \in half /\ h # <<Path(r), r>> /\ h = <<h[1], h[2]>>
        BY <2>1
      <3>2. h[2] = r => h[1] = Path(r)
        BY <3>1
      <3>. QED BY <3>1, <3>2
    <2>. QED BY <1>1, <2>1, <2>2 DEF Path
  <1>8. ASSUME NEW r \in Reqs, UploadFails(r)
        PROVE  Writers' /\ (backup'.torn # {} => broken')
    <2>1. /\ half' = {IF h[2] = r THEN <<h[1], None>> ELSE h : h \in half}
          /\ broken' = (broken \/ pc[r] = "fill") /\ UNCHANGED <<backup, arg>>
          /\ \A o \in Reqs \ {r} : pc'[o] = pc[o]
      BY <1>8 DEF UploadFails
    <2>2. ASSUME NEW g \in half'
          PROVE  IF g[2] = None THEN broken' ELSE pc'[g[2]] = "fill" /\ Path(g[2])' = g[1]
      <3>1. PICK h \in half : g = IF h[2] = r THEN <<h[1], None>> ELSE h
        BY <2>1
      <3>2. CASE h[2] = r
        BY <1>1, <2>1, <3>1, <3>2
      <3>3. CASE h[2] # r
        BY <1>1, <2>1, <3>1, <3>3 DEF Path
      <3>. QED BY <3>2, <3>3
    <2>. QED BY <2>1, <2>2
  <1>9. ASSUME NEW r \in Reqs, Unlink(r) \/ MoveFiles(r) \/ WriteFile(r)
        PROVE  Writers' /\ (backup'.torn # {} => broken')
    <2>1. /\ pc[r] \notin {"fill"} /\ UNCHANGED <<backup, broken, arg>>
          /\ \A o \in Reqs \ {r} : pc'[o] = pc[o]
      BY <1>9 DEF Unlink, MoveFiles, WriteFile
    <2>2. half' \subseteq half \cup (backup.torn \X {None})
      BY <1>9 DEF Unlink, MoveFiles, WriteFile, Afresh
    <2>. QED BY <1>1, <2>1, <2>2 DEF Path
  <1>10. ASSUME NEW r \in Reqs, StartBackup(r) \/ StartRestore(r) \/ CopyDatabase(r) \/ ReplaceDatabase(r)
         PROVE  Writers' /\ (backup'.torn # {} => broken')
    <2>1. /\ pc[r] \notin {"fill"} /\ UNCHANGED <<half, backup, broken, arg>>
          /\ \A o \in Reqs \ {r} : pc'[o] = pc[o]
      BY <1>10 DEF StartBackup, StartRestore, CopyDatabase, ReplaceDatabase
    <2>. QED BY <1>1, <2>1 DEF Path
  <1>11. ASSUME NEW r \in Reqs, WalkFiles(r)
         PROVE  Writers' /\ (backup'.torn # {} => broken')
    <2>1. /\ pc[r] = "walk" /\ UNCHANGED <<half, arg>> /\ backup'.torn = Torn
          /\ broken' = (broken \/ \E o \in Reqs : pc[o] = "fill")
          /\ \A o \in Reqs \ {r} : pc'[o] = pc[o]
      BY <1>11 DEF WalkFiles
    <2>2. Torn # {} => broken'
      <3>1. ASSUME NEW h \in half
            PROVE  broken'
        BY <1>1, <2>1
      <3>. QED BY <3>1 DEF Torn
    <2>. QED BY <1>1, <2>1, <2>2 DEF Path
  <1>12. ASSUME NEW r \in Reqs, CloseStore(r)
         PROVE  Writers' /\ (backup'.torn # {} => broken')
    <2>1. /\ pc[r] \in {"close", "backup"} /\ UNCHANGED <<half, backup, broken>>
          /\ \A o \in Reqs \ {r} : pc'[o] = pc[o] /\ arg'[o] = arg[o]
      BY <1>12 DEF CloseStore
    <2>. QED BY <1>1, <2>1 DEF Path
  <1>13. CASE Checkpoint
    BY <1>1, <1>13 DEF Checkpoint, Path
  <1>14. CASE Crash
    <2>1. /\ half' = Torn \X {None} /\ backup' = backup
          /\ broken' = (broken \/ \E o \in Reqs : pc[o] = "fill")
      BY <1>14 DEF Crash
    <2>2. half # {} => broken'
      BY <1>1, <2>1
    <2>3. \A h \in half' : h[2] = None /\ half # {}
      BY <2>1 DEF Torn
    <2>. QED BY <2>1, <2>2, <2>3
  <1>. HIDE DEF Writers, TypeOK, ReqOK, DiskOK
  <1>. QED
    BY <1>2, <1>3, <1>4, <1>5, <1>6, <1>7, <1>8, <1>9, <1>10, <1>11, <1>12, <1>13, <1>14 DEF Next

LEMMA CompleteInvariant == Spec => []Complete
  <1>1. Init => Complete
    BY InitType DEF Init, Complete, Writers
  <1>2. Complete /\ [Next]_vars => Complete'
    <2>1. ASSUME Complete, UNCHANGED vars
          PROVE  Complete'
      BY <2>1, NextType DEF Complete, Writers, Path, vars
    <2>. QED BY <2>1, NextType, CompleteStep DEF Complete
  <1>. QED BY <1>1, <1>2, PTL DEF Spec

-----------------------------------------------------------------------------
(* Requests that do not overlap.                                           *)

\* A restore runs alone; a deletion runs beside other matters' requests and
\* beside no backup.
Apart ==
  /\ cut = {}
  /\ \A r, o \in Reqs : pc[r] \in Restoring /\ o # r => pc[o] = "idle"
  /\ \A r, o \in Reqs : pc[r] \in Deleting /\ o # r =>
       /\ pc[o] \in Uploading \cup Deleting => arg[o][1] # arg[r][1]
       /\ pc[o] \notin {"backup", "walk"}

\* The database file lacks what a crash has left in the log.
LogLeft == env /\ crashed

\* The files a request counts on are on the disk, and a restore copies all that
\* is committed.
Holds(r) ==
  /\ pc[r] \in {"fill", "add"} => Path(r) \in files
  /\ pc[r] \in Deleting => \A p \in todo[r] : p[1] = arg[r][1]
  /\ pc[r] = "unlink" => \A p \in Named(db) : p[1] # arg[r][1]
  /\ pc[r] \in {"backup", "walk"} => Named(seen[r]) \subseteq files
  /\ pc[r] = "copy" => main = db \/ LogLeft
  /\ pc[r] = "replace" => seen[r] = db \/ LogLeft
  /\ pc[r] = "files" => Named(db) \subseteq backup.files
  /\ pc[r] = "write" => Named(db) \subseteq files \cup todo[r]

Present ==
  /\ Named(backup.db) \subseteq backup.files
  /\ (\A r \in Reqs : pc[r] \notin {"files", "write"}) => Named(db) \subseteq files

\* Nobody connected, nothing is in the log but what a crash has left.
Checkpointed == Connected = {} /\ ~crashed => main = db

Calm ==
  Apart /\ Present /\ Checkpointed /\ (\A r \in Reqs : Holds(r)) /\ (lost => LogLeft)

CalmInv == TypeOK /\ (~raced => Calm)

\* Requests stay apart unless they are marked.
LEMMA ApartStep ==
  ASSUME CalmInv, Next, ~raced'
  PROVE  ~raced /\ Calm /\ Apart'
  <1>. USE DEF CalmInv, TypeOK, ReqOK, Calm, Goto, Begin, disk, locals, others, marks, At, Overlap,
               OnMatter, Connected
  <1>1. ASSUME NEW m \in Matters, CreateMatter(m)
        PROVE  ~raced /\ Apart'
    BY <1>1 DEF CreateMatter, Apart
  <1>2. ASSUME NEW r \in Reqs, NEW m \in Matters, NEW t \in Titles, NEW f \in Files,
               StartUpload(r, m, t, f)
        PROVE  ~raced /\ Apart'
    <2>1. /\ ~raced /\ cut' = cut /\ arg'[r][1] = m /\ pc[r] = "idle" /\ pc'[r] = "store"
          /\ \A o \in Reqs \ {r} : pc'[o] = pc[o] /\ arg'[o] = arg[o]
      BY <1>2 DEF StartUpload
    <2>2. \A o \in Reqs : /\ pc[o] \in Deleting => arg[o][1] # m
                          /\ pc[o] \notin Restoring
      BY <1>2 DEF StartUpload
    <2>. QED BY <2>1, <2>2 DEF Apart
  <1>3. ASSUME NEW r \in Reqs,
               StoreFile(r) \/ OpenCopy(r) \/ FillCopy(r) \/ AddDocument(r) \/ UploadFails(r)
        PROVE  ~raced /\ Apart'
    <2>1. /\ raced' = raced /\ cut' = cut /\ arg' = arg /\ pc[r] \in Uploading
          /\ pc'[r] \in Uploading \cup {"close"} /\ \A o \in Reqs \ {r} : pc'[o] = pc[o]
      BY <1>3 DEF StoreFile, OpenCopy, FillCopy, AddDocument, UploadFails
    <2>. QED BY <2>1 DEF Apart
  <1>4. ASSUME NEW r \in Reqs, NEW m \in Matters, StartDelete(r, m)
        PROVE  ~raced /\ Apart'
    <2>1. /\ ~raced /\ cut' = cut /\ m = arg'[r][1] /\ pc[r] = "idle" /\ pc'[r] = "delete"
          /\ \A o \in Reqs \ {r} : pc'[o] = pc[o] /\ arg'[o] = arg[o]
      BY <1>4 DEF StartDelete
    <2>2. \A o \in Reqs : /\ pc[o] \in Uploading \cup Deleting => arg[o][1] # m
                          /\ pc[o] \notin Restoring \cup {"backup", "walk"}
      BY <1>4 DEF StartDelete
    <2>. QED BY <2>1, <2>2 DEF Apart
  <1>5. ASSUME NEW r \in Reqs, DeleteRows(r) \/ Unlink(r)
        PROVE  ~raced /\ Apart'
    <2>1. /\ raced' = raced /\ cut' = cut /\ arg' = arg /\ pc[r] \in Deleting
          /\ pc'[r] \in {"unlink", "close"} /\ \A o \in Reqs \ {r} : pc'[o] = pc[o]
      BY <1>5 DEF DeleteRows, Unlink
    <2>. QED BY <2>1 DEF Apart
  <1>6. ASSUME NEW r \in Reqs, StartBackup(r) \/ WalkFiles(r)
        PROVE  ~raced /\ Apart'
    <2>1. CASE StartBackup(r)
      <3>1. /\ ~raced /\ cut' = cut /\ arg' = arg /\ pc'[r] = "backup"
            /\ \A o \in Reqs : pc[o] \notin Deleting \cup Restoring
            /\ \A o \in Reqs \ {r} : pc'[o] = pc[o]
        BY <2>1 DEF StartBackup
      <3>. QED BY <3>1 DEF Apart
    <2>2. CASE WalkFiles(r)
      <3>1. /\ ~raced /\ cut' = cut /\ arg' = arg /\ pc'[r] = "idle"
            /\ \A o \in Reqs \ {r} : pc'[o] = pc[o]
        BY <2>2 DEF WalkFiles
      <3>. QED BY <3>1 DEF Apart
    <2>. QED BY <1>6, <2>1, <2>2
  <1>7. ASSUME NEW r \in Reqs, StartRestore(r)
        PROVE  ~raced /\ Apart'
    <2>1. /\ ~raced /\ cut' = cut /\ arg' = arg /\ pc'[r] = "copy"
          /\ \A o \in Reqs \ {r} : pc'[o] = pc[o]
      BY <1>7 DEF StartRestore
    <2>2. \A o \in Reqs : pc[o] = "idle"
      <3>. SUFFICES ASSUME NEW o \in Reqs PROVE pc[o] = "idle"
        OBVIOUS
      <3>1. /\ o \notin At(Restoring \cup {"walk"})
            /\ o \notin At(Uploading \cup Deleting \cup {"backup", "close"})
        BY <1>7 DEF StartRestore
      <3>. QED BY <3>1
    <2>. QED BY <2>1, <2>2 DEF Apart
  <1>8. ASSUME NEW r \in Reqs, CopyDatabase(r) \/ MoveFiles(r) \/ WriteFile(r)
        PROVE  ~raced /\ Apart'
    BY <1>8 DEF CopyDatabase, MoveFiles, WriteFile, Apart
  <1>9. ASSUME NEW r \in Reqs, ReplaceDatabase(r)
        PROVE  ~raced /\ Apart'
    BY <1>9 DEF ReplaceDatabase, Apart
  <1>10. ASSUME NEW r \in Reqs, CloseStore(r)
         PROVE  ~raced /\ Apart'
    BY <1>10 DEF CloseStore, Apart
  <1>11. ASSUME Checkpoint \/ Crash
         PROVE  ~raced /\ Apart'
    <2>1. CASE Checkpoint
      BY <2>1 DEF Checkpoint, Apart
    <2>2. CASE Crash
      <3>1. ~raced /\ cut' = {} /\ \A o \in Reqs : pc'[o] = "idle"
        BY <2>2 DEF Crash
      <3>. QED BY <3>1 DEF Apart
    <2>. QED BY <1>11, <2>1, <2>2
  <1>. HIDE DEF Apart
  <1>. QED
    BY <1>1, <1>2, <1>3, <1>4, <1>5, <1>6, <1>7, <1>8, <1>9, <1>10, <1>11 DEF Next

LEMMA CalmStep ==
  ASSUME CalmInv, Next, ~raced'
  PROVE  Present' /\ (\A o \in Reqs : Holds(o)') /\ (lost' => LogLeft')
  <1>0. ~raced /\ Calm /\ Apart'
    BY ApartStep
  <1>. USE <1>0 DEF CalmInv, TypeOK, ReqOK, Calm, Goto, Begin, disk, locals, others, marks, LogLeft
  <1>. DEFINE Kept == Present' /\ (\A o \in Reqs : Holds(o)') /\ (lost' => LogLeft')
  <1>1. ASSUME NEW m \in Matters, CreateMatter(m)
        PROVE  Kept
    <2>1. Named(db') = Named(db)
      BY <1>1, NewNames DEF CreateMatter, DiskOK
    <2>2. \A o \in Reqs : pc[o] \notin Restoring
      BY <1>1 DEF CreateMatter, Overlap, At
    <2>. QED BY <1>1, <2>1, <2>2 DEF CreateMatter, Present, Holds, Path
  <1>2. ASSUME NEW r \in Reqs, NEW m \in Matters, NEW t \in Titles, NEW f \in Files,
               StartUpload(r, m, t, f)
        PROVE  Kept
    BY <1>2 DEF StartUpload, Present, Holds, Path
  <1>3. ASSUME NEW r \in Reqs, StoreFile(r) \/ OpenCopy(r) \/ FillCopy(r) \/ UploadFails(r)
        PROVE  Kept
    <2>1. CASE StoreFile(r)
      <3>1. /\ \A o \in Reqs \ {r} : pc'[o] = pc[o]
            /\ pc'[r] \in {"add", "open"} /\ (pc'[r] = "add" => Path(r) \in files)
            /\ pc[r] = "store"
            /\ UNCHANGED <<db, main, files, arg, todo, seen, backup, env, lost, crashed>>
        BY <2>1 DEF StoreFile
      <3>. QED BY <3>1 DEF Present, Holds, Path
    <2>2. CASE OpenCopy(r)
      BY <2>2 DEF OpenCopy, Present, Holds, Path
    <2>3. CASE FillCopy(r)
      BY <2>3 DEF FillCopy, Present, Holds, Path
    <2>4. CASE UploadFails(r)
      BY <2>4 DEF UploadFails, Present, Holds, Path
    <2>. QED BY <1>3, <2>1, <2>2, <2>3, <2>4
  <1>4. ASSUME NEW r \in Reqs, AddDocument(r)
        PROVE  Kept
    <2>1. /\ Path(r) \in files /\ cut = {}
          /\ \A o \in Reqs : pc[o] \notin Restoring
          /\ \A o \in Reqs : pc[o] \in Deleting => Path(r)[1] # arg[o][1]
      BY <1>4 DEF AddDocument, Apart, Holds, Path
    <2>2. Named(db') \subseteq Named(db) \cup {Path(r)}
      BY <1>4, <2>1, WithDocumentType DEF AddDocument, Commit
    <2>3. /\ pc'[r] = "close" /\ \A o \in Reqs \ {r} : pc'[o] = pc[o]
          /\ UNCHANGED <<files, arg, todo, seen, backup, env, lost, crashed>>
      BY <1>4 DEF AddDocument
    <2>4. Present' /\ (lost' => LogLeft')
      BY <2>1, <2>2, <2>3 DEF Present
    <2>5. \A o \in Reqs : Holds(o)'
      BY <2>1, <2>2, <2>3 DEF Holds, Path
    <2>. QED BY <2>4, <2>5
  <1>5. ASSUME NEW r \in Reqs, NEW m \in Matters, StartDelete(r, m)
        PROVE  Kept
    BY <1>5 DEF StartDelete, Present, Holds, Path
  <1>6. ASSUME NEW r \in Reqs, DeleteRows(r)
        PROVE  Kept
    <2>1. /\ cut = {} /\ arg[r][1] \in Matters
          /\ \A o \in Reqs : pc[o] \notin Restoring
      BY <1>6 DEF DeleteRows, Apart
    <2>2. \/ db' = db /\ pc'[r] = "close"
          \/ Named(db') = {p \in Named(db) : p[1] # arg[r][1]} /\ pc'[r] = "unlink"
      <3>1. Named([db EXCEPT ![arg[r][1]] = Gone]) = {p \in Named(db) : p[1] # arg[r][1]}
        <4>1. PICK m \in Matters : m = arg[r][1]
          BY <2>1
        <4>2. db \in Databases
          BY DEF DiskOK
        <4>. QED BY <4>1, <4>2, DeletedNames
      <3>. QED BY <1>6, <2>1, <3>1 DEF DeleteRows, Commit
    <2>3. /\ \A o \in Reqs \ {r} : pc'[o] = pc[o] /\ todo'[o] = todo[o]
          /\ todo'[r] \subseteq todo[r]
          /\ UNCHANGED <<files, arg, seen, backup, env, lost, crashed>>
      BY <1>6 DEF DeleteRows
    <2>4. \A p \in todo'[r] : p[1] = arg[r][1]
      BY <1>6, <2>3 DEF DeleteRows, Holds
    <2>. QED BY <2>1, <2>2, <2>3, <2>4 DEF Present, Holds, Path
  <1>7. ASSUME NEW r \in Reqs, Unlink(r)
        PROVE  Kept
    <2>1. /\ \A p \in todo[r] : p[1] = arg[r][1]
          /\ \A p \in Named(db) : p[1] # arg[r][1]
          /\ \A o \in Reqs : pc[o] \notin Restoring \cup {"backup", "walk"}
      BY <1>7 DEF Unlink, Apart, Holds
    <2>2. \A o \in Reqs : pc[o] \in {"fill", "add"} => Path(o)[1] # arg[r][1]
      <3>1. \A o \in Reqs : pc[o] \in {"fill", "add"} => o # r /\ arg[o][1] # arg[r][1]
        BY <1>7 DEF Unlink, Apart
      <3>. QED BY <3>1 DEF Path
    <2>3. /\ \A p \in files : p[1] # arg[r][1] => p \in files'
          /\ \A o \in Reqs : pc'[o] = pc[o] \/ (o = r /\ pc'[o] = "close")
          /\ \A o \in Reqs : todo'[o] \subseteq todo[o]
          /\ UNCHANGED <<db, main, arg, seen, backup, env, lost, crashed>>
      BY <1>7, <2>1 DEF Unlink
    <2>4. Present' /\ (lost' => LogLeft')
      BY <2>1, <2>3 DEF Present
    <2>5. \A o \in Reqs : Holds(o)'
      BY <2>1, <2>2, <2>3 DEF Holds, Path
    <2>. QED BY <2>4, <2>5
  <1>8. ASSUME NEW r \in Reqs, StartBackup(r)
        PROVE  Kept
    <2>1. \A o \in Reqs : pc[o] \notin Restoring
      BY <1>8 DEF StartBackup, Overlap, At
    <2>. QED BY <1>8, <2>1 DEF StartBackup, Present, Holds, Path
  <1>9. ASSUME NEW r \in Reqs, WalkFiles(r)
        PROVE  Kept
    <2>1. \A o \in Reqs : pc[o] \notin Restoring
      BY <1>9 DEF WalkFiles, Apart
    <2>. QED BY <1>9, <2>1 DEF WalkFiles, Present, Holds, Path
  <1>10. ASSUME NEW r \in Reqs, StartRestore(r)
         PROVE  Kept
    <2>1. Connected = {} /\ \A o \in Reqs : pc[o] \notin Restoring
      BY <1>10 DEF StartRestore, Overlap, At
    <2>2. main' = db \/ LogLeft
      BY <1>10, <2>1 DEF StartRestore, Checkpointed, DiskOK
    <2>3. /\ pc'[r] = "copy" /\ UNCHANGED <<db, files, todo, seen, arg, backup, env, lost, crashed>>
          /\ \A o \in Reqs \ {r} : pc'[o] = pc[o]
      BY <1>10 DEF StartRestore
    <2>4. Present' /\ (lost' => LogLeft')
      BY <2>1, <2>3 DEF Present
    <2>5. \A o \in Reqs : Holds(o)'
      BY <2>1, <2>2, <2>3 DEF Holds, Path
    <2>. QED BY <2>4, <2>5
  <1>11. ASSUME NEW r \in Reqs, CopyDatabase(r)
         PROVE  Kept
    BY <1>11 DEF CopyDatabase, Present, Holds, Path
  <1>12. ASSUME NEW r \in Reqs, ReplaceDatabase(r)
         PROVE  Kept
    <2>1. (seen[r] = db \/ LogLeft) /\ \A o \in Reqs : o # r => pc[o] = "idle"
      BY <1>12 DEF ReplaceDatabase, Apart, Holds
    <2>2. /\ db' = backup.db /\ pc'[r] = "files" /\ UNCHANGED <<backup, arg, files, env, crashed>>
          /\ lost' => lost \/ LogLeft
          /\ \A o \in Reqs : o # r => pc'[o] = "idle"
      BY <1>12, <2>1 DEF ReplaceDatabase, DiskOK
    <2>. QED BY <2>2 DEF Present, Holds
  <1>13. ASSUME NEW r \in Reqs, MoveFiles(r) \/ WriteFile(r)
         PROVE  Kept
    <2>1. \A o \in Reqs : o # r => pc[o] = "idle" /\ pc'[o] = "idle"
      BY <1>13 DEF MoveFiles, WriteFile, Apart
    <2>2. CASE MoveFiles(r)
      <3>1. pc'[r] = "write" /\ todo'[r] = backup.files /\ UNCHANGED <<db, backup, env, lost, crashed>>
        BY <2>2 DEF MoveFiles
      <3>2. Named(db) \subseteq backup.files
        BY <2>2 DEF MoveFiles, Holds
      <3>. QED BY <2>1, <3>1, <3>2 DEF Present, Holds
    <2>3. CASE WriteFile(r)
      <3>1. Named(db) \subseteq files \cup todo[r] /\ UNCHANGED <<db, backup, env, lost, crashed>>
        BY <2>3 DEF WriteFile, Holds
      <3>2. \/ pc'[r] = "write" /\ files \cup todo[r] \subseteq files' \cup todo'[r]
            \/ pc'[r] = "idle" /\ files' = files /\ todo[r] = {}
        BY <2>3 DEF WriteFile
      <3>. QED BY <2>1, <3>1, <3>2 DEF Present, Holds
    <2>. QED BY <1>13, <2>2, <2>3
  <1>14. ASSUME NEW r \in Reqs, CloseStore(r)
         PROVE  Kept
    <2>1. cut = {} /\ \A o \in Reqs : pc[o] \notin Restoring
      BY <1>14 DEF CloseStore, Apart
    <2>2. /\ UNCHANGED <<db, files, todo, seen, backup, env, lost, crashed>>
          /\ pc'[r] = IF pc[r] = "backup" THEN "walk" ELSE "idle"
          /\ \A o \in Reqs \ {r} : pc'[o] = pc[o] /\ arg'[o] = arg[o]
      BY <1>14, <2>1 DEF CloseStore, Close
    <2>3. Present'
      BY <2>1, <2>2 DEF Present
    <2>4. Holds(r)'
      BY <2>2 DEF Holds
    <2>5. ASSUME NEW o \in Reqs, o # r
          PROVE  Holds(o)'
      <3>1. pc'[o] = pc[o] /\ arg'[o] = arg[o] /\ pc[o] \notin Restoring /\ Holds(o)
        BY <2>1, <2>2, <2>5
      <3>. QED BY <2>2, <3>1 DEF Holds, Path
    <2>. QED BY <2>2, <2>3, <2>4, <2>5
  <1>15. ASSUME Checkpoint
         PROVE  Kept
    BY <1>15 DEF Checkpoint, Present, Holds, Path
  <1>16. ASSUME Crash
         PROVE  Kept
    <2>1. \A o \in Reqs : pc[o] \notin {"files", "write"}
      BY <1>16 DEF Crash, Overlap, At
    <2>2. /\ UNCHANGED <<db, files, backup, env, lost>> /\ crashed'
          /\ \A o \in Reqs : pc'[o] = "idle"
      BY <1>16 DEF Crash
    <2>3. Present' /\ (lost' => LogLeft')
      BY <2>1, <2>2 DEF Present
    <2>4. \A o \in Reqs : Holds(o)'
      BY <2>2 DEF Holds
    <2>. QED BY <2>3, <2>4
  <1>. HIDE DEF Goto, Begin, disk, locals, others, marks, ReqOK, Calm, Kept
  <1>17. Kept
    BY <1>1, <1>2, <1>3, <1>4, <1>5, <1>6, <1>7, <1>8, <1>9, <1>10, <1>11, <1>12, <1>13,
       <1>14, <1>15, <1>16 DEF Next
  <1>. QED BY <1>17 DEF Kept

\* Whoever closes last copies the log into the file.
LEMMA CheckpointStep ==
  ASSUME CalmInv, Next, ~raced'
  PROVE  Checkpointed'
  <1>0. ~raced /\ Calm
    BY ApartStep
  <1>. USE <1>0 DEF CalmInv, TypeOK, ReqOK, Goto, Begin, disk, locals, others, marks, At, Connected
  <1>1. Checkpointed /\ cut = {}
    BY DEF Calm, Apart
  <1>2. CASE \E m \in Matters : CreateMatter(m)
    BY <1>1, <1>2 DEF CreateMatter, Checkpointed
  <1>3. ASSUME NEW r \in Reqs, NEW m \in Matters, NEW t \in Titles, NEW f \in Files,
               StartUpload(r, m, t, f)
        PROVE  Checkpointed'
    BY <1>1, <1>3 DEF StartUpload, Checkpointed
  <1>4. ASSUME NEW r \in Reqs, NEW m \in Matters, StartDelete(r, m)
        PROVE  Checkpointed'
    BY <1>1, <1>4 DEF StartDelete, Checkpointed
  <1>5. ASSUME NEW r \in Reqs,
               \/ StoreFile(r) \/ OpenCopy(r) \/ FillCopy(r) \/ AddDocument(r) \/ UploadFails(r)
               \/ DeleteRows(r) \/ Unlink(r) \/ StartBackup(r)
        PROVE  Checkpointed'
    <2>1. pc'[r] \in Uploading \cup Deleting \cup {"backup", "close"}
      BY <1>5 DEF StoreFile, OpenCopy, FillCopy, AddDocument, UploadFails, DeleteRows, Unlink, StartBackup
    <2>2. Connected' # {}
      BY <2>1
    <2>. QED BY <2>2 DEF Checkpointed
  <1>6. ASSUME NEW r \in Reqs, WalkFiles(r) \/ CopyDatabase(r) \/ MoveFiles(r) \/ WriteFile(r)
        PROVE  Checkpointed'
    <2>1. /\ pc[r] \notin Uploading \cup Deleting \cup {"backup", "close"}
          /\ UNCHANGED <<db, main, crashed>> /\ \A o \in Reqs \ {r} : pc'[o] = pc[o]
      BY <1>6 DEF WalkFiles, CopyDatabase, MoveFiles, WriteFile
    <2>2. Connected \subseteq Connected'
      BY <2>1
    <2>. QED BY <1>1, <2>1, <2>2 DEF Checkpointed
  <1>7. ASSUME NEW r \in Reqs, StartRestore(r)
        PROVE  Checkpointed'
    <2>1. /\ pc[r] = "idle" /\ UNCHANGED <<db, crashed>> /\ \A o \in Reqs \ {r} : pc'[o] = pc[o]
          /\ main' = main \/ main' = db
      BY <1>7 DEF StartRestore
    <2>2. Connected \subseteq Connected'
      BY <2>1
    <2>. QED BY <1>1, <2>1, <2>2 DEF Checkpointed
  <1>8. ASSUME NEW r \in Reqs, ReplaceDatabase(r)
        PROVE  Checkpointed'
    BY <1>8 DEF ReplaceDatabase, Checkpointed
  <1>9. ASSUME NEW r \in Reqs, CloseStore(r)
        PROVE  Checkpointed'
    <2>1. /\ db' = db /\ main' = (IF Connected \ {r} # {} THEN main ELSE db)
          /\ \A o \in Reqs \ {r} : pc'[o] = pc[o]
      BY <1>1, <1>9 DEF CloseStore, Close
    <2>2. Connected \ {r} \subseteq Connected'
      BY <2>1
    <2>. QED BY <2>1, <2>2 DEF Checkpointed
  <1>10. CASE Checkpoint \/ Crash
    BY <1>10 DEF Checkpoint, Crash, Checkpointed
  <1>. HIDE DEF CalmInv, TypeOK, ReqOK, Connected
  <1>. QED
    BY <1>2, <1>3, <1>4, <1>5, <1>6, <1>7, <1>8, <1>9, <1>10 DEF Next

LEMMA CalmInvariant == Spec => []CalmInv
  <1>1. Init => CalmInv
    BY InitType, EmptyType DEF Init, CalmInv, Calm, Apart, Present, Checkpointed, Holds
  <1>2. CalmInv /\ [Next]_vars => CalmInv'
    <2>1. ASSUME CalmInv, UNCHANGED vars
          PROVE  CalmInv'
      BY <2>1, NextType
         DEF CalmInv, Calm, Apart, Present, Checkpointed, Connected, At, LogLeft, Holds, Path, vars
    <2>. QED BY <2>1, NextType, ApartStep, CalmStep, CheckpointStep DEF CalmInv, Calm
  <1>. QED BY <1>1, <1>2, PTL DEF Spec

\* Unless a deletion or a restore overlaps with another request, no document is
\* without its file, before and after a crash, a backup and a restore; and no
\* file is incomplete unless a copy was stopped half-way.
THEOREM DocumentsHaveFiles == Spec => []RowsHaveFiles
  <1>1. CalmInv /\ Complete => RowsHaveFiles
    <2>1. Complete /\ ~broken /\ At({"fill"}) = {} => Torn = {}
      BY DEF Complete, Writers, Torn, At, TypeOK, DiskOK
    <2>. QED BY <2>1 DEF CalmInv, Calm, Present, RowsHaveFiles, At
  <1>. QED BY <1>1, CalmInvariant, CompleteInvariant, PTL

\* A restore that overlaps with nothing has copied all that was committed, unless
\* the password is in the environment and the process has crashed before.
THEOREM RestoreCopiesAll == Spec => []PreRestoreIsWhole
  <1>1. CalmInv => PreRestoreIsWhole
    BY DEF CalmInv, Calm, LogLeft, PreRestoreIsWhole
  <1>. QED BY <1>1, CalmInvariant, PTL
=============================================================================
