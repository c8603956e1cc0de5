-------------------------- MODULE MatterDocs_proofs -------------------------
(***************************************************************************)
(* Proofs about MatterDocs, for every number of matters, documents, texts, *)
(* folders, edits and concurrent requests.                                 *)
(***************************************************************************)
EXTENDS MatterDocs, TLAPS

\* What a request holds at each point of its code: the document once there is
\* one, a text once the row has been read, a folder to move it to.
RequestOK ==
  \A c \in Conns :
    /\ pc[c] \in {"row", "list", "snapshot", "number", "write", "assign"} => arg[c].doc \in Docs
    /\ pc[c] \in {"list", "snapshot", "number", "write"} => row[c].text \in Texts
    /\ Snapping(c) => pc[c] \in {"number", "write"} /\ snap[c].text \in Texts
    /\ pc[c] = "number" => Snapping(c)
    /\ pc[c] = "mark" => arg[c].edit \in Edits
    /\ pc[c] = "assign" => arg[c].folder \in FolderVal

TypeInv == TypeOK /\ RequestOK

USE IdsAssumption, BoundAssumption

\* Every initial state, legacy documents included, is well typed.
LEMMA TypeInit == Init => TypeInv
<1> SUFFICES ASSUME Init PROVE TypeInv
  OBVIOUS
<1>1. content \in [Docs -> TextVal] /\ facts \in [Docs -> TextVal]
  BY DEF Init, TextVal
<1>2. /\ versions \in [Docs -> Seq(Version)]
      /\ folder \in [Docs -> FolderVal]
      /\ edits \in [Edits -> EditRow \cup {NoEdit}]
  BY DEF Init, FolderVal
<1>3. /\ arg \in [Conns -> Arguments]
      /\ row \in [Conns -> [text : TextVal, folder : FolderVal]]
      /\ snap \in [Conns -> [number : Nat, text : TextVal, folder : FolderVal]]
  BY DEF Init, Arguments, NoArg, NoRow, NoSnap, TextVal, FolderVal
<1>4. RequestOK
  BY DEF Init, RequestOK, Snapping
<1> QED
  BY <1>1, <1>2, <1>3, <1>4 DEF Init, TypeInv, TypeOK

\* The request part of the type invariant.
RequestType ==
  /\ pc \in [Conns -> {"idle", "row", "list", "snapshot", "number", "write", "mark", "assign"}]
  /\ arg \in [Conns -> Arguments]
  /\ row \in [Conns -> [text : TextVal, folder : FolderVal]]
  /\ snap \in [Conns -> [number : Nat, text : TextVal, folder : FolderVal]]
  /\ RequestOK

\* A request that ends, __exit__, leaves no argument, row or snapshot behind.
LEMMA FinishTyped ==
  ASSUME TypeInv, NEW c \in Conns, Finish(c)
  PROVE  RequestType'
<1>1. /\ NoArg \in Arguments
      /\ NoRow \in [text : TextVal, folder : FolderVal]
      /\ NoSnap \in [number : Nat, text : TextVal, folder : FolderVal]
  BY DEF Arguments, NoArg, NoRow, NoSnap, TextVal, FolderVal
<1> QED
  BY <1>1 DEF TypeInv, TypeOK, RequestOK, RequestType, Finish, Forget, Snapping

\* Going on to a later point of the code with what that point needs.
LEMMA GotoTyped ==
  ASSUME TypeInv, NEW c \in Conns, NEW p, Goto(c, p),
         \/ p = "snapshot" /\ pc[c] = "list"
         \/ p = "write" /\ pc[c] \in {"list", "snapshot"}
  PROVE  RequestType'
  BY DEF TypeInv, TypeOK, RequestOK, RequestType, Goto, Snapping

\* The caller of update_matter_document that goes on, to end or to mark the edit,
\* is well typed.
LEMMA AfterUpdateTyped ==
  ASSUME TypeInv, NEW c \in Conns, AfterUpdate(c)
  PROVE  RequestType'
<1>1. CASE arg[c].edit = Nil
  BY <1>1, FinishTyped DEF AfterUpdate
<1>2. CASE arg[c].edit # Nil
  <2>1. arg[c].edit \in Edits
    BY <1>2 DEF TypeInv, TypeOK, Arguments
  <2>2. /\ NoRow \in [text : TextVal, folder : FolderVal]
        /\ NoSnap \in [number : Nat, text : TextVal, folder : FolderVal]
    BY DEF NoRow, NoSnap, TextVal, FolderVal
  <2>3. /\ pc' = [pc EXCEPT ![c] = "mark"]
        /\ arg' = arg
        /\ row' = [row EXCEPT ![c] = NoRow]
        /\ snap' = [snap EXCEPT ![c] = NoSnap]
    BY <1>2 DEF AfterUpdate, Forget
  <2>4. RequestOK'
    BY <2>1, <2>3 DEF TypeInv, TypeOK, RequestOK, Snapping
  <2> QED
    BY <2>2, <2>3, <2>4 DEF TypeInv, TypeOK, RequestType
<1> QED BY <1>1, <1>2

\* So is a request after the folder check of update_matter_document.
LEMMA CheckFolderTyped ==
  ASSUME TypeInv, NEW c \in Conns, pc[c] \in {"list", "snapshot"}, CheckFolder(c)
  PROVE  RequestType'
  BY AfterUpdateTyped, GotoTyped DEF CheckFolder

\* A request that begins holds the arguments it was given and has read nothing.
LEMMA BeginTyped ==
  ASSUME TypeInv, NEW c \in Conns, NEW p \in {"row", "assign"}, NEW a \in Arguments,
         a.doc \in Docs, p = "assign" => a.folder \in FolderVal, Begin(c, p, a)
  PROVE  TypeInv'
  BY DEF TypeInv, TypeOK, RequestOK, Begin, Snapping, db

\* A step that leaves the tables alone and the requests well formed.
LEMMA TablesUnchanged ==
  ASSUME TypeInv, RequestType', UNCHANGED db
  PROVE  TypeInv'
  BY DEF TypeInv, TypeOK, RequestType, db

\* A step that leaves the requests alone.
LEMMA RequestsUnchanged ==
  ASSUME TypeInv, UNCHANGED req
  PROVE  RequestType'
  BY DEF TypeInv, TypeOK, RequestOK, RequestType, req, Snapping

\* Each entry point of update_matter_document and of a move begins so.
LEMMA StartTyped ==
  ASSUME TypeInv, NEW c \in Conns, Start(c)
  PROVE  TypeInv'
<1>1. ASSUME NEW d \in Docs, NEW t \in TextVal, NEW f \in FolderVal \cup {"keep"},
             StartUpdate(c, d, t, f)
      PROVE  TypeInv'
  <2> DEFINE a == [doc |-> d, edit |-> Nil, text |-> t, folder |-> f]
  <2>1. a \in Arguments /\ a.doc \in Docs
    BY DEF Arguments
  <2> HIDE DEF a
  <2> QED BY <1>1, <2>1, BeginTyped DEF StartUpdate, a
<1>2. ASSUME NEW d \in Docs, NEW i \in 1..Len(versions[d]), StartRestore(c, d, i)
      PROVE  TypeInv'
  <2> DEFINE a == [doc |-> d, edit |-> Nil, text |-> versions[d][i].content,
                   folder |-> versions[d][i].folder]
  <2>1. versions[d] \in Seq(Version)
    BY DEF TypeInv, TypeOK
  <2>2. versions[d][i] \in Version
    BY <2>1
  <2>3. a \in Arguments /\ a.doc \in Docs
    BY <2>2 DEF Arguments, Version, TextVal
  <2> HIDE DEF a
  <2> QED BY <1>2, <2>3, BeginTyped DEF StartRestore, a
<1>3. ASSUME NEW e \in Edits, StartApply(c, e)
      PROVE  TypeInv'
  <2> DEFINE a == [doc |-> edits[e].doc, edit |-> e, text |-> edits[e].revised,
                   folder |-> "keep"]
  <2>1. edits[e] \in EditRow
    BY <1>3 DEF TypeInv, TypeOK, StartApply, NoEdit
  <2>2. a \in Arguments /\ a.doc \in Docs
    BY <2>1 DEF Arguments, EditRow, TextVal
  <2> HIDE DEF a
  <2> QED BY <1>3, <2>2, BeginTyped DEF StartApply, a
<1>4. ASSUME NEW d \in Docs, NEW f \in FolderVal, StartAssign(c, d, f)
      PROVE  TypeInv'
  <2> DEFINE a == [doc |-> d, edit |-> Nil, text |-> Nil, folder |-> f]
  <2>1. a \in Arguments /\ a.doc \in Docs /\ a.folder \in FolderVal
    BY DEF Arguments, TextVal
  <2> HIDE DEF a
  <2> QED BY <1>4, <2>1, BeginTyped DEF StartAssign, a
<1> QED BY <1>1, <1>2, <1>3, <1>4 DEF Start

\* Each later step of a request, transactions included, keeps tables and request
\* typed.
LEMMA StepTyped ==
  ASSUME TypeInv, NEW c \in Conns, Step(c)
  PROVE  TypeInv'
<1> DEFINE d == arg[c].doc
<1>1. /\ arg[c] \in Arguments
      /\ row[c] \in [text : TextVal, folder : FolderVal]
      /\ snap[c] \in [number : Nat, text : TextVal, folder : FolderVal]
  BY DEF TypeInv, TypeOK
<1>2. CASE ReadRow(c)
  <2>1. d \in Docs /\ pc[c] = "row" /\ UNCHANGED db
    BY <1>2 DEF ReadRow, TypeInv, RequestOK
  <2>2. CASE ~Exists(d)
    BY <1>2, <2>1, <2>2, AfterUpdateTyped, TablesUnchanged DEF ReadRow
  <2>3. CASE Exists(d)
    <3>1. content[d] \in Texts /\ folder[d] \in FolderVal
      BY <2>1, <2>3 DEF TypeInv, TypeOK, Exists, TextVal
    <3> DEFINE r == [text |-> content[d], folder |-> folder[d]]
    <3>2. r \in [text : TextVal, folder : FolderVal] /\ r.text \in Texts
      BY <3>1 DEF TextVal
    <3>3. /\ pc' = [pc EXCEPT ![c] = "list"]
          /\ row' = [row EXCEPT ![c] = r]
          /\ UNCHANGED <<arg, snap>>
      BY <1>2, <2>3 DEF ReadRow
    <3> HIDE DEF r, d
    <3>4. RequestType'
      BY <2>1, <3>2, <3>3 DEF TypeInv, TypeOK, RequestOK, RequestType, Snapping, d
    <3> QED BY <2>1, <3>4, TablesUnchanged
  <2> QED BY <2>2, <2>3
<1>3. CASE ListVersions(c)
  <2>1. pc[c] = "list" /\ UNCHANGED db
    BY <1>3 DEF ListVersions
  <2>2. RequestType'
    BY <1>3, <2>1, CheckFolderTyped, GotoTyped DEF ListVersions
  <2> QED BY <2>1, <2>2, TablesUnchanged
<1>4. CASE ReadForSnapshot(c)
  <2>1. d \in Docs /\ pc[c] = "snapshot" /\ UNCHANGED db
    BY <1>4 DEF ReadForSnapshot, TypeInv, RequestOK
  <2>2. CASE ~Exists(d)
    BY <1>4, <2>1, <2>2, CheckFolderTyped, TablesUnchanged DEF ReadForSnapshot
  <2>3. CASE Exists(d)
    <3>1. content[d] \in Texts /\ folder[d] \in FolderVal
      BY <2>1, <2>3 DEF TypeInv, TypeOK, Exists, TextVal
    <3> DEFINE s == [number |-> 0, text |-> content[d], folder |-> folder[d]]
    <3>2. /\ s \in [number : Nat, text : TextVal, folder : FolderVal]
          /\ s.text \in Texts /\ s # NoSnap
      BY <3>1 DEF TextVal, NoSnap
    <3>3. /\ pc' = [pc EXCEPT ![c] = "number"]
          /\ snap' = [snap EXCEPT ![c] = s]
          /\ UNCHANGED <<arg, row>>
      BY <1>4, <2>3 DEF ReadForSnapshot
    <3> HIDE DEF s, d
    <3>4. RequestType'
      BY <2>1, <3>2, <3>3 DEF TypeInv, TypeOK, RequestOK, RequestType, Snapping, d
    <3> QED BY <2>1, <3>4, TablesUnchanged
  <2> QED BY <2>2, <2>3
<1>4a. CASE ReadNumber(c)
  <2>1. /\ d \in Docs /\ pc[c] = "number" /\ snap[c].text \in Texts
        /\ UNCHANGED db
    BY <1>4a DEF ReadNumber, TypeInv, RequestOK, db
  <2> DEFINE s == [snap[c] EXCEPT !.number = Len(versions[d]) + 1]
  <2>2. Len(versions[d]) + 1 \in Nat
    BY <2>1 DEF TypeInv, TypeOK
  <2>3. s \in [number : Nat, text : TextVal, folder : FolderVal] /\ s.text \in Texts
    BY <1>1, <2>1, <2>2
  <2>4. /\ pc' = [pc EXCEPT ![c] = "write"]
        /\ snap' = [snap EXCEPT ![c] = s]
        /\ UNCHANGED <<arg, row>>
    BY <1>4a DEF ReadNumber
  <2> HIDE DEF s, d
  <2>5. RequestType'
    BY <2>1, <2>3, <2>4 DEF TypeInv, TypeOK, RequestOK, RequestType, Snapping, d
  <2> QED BY <2>1, <2>5, TablesUnchanged
<1>5. CASE SnapshotFails(c)
  BY <1>5, FinishTyped, TablesUnchanged DEF SnapshotFails
<1>6. CASE WriteNothing(c)
  BY <1>6, AfterUpdateTyped, TablesUnchanged DEF WriteNothing
<1>7. ASSUME NEW e \in Edits
      PROVE  Marked(e) \in [Edits -> EditRow \cup {NoEdit}]
  <2>1. CASE edits[e] = NoEdit
    BY <2>1 DEF Marked, TypeInv, TypeOK
  <2>2. CASE edits[e] # NoEdit
    <3>1. edits[e] \in EditRow
      BY <2>2 DEF TypeInv, TypeOK
    <3>2. [edits[e] EXCEPT !.status = "applied"] \in EditRow
      BY <3>1 DEF EditRow
    <3> QED BY <2>2, <3>2 DEF Marked, TypeInv, TypeOK
  <2> QED BY <2>1, <2>2
<1>8. ASSUME d \in Docs, pc[c] = "write" PROVE Snapshotted(c) \in Seq(Version)
  <2>1. versions[d] \in Seq(Version)
    BY <1>8 DEF TypeInv, TypeOK
  <2>2. CASE Snapping(c)
    <3> DEFINE v == [content |-> snap[c].text, folder |-> snap[c].folder, edit |-> Nil]
    <3>1. v \in Version
      BY <1>1, <2>2 DEF TypeInv, RequestOK, Version
    <3> HIDE DEF v
    <3>2. Snapshotted(c) = Append(versions[d], v)
      BY <2>2 DEF Snapshotted, AddVersion, v
    <3> QED BY <2>1, <3>1, <3>2
  <2> QED BY <2>1, <2>2 DEF Snapshotted
<1>9. CASE WriteRefused(c)
  <2>1. d \in Docs /\ pc[c] = "write"
    BY <1>9 DEF WriteRefused, TypeInv, RequestOK
  <2>2. RequestType'
    BY <1>9, FinishTyped DEF WriteRefused
  <2>3. arg[c].edit # Nil => arg[c].edit \in Edits
    BY <1>1 DEF Arguments
  <2>4. /\ versions' \in [Docs -> Seq(Version)]
        /\ edits' \in [Edits -> EditRow \cup {NoEdit}]
    <3>1. CASE arg[c].edit = Nil
      BY <1>9, <3>1 DEF WriteRefused, TypeInv, TypeOK
    <3>2. CASE arg[c].edit # Nil
      <4>1. Snapshotted(c) \in Seq(Version)
        BY <2>1, <1>8
      <4>2. versions' = [versions EXCEPT ![d] = Snapshotted(c)] /\ edits' = Marked(arg[c].edit)
        BY <1>9, <3>2 DEF WriteRefused
      <4>3. Marked(arg[c].edit) \in [Edits -> EditRow \cup {NoEdit}]
        BY <3>2, <2>3, <1>7
      <4> QED BY <4>1, <4>2, <4>3 DEF TypeInv, TypeOK
    <3> QED BY <3>1, <3>2
  <2> QED
    BY <1>9, <2>2, <2>4 DEF WriteRefused, TypeInv, TypeOK, RequestType
<1>10. CASE WriteRow(c)
  <2>1. d \in Docs /\ pc[c] = "write" /\ row[c].text \in Texts
    BY <1>10 DEF WriteRow, TypeInv, RequestOK
  <2>2. /\ WantedText(c) \in Texts
        /\ WantedFolder(c) \in FolderVal
    BY <1>1, <2>1 DEF WantedText, WantedFolder, Arguments, TextVal
  <2>3. RequestType'
    BY <1>10, AfterUpdateTyped DEF WriteRow
  <2> DEFINE v == [content |-> WantedText(c), folder |-> WantedFolder(c), edit |-> arg[c].edit]
  <2>4. v \in Version
    BY <1>1, <2>2 DEF Version, Arguments
  <2>5. Append(Snapshotted(c), v) \in Seq(Version)
    BY <2>1, <2>4, <1>8
  <2>6. versions' = [versions EXCEPT ![d] = Append(Snapshotted(c), v)]
    BY <1>10 DEF WriteRow, AddVersion
  <2>7. versions' \in [Docs -> Seq(Version)]
    BY <2>5, <2>6 DEF TypeInv, TypeOK
  <2>8. /\ content' \in [Docs -> TextVal]
        /\ folder' \in [Docs -> FolderVal]
        /\ facts' \in [Docs -> TextVal]
    BY <1>10, <2>2 DEF WriteRow, TypeInv, TypeOK, TextVal
  <2> QED
    BY <1>10, <2>3, <2>7, <2>8 DEF WriteRow, TypeInv, TypeOK, RequestType
<1>11. CASE MarkApplied(c)
  <2>1. arg[c].edit \in Edits
    BY <1>11 DEF MarkApplied, TypeInv, RequestOK
  <2>2. RequestType' /\ edits' \in [Edits -> EditRow \cup {NoEdit}]
    BY <1>11, <2>1, <1>7, FinishTyped DEF MarkApplied
  <2> QED
    BY <1>11, <2>2 DEF MarkApplied, TypeInv, TypeOK, RequestType
<1>12. CASE WriteAssign(c)
  <2>1. RequestType' /\ folder' \in [Docs -> FolderVal]
    BY <1>12, FinishTyped DEF WriteAssign, TypeInv, TypeOK, RequestOK
  <2> QED
    BY <1>12, <2>1 DEF WriteAssign, TypeInv, TypeOK, RequestType
<1> QED
  BY <1>2, <1>3, <1>4, <1>4a, <1>5, <1>6, <1>9, <1>10, <1>11, <1>12 DEF Step

\* So does each operation that is a single transaction.
LEMMA AtomicTyped ==
  ASSUME TypeInv, Atomic
  PROVE  TypeInv'
<1>1. ASSUME NEW m \in Matters, CreateMatter(m) \/ DeleteMatter(m)
      PROVE  TypeInv'
  <2>1. UNCHANGED req
    BY <1>1 DEF CreateMatter, DeleteMatter
  <2>2. CASE CreateMatter(m)
    BY <2>1, <2>2, RequestsUnchanged DEF CreateMatter, TypeInv, TypeOK, RequestType
  <2>3. CASE DeleteMatter(m)
    <3>1. versions' \in [Docs -> Seq(Version)]
      BY <2>3 DEF DeleteMatter, TypeInv, TypeOK
    <3>2. /\ content' \in [Docs -> TextVal]
          /\ folder' \in [Docs -> FolderVal]
          /\ facts' \in [Docs -> TextVal]
      BY <2>3 DEF DeleteMatter, TypeInv, TypeOK, TextVal, FolderVal
    <3>3. edits' \in [Edits -> EditRow \cup {NoEdit}]
      BY <2>3 DEF DeleteMatter, TypeInv, TypeOK
    <3> QED
      BY <2>1, <2>3, <3>1, <3>2, <3>3, RequestsUnchanged
      DEF DeleteMatter, TypeInv, TypeOK, RequestType
  <2> QED BY <1>1, <2>2, <2>3
<1>2. ASSUME NEW f \in Folders, CreateFolder(f)
      PROVE  TypeInv'
  BY <1>2, RequestsUnchanged DEF CreateFolder, TypeInv, TypeOK, RequestType
<1>3. ASSUME NEW d \in Docs, Ingest(d)
      PROVE  TypeInv'
  <2> DEFINE v == [content |-> Original[d], folder |-> Nil, edit |-> Nil]
  <2>1. v \in Version /\ Original[d] \in Texts
    BY DEF Version, FolderVal
  <2>2. versions' = [versions EXCEPT ![d] = Append(versions[d], v)]
    BY <1>3 DEF Ingest, AddVersion
  <2>3. versions[d] \in Seq(Version)
    BY DEF TypeInv, TypeOK
  <2> HIDE DEF v
  <2>4. versions' \in [Docs -> Seq(Version)]
    BY <2>1, <2>2, <2>3 DEF TypeInv, TypeOK
  <2>5. /\ content' \in [Docs -> TextVal]
        /\ folder' \in [Docs -> FolderVal]
        /\ facts' \in [Docs -> TextVal]
    BY <1>3, <2>1 DEF Ingest, TypeInv, TypeOK, TextVal, FolderVal
  <2> QED
    BY <1>3, <2>4, <2>5, RequestsUnchanged DEF Ingest, TypeInv, TypeOK, RequestType
<1>4. ASSUME NEW e \in Edits, NEW d \in Docs, NEW t \in Texts, CreateEdit(e, d, t)
      PROVE  TypeInv'
  <2>1. [doc |-> d, revised |-> t, status |-> "proposed"] \in EditRow
    BY DEF EditRow
  <2>2. edits' \in [Edits -> EditRow \cup {NoEdit}]
    BY <1>4, <2>1 DEF CreateEdit, TypeInv, TypeOK
  <2> QED
    BY <1>4, <2>2, RequestsUnchanged DEF CreateEdit, TypeInv, TypeOK, RequestType
<1> QED BY <1>1, <1>2, <1>3, <1>4 DEF Atomic

\* No step of any request, nor its loss, breaks the types.
LEMMA TypeStep == TypeInv /\ [Next]_vars => TypeInv'
<1> SUFFICES ASSUME TypeInv, [Next]_vars PROVE TypeInv'
  OBVIOUS
<1>1. CASE Atomic
  BY <1>1, AtomicTyped
<1>2. ASSUME NEW c \in Conns, Start(c) \/ Step(c) \/ Crash(c)
      PROVE  TypeInv'
  BY <1>2, StartTyped, StepTyped, FinishTyped, TablesUnchanged DEF Crash
<1>3. CASE UNCHANGED vars
  BY <1>3, RequestsUnchanged, TablesUnchanged DEF vars, req, db
<1> QED BY <1>1, <1>2, <1>3 DEF Next

\* Whatever the requests interleaved, deleted or lost, every row and every
\* pending request stays well formed.
THEOREM TypeCorrect == Spec => []TypeOK
<1>1. TypeInv => TypeOK
  BY DEF TypeInv
<1> QED BY <1>1, TypeInit, TypeStep, PTL DEF Spec

-----------------------------------------------------------------------------
(***************************************************************************)
(* No document is ever filed under a folder of another matter.  The        *)
(* invariant says it also of the folder a request has read or has checked  *)
(* and not written yet.                                                    *)
(***************************************************************************)
Own(f, d) == f = Nil \/ FolderMatter[f] = MatterOf[d]

FolderInv ==
  /\ \A d \in Docs : Own(folder[d], d)
  /\ \A c \in Conns :
       /\ pc[c] \in {"list", "snapshot", "number", "write"} => Own(row[c].folder, arg[c].doc)
       /\ pc[c] = "write" /\ ~Snapping(c) => Own(WantedFolder(c), arg[c].doc)
       /\ pc[c] = "assign" => Own(arg[c].folder, arg[c].doc)

\* A request that ends or goes on to mark its edit holds no folder any more.
LEMMA FolderEnds ==
  ASSUME TypeInv, FolderInv, NEW c \in Conns, Finish(c) \/ AfterUpdate(c),
         \A d \in Docs : Own(folder'[d], d)
  PROVE  FolderInv'
<1>1. \A k \in Conns : k # c =>
        /\ pc'[k] = pc[k] /\ arg'[k] = arg[k] /\ row'[k] = row[k] /\ snap'[k] = snap[k]
  BY DEF Finish, AfterUpdate, Forget, TypeInv, TypeOK
<1>2. pc'[c] \in {"idle", "mark"}
  BY DEF Finish, AfterUpdate, TypeInv, TypeOK
<1> QED BY <1>1, <1>2 DEF FolderInv, WantedFolder, Own, Snapping

\* The folder check of update_matter_document lets only folders of the document's
\* own matter through to the write.
LEMMA FolderChecked ==
  ASSUME TypeInv, FolderInv, NEW c \in Conns, pc[c] \in {"list", "snapshot"},
         CheckFolder(c), UNCHANGED db
  PROVE  FolderInv'
<1>1. CASE FolderFits(WantedFolder(c), arg[c].doc)
  <2>1. Own(WantedFolder(c), arg[c].doc)
    BY <1>1 DEF FolderFits, Own
  <2>2. pc' = [pc EXCEPT ![c] = "write"] /\ UNCHANGED <<arg, row, snap, folder>>
    BY <1>1 DEF CheckFolder, Goto, db
  <2> QED
    BY <2>1, <2>2 DEF FolderInv, Own, WantedFolder, Snapping, TypeInv, TypeOK
<1>2. CASE ~FolderFits(WantedFolder(c), arg[c].doc)
  BY <1>2, FolderEnds DEF CheckFolder, FolderInv, Own, db
<1> QED BY <1>1, <1>2

\* The folder a request is started with is unchecked, or has been checked.
LEMMA FolderStart ==
  ASSUME TypeInv, FolderInv, NEW c \in Conns, Start(c)
  PROVE  FolderInv'
<1>1. ASSUME NEW p \in {"row", "assign"}, NEW a, Begin(c, p, a),
             p = "assign" => Own(a.folder, a.doc)
      PROVE  FolderInv'
  BY <1>1 DEF Begin, FolderInv, Own, WantedFolder, Snapping, TypeInv, TypeOK, db
<1>2. ASSUME NEW d \in Docs, NEW f \in FolderVal, StartAssign(c, d, f)
      PROVE  FolderInv'
  <2> DEFINE a == [doc |-> d, edit |-> Nil, text |-> Nil, folder |-> f]
  <2>1. Begin(c, "assign", a) /\ Own(a.folder, a.doc)
    BY <1>2 DEF StartAssign, FolderFits, Own
  <2> HIDE DEF a
  <2> QED BY <1>1, <2>1
<1> QED
  BY <1>1, <1>2 DEF Start, StartUpdate, StartRestore, StartApply

\* No later step of a request writes a folder of another matter: what it writes
\* was read from the document, or checked.
LEMMA FolderStep ==
  ASSUME TypeInv, FolderInv, NEW c \in Conns, Step(c)
  PROVE  FolderInv'
<1> DEFINE d == arg[c].doc
<1>1. CASE ReadRow(c)
  <2>1. d \in Docs /\ UNCHANGED db
    BY <1>1 DEF ReadRow, TypeInv, RequestOK
  <2>2. CASE ~Exists(d)
    BY <1>1, <2>1, <2>2, FolderEnds DEF ReadRow, FolderInv, Own, db
  <2>3. CASE Exists(d)
    <3> DEFINE r == [text |-> content[d], folder |-> folder[d]]
    <3>1. /\ pc' = [pc EXCEPT ![c] = "list"]
          /\ row' = [row EXCEPT ![c] = r]
          /\ UNCHANGED <<arg, snap, folder>>
      BY <1>1, <2>1, <2>3 DEF ReadRow, db
    <3>2. Own(r.folder, d)
      BY <2>1 DEF FolderInv
    <3> HIDE DEF r, d
    <3> QED
      BY <3>1, <3>2 DEF FolderInv, Own, WantedFolder, Snapping, TypeInv, TypeOK, d
  <2> QED BY <2>2, <2>3
<1>2. CASE ListVersions(c)
  <2>1. pc[c] = "list" /\ UNCHANGED db
    BY <1>2 DEF ListVersions
  <2>2. CASE Goto(c, "snapshot")
    BY <2>1, <2>2 DEF Goto, FolderInv, Own, WantedFolder, Snapping, TypeInv, TypeOK, db
  <2>3. CASE CheckFolder(c)
    BY <2>1, <2>3, FolderChecked
  <2> QED BY <1>2, <2>2, <2>3 DEF ListVersions
<1>3. CASE ReadForSnapshot(c)
  <2>1. d \in Docs /\ pc[c] = "snapshot" /\ UNCHANGED db
    BY <1>3 DEF ReadForSnapshot, TypeInv, RequestOK
  <2>2. CASE ~Exists(d)
    BY <1>3, <2>1, <2>2, FolderChecked DEF ReadForSnapshot
  <2>3. CASE Exists(d)
    <3>1. /\ pc' = [pc EXCEPT ![c] = "number"]
          /\ UNCHANGED <<arg, row, folder>>
          /\ \A k \in Conns : k # c => snap'[k] = snap[k]
      BY <1>3, <2>1, <2>3 DEF ReadForSnapshot, TypeInv, TypeOK, db
    <3> HIDE DEF d
    <3> QED
      BY <2>1, <3>1 DEF FolderInv, Own, WantedFolder, Snapping, TypeInv, TypeOK
  <2> QED BY <2>2, <2>3
<1>3a. CASE ReadNumber(c)
  <2>1. /\ pc[c] = "number" /\ pc' = [pc EXCEPT ![c] = "write"]
        /\ UNCHANGED <<arg, row, folder>>
        /\ \A k \in Conns : k # c => snap'[k] = snap[k]
    BY <1>3a DEF ReadNumber, TypeInv, TypeOK, db
  <2>2. Snapping(c)'
    BY <1>3a DEF ReadNumber, Snapping, NoSnap, TypeInv, TypeOK, RequestOK
  <2> QED
    BY <2>1, <2>2 DEF FolderInv, Own, WantedFolder, Snapping, TypeInv, TypeOK
<1>4. CASE SnapshotFails(c) \/ WriteNothing(c) \/ WriteRefused(c) \/ MarkApplied(c)
  <2>1. (Finish(c) \/ AfterUpdate(c)) /\ folder' = folder
    BY <1>4 DEF SnapshotFails, WriteNothing, WriteRefused, MarkApplied, db
  <2> QED BY <2>1, FolderEnds DEF FolderInv
<1>5. CASE WriteRow(c)
  <2>1. d \in Docs /\ pc[c] = "write" /\ AfterUpdate(c)
    BY <1>5 DEF WriteRow, TypeInv, RequestOK
  <2>2. folder' = [folder EXCEPT ![d] = WantedFolder(c)]
    BY <1>5 DEF WriteRow
  <2>3. Own(WantedFolder(c), d)
    <3>1. CASE Snapping(c)
      BY <1>5, <3>1 DEF WriteRow, FolderFits, Own
    <3>2. CASE ~Snapping(c)
      BY <2>1, <3>2 DEF FolderInv
    <3> QED BY <3>1, <3>2
  <2>4. \A k \in Docs : Own(folder'[k], k)
    BY <2>1, <2>2, <2>3 DEF FolderInv, TypeInv, TypeOK
  <2> QED BY <2>1, <2>4, FolderEnds
<1>6. CASE WriteAssign(c)
  <2>1. d \in Docs /\ Own(arg[c].folder, d) /\ Finish(c)
    BY <1>6 DEF WriteAssign, TypeInv, RequestOK, FolderInv
  <2>2. \A k \in Docs : Own(folder'[k], k)
    BY <1>6, <2>1 DEF WriteAssign, FolderInv, TypeInv, TypeOK
  <2> QED BY <2>1, <2>2, FolderEnds
<1> QED BY <1>1, <1>2, <1>3, <1>3a, <1>4, <1>5, <1>6 DEF Step

\* No operation at all does.
LEMMA FolderNext == TypeInv /\ FolderInv /\ [Next]_vars => FolderInv'
<1> SUFFICES ASSUME TypeInv, FolderInv, [Next]_vars PROVE FolderInv'
  OBVIOUS
<1>1. ASSUME UNCHANGED req, \A d \in Docs : folder'[d] \in {Nil, folder[d]}
      PROVE  FolderInv'
  BY <1>1 DEF FolderInv, Own, WantedFolder, Snapping, req
<1>2. CASE Atomic
  <2>1. UNCHANGED req
    BY <1>2 DEF Atomic, CreateMatter, DeleteMatter, CreateFolder, Ingest, CreateEdit
  <2>2. \A d \in Docs : folder'[d] \in {Nil, folder[d]}
    BY <1>2 DEF Atomic, CreateMatter, DeleteMatter, CreateFolder, Ingest, CreateEdit,
                TypeInv, TypeOK
  <2> QED BY <1>1, <2>1, <2>2
<1>3. ASSUME NEW c \in Conns, Crash(c) PROVE FolderInv'
  BY <1>3, FolderEnds DEF Crash, FolderInv, db
<1>4. CASE UNCHANGED vars
  BY <1>1, <1>4 DEF vars, req
<1> QED BY <1>2, <1>3, <1>4, FolderStart, FolderStep DEF Next

\* However moves, restores, updates and deletions of matters interleave, a
\* document is in no folder or in one of its own matter.
THEOREM FolderSafety == Spec => []NoForeignFolder
<1>1. Init => FolderInv
  BY DEF Init, FolderInv, Own
<1>2. TypeInv /\ FolderInv => NoForeignFolder
  BY DEF FolderInv, NoForeignFolder, Own
<1> QED
  BY <1>1, <1>2, TypeInit, TypeStep, FolderNext, PTL DEF Spec

-----------------------------------------------------------------------------
(***************************************************************************)
(* The history of a document, when no matter is deleted under a request in *)
(* flight.  A request that has read its document still finds it; one that  *)
(* goes on without a snapshot finds versions; and one that goes on with a  *)
(* snapshot holds the current text, unless versions have come meanwhile:   *)
(* then its number may be taken, or be that of a newer one, but the        *)
(* current text is on record by then.                                      *)
(***************************************************************************)
RequestHistory(c) ==
  /\ pc[c] \in {"list", "snapshot", "number", "write"} => Exists(arg[c].doc)
  /\ pc[c] = "write" /\ ~Snapping(c) => versions[arg[c].doc] # << >>
  /\ Snapping(c) /\ versions[arg[c].doc] = << >> => snap[c].text = content[arg[c].doc]

HistoryInv ==
  /\ LastVersionIsText
  /\ \A d \in Docs : ~Exists(d) => versions[d] = << >>
  /\ \A d \in Docs : Exists(d) /\ versions[d] = << >> => content[d] = Original[d]
  /\ \A c \in Conns : RequestHistory(c)

\* What a step may do to the text and the versions of one document.
Kept(d) == content'[d] = content[d] /\ versions'[d] = versions[d]
Removed(d) == content'[d] = Nil /\ versions'[d] = << >>
Recorded1(d) ==
  \E v \in Version :
    /\ v.content = content'[d]
    /\ versions'[d] = Append(versions[d], v)
    /\ versions[d] = << >> /\ Exists(d) => v.content = content[d]
Recorded2(d) ==
  /\ Exists(d)
  /\ \E u, v \in Version :
       /\ v.content = content'[d]
       /\ versions[d] = << >> => u.content = content[d]
       /\ versions'[d] = Append(Append(versions[d], u), v)
Grown(d) == content'[d] \in Texts /\ (Recorded1(d) \/ Recorded2(d))

\* Growing keeps the newest version current.
LEMMA GrownIsCurrent ==
  ASSUME TypeInv, TypeInv', NEW d \in Docs, Grown(d)
  PROVE  /\ Exists(d)' /\ versions'[d] # << >>
         /\ versions'[d][Len(versions'[d])].content = content'[d]
         /\ Len(versions'[d]) > Len(versions[d])
<1>1. versions[d] \in Seq(Version) /\ content'[d] # Nil
  BY DEF TypeInv, TypeOK, Grown
<1>2. CASE Recorded1(d)
  <2>1. PICK v \in Version : v.content = content'[d] /\ versions'[d] = Append(versions[d], v)
    BY <1>2 DEF Recorded1
  <2>2. /\ Len(versions'[d]) = Len(versions[d]) + 1 /\ Len(versions[d]) \in Nat
        /\ versions'[d][Len(versions'[d])] = v
    BY ONLY <1>1, <2>1
  <2>3. versions'[d] # << >> /\ Len(versions'[d]) > Len(versions[d])
    BY ONLY <2>2
  <2> QED BY ONLY <1>1, <2>1, <2>2, <2>3 DEF Exists
<1>3. CASE Recorded2(d)
  <2>1. PICK u, v \in Version : /\ v.content = content'[d]
                                /\ versions'[d] = Append(Append(versions[d], u), v)
    BY <1>3 DEF Recorded2
  <2>2. /\ Len(versions'[d]) = Len(versions[d]) + 2 /\ Len(versions[d]) \in Nat
        /\ versions'[d][Len(versions'[d])] = v
    BY ONLY <1>1, <2>1
  <2>3. versions'[d] # << >> /\ Len(versions'[d]) > Len(versions[d])
    BY ONLY <2>2
  <2> QED BY ONLY <1>1, <2>1, <2>2, <2>3 DEF Exists
<1> QED BY <1>2, <1>3 DEF Grown

\* A step that changes the tables of documents only by keeping, growing and
\* removing those that no request is working on keeps the invariant, when the
\* requests are left alone or one of them ends.
LEMMA HistoryMoves ==
  ASSUME TypeInv, TypeInv', HistoryInv,
         \A d \in Docs : Kept(d) \/ Grown(d) \/ Removed(d),
         \A d \in Docs : Removed(d) =>
            Kept(d) \/ \A c \in Conns : arg[c].doc # d,
         UNCHANGED req \/ \E c \in Conns : Finish(c) \/ AfterUpdate(c)
  PROVE  HistoryInv'
<1>0. \A d \in Docs : Grown(d) =>
        /\ content'[d] # Nil
        /\ versions'[d] # << >>
        /\ Len(versions'[d]) > Len(versions[d])
  BY GrownIsCurrent DEF Exists
<1>1. ASSUME NEW d \in Docs
      PROVE  /\ Exists(d)' /\ versions'[d] # << >> =>
                  versions'[d][Len(versions'[d])].content = content'[d]
             /\ ~Exists(d)' => versions'[d] = << >>
             /\ Exists(d)' /\ versions'[d] = << >> => content'[d] = Original[d]
  BY GrownIsCurrent DEF HistoryInv, LastVersionIsText, Kept, Removed, Exists
<1>2. ASSUME NEW k \in Conns,
             pc'[k] = pc[k], arg'[k] = arg[k], row'[k] = row[k], snap'[k] = snap[k]
      PROVE  RequestHistory(k)'
  <2> DEFINE d == arg[k].doc
  <2>1. CASE pc[k] \notin {"list", "snapshot", "number", "write"}
    BY <1>2, <2>1 DEF TypeInv, RequestOK, Snapping, RequestHistory
  <2>2. CASE pc[k] \in {"list", "snapshot", "number", "write"}
    <3>1. d \in Docs /\ RequestHistory(k)
      BY <2>2 DEF TypeInv, RequestOK, HistoryInv
    <3>2. Exists(d) /\ (Kept(d) \/ Grown(d))
      BY <2>2, <3>1 DEF RequestHistory
    <3>3. CASE Kept(d)
      BY <1>2, <3>1, <3>3 DEF RequestHistory, Kept, Exists, Snapping
    <3>4. CASE Grown(d)
      <4>1. Exists(d)' /\ versions'[d] # << >>
        BY <1>0, <1>2, <3>1, <3>4 DEF Exists
      <4> QED BY <1>2, <4>1 DEF RequestHistory
    <3> QED BY <3>2, <3>3, <3>4
  <2> QED BY <2>1, <2>2
<1>3. ASSUME NEW k \in Conns, pc'[k] \in {"idle", "mark"}
      PROVE  RequestHistory(k)'
  BY <1>3 DEF TypeInv, RequestOK, Snapping, RequestHistory
<1>4. ASSUME NEW k \in Conns
      PROVE  \/ pc'[k] \in {"idle", "mark"}
             \/ pc'[k] = pc[k] /\ arg'[k] = arg[k] /\ row'[k] = row[k] /\ snap'[k] = snap[k]
  BY DEF req, Finish, AfterUpdate, Forget, TypeInv, TypeOK
<1>5. \A k \in Conns : RequestHistory(k)'
  BY <1>2, <1>3, <1>4
<1> QED
  BY <1>1, <1>5 DEF HistoryInv, LastVersionIsText, Exists

\* Every step keeps, grows or removes each document, and removes none that a
\* request is working on.
LEMMA AtomicMoves ==
  ASSUME TypeInv, TypeInv', HistoryInv, DeleteRaces = FALSE, Atomic
  PROVE  /\ UNCHANGED req
         /\ \A d \in Docs : Kept(d) \/ Grown(d) \/ Removed(d)
         /\ \A d \in Docs : Removed(d) => Kept(d) \/ \A c \in Conns : arg[c].doc # d
<1>1. ASSUME NEW m \in Matters, DeleteMatter(m), NEW d \in Docs
      PROVE  /\ Kept(d) \/ Removed(d)
             /\ Removed(d) => Kept(d) \/ \A c \in Conns : arg[c].doc # d
  <2>1. CASE MatterOf[d] = m
    BY <1>1, <2>1 DEF DeleteMatter, DocsOf, Removed
  <2>2. CASE MatterOf[d] # m
    BY <1>1, <2>2 DEF DeleteMatter, Kept
  <2> QED BY <2>1, <2>2
<1>2. ASSUME NEW k \in Docs, Ingest(k), NEW d \in Docs
      PROVE  Kept(d) \/ Grown(d)
  <2>1. CASE d # k
    BY <1>2, <2>1 DEF Ingest, Kept, TypeInv, TypeOK
  <2>2. CASE d = k
    <3> DEFINE v == [content |-> Original[d], folder |-> Nil, edit |-> Nil]
    <3>1. v \in Version /\ v.content = Original[d] /\ Original[d] \in Texts
      BY DEF Version, FolderVal
    <3>2. content'[d] = Original[d] /\ versions'[d] = Append(versions[d], v)
      BY <1>2, <2>2 DEF Ingest, AddVersion, TypeInv, TypeOK
    <3> HIDE DEF v
    <3> QED BY <3>1, <3>2 DEF Grown, Recorded1, HistoryInv
  <2> QED BY <2>1, <2>2
<1>3. ASSUME NEW d \in Docs, Grown(d) PROVE ~Removed(d)
  BY <1>3 DEF Grown, Removed
<1>4. ASSUME (\E m \in Matters : CreateMatter(m)) \/ (\E f \in Folders : CreateFolder(f))
             \/ (\E e \in Edits, d \in Docs, t \in Texts : CreateEdit(e, d, t)),
             NEW d \in Docs
      PROVE  Kept(d)
  BY <1>4 DEF CreateMatter, CreateFolder, CreateEdit, Kept
<1>5. UNCHANGED req
  BY DEF Atomic, CreateMatter, DeleteMatter, CreateFolder, Ingest, CreateEdit
<1> QED
  BY <1>1, <1>2, <1>3, <1>4, <1>5 DEF Atomic

\* An update that applies an edit keeps the folder, so its check is not refused:
\* EditNotRefused below, from what is known of folders.
NotRefused(c) == WriteRefused(c) => arg[c].edit = Nil

\* Each step of a request that writes a document leaves its text recorded by its
\* newest version.
LEMMA StepMoves ==
  ASSUME TypeInv, TypeInv', HistoryInv, NEW c \in Conns, Step(c), NotRefused(c)
  PROVE  \A d \in Docs : Kept(d) \/ Grown(d)
<1> SUFFICES ASSUME NEW d \in Docs PROVE Kept(d) \/ Grown(d)
  OBVIOUS
<1>1. CASE WriteRow(c)
  <2> DEFINE k == arg[c].doc
  <2>1. k \in Docs /\ pc[c] = "write" /\ row[c].text \in Texts /\ Exists(k)
    BY <1>1 DEF WriteRow, TypeInv, RequestOK
  <2>2. CASE d # k
    BY <1>1, <2>1, <2>2 DEF WriteRow, Kept, TypeInv, TypeOK
  <2>3. CASE d = k
    <3> DEFINE v == [content |-> WantedText(c), folder |-> WantedFolder(c), edit |-> arg[c].edit]
               u == [content |-> snap[c].text, folder |-> snap[c].folder, edit |-> Nil]
    <3>1. v \in Version /\ v.content = WantedText(c)
      BY <2>1 DEF TypeInv, TypeOK, Version, Arguments, WantedText, WantedFolder, TextVal
    <3>2. /\ content'[d] = WantedText(c)
          /\ versions'[d] = Append(Snapshotted(c), v)
      BY <1>1, <2>1, <2>3 DEF WriteRow, AddVersion, TypeInv, TypeOK
    <3>3. content'[d] \in Texts
      BY <2>1, <3>2 DEF TypeInv, TypeOK, Arguments, WantedText, TextVal
    <3>4. CASE ~Snapping(c)
      <4>1. Snapshotted(c) = versions[d] /\ versions[d] # << >>
        BY <2>1, <2>3, <3>4 DEF Snapshotted, HistoryInv, RequestHistory
      <4> HIDE DEF v
      <4>2. Recorded1(d)
        BY <3>1, <3>2, <4>1 DEF Recorded1
      <4> QED BY <3>3, <4>2 DEF Grown
    <3>5. CASE Snapping(c)
      <4>1. u \in Version /\ u.content = snap[c].text
        BY <2>1, <3>5 DEF TypeInv, TypeOK, RequestOK, Version
      <4>2. Snapshotted(c) = Append(versions[d], u)
        BY <2>3, <3>5 DEF Snapshotted, AddVersion
      <4>3. versions[d] = << >> => snap[c].text = content[d]
        BY <2>3, <3>5 DEF HistoryInv, RequestHistory
      <4> HIDE DEF u, v
      <4>4. Recorded2(d)
        <5>1. /\ Exists(d) /\ v.content = content'[d]
              /\ versions[d] = << >> => u.content = content[d]
          BY <2>1, <2>3, <3>1, <3>2, <4>1, <4>3
        <5>2. versions'[d] = Append(Append(versions[d], u), v)
          BY <3>2, <4>2
        <5> QED BY <3>1, <4>1, <5>1, <5>2 DEF Recorded2
      <4> QED BY <3>3, <4>4 DEF Grown
    <3> QED BY <3>4, <3>5
  <2> QED BY <2>2, <2>3
<1>2. CASE WriteRefused(c)
  BY <1>2 DEF WriteRefused, NotRefused, Kept
<1>3. CASE ReadRow(c) \/ ListVersions(c) \/ ReadForSnapshot(c) \/ ReadNumber(c) \/ SnapshotFails(c)
           \/ WriteNothing(c) \/ MarkApplied(c) \/ WriteAssign(c)
  BY <1>3 DEF ReadRow, ListVersions, ReadForSnapshot, ReadNumber, SnapshotFails, WriteNothing,
              MarkApplied, WriteAssign, Kept, db
<1> QED BY <1>1, <1>2, <1>3 DEF Step

\* A request that only moves on keeps the invariant at its own step.
LEMMA RequestMoves ==
  ASSUME TypeInv, TypeInv', HistoryInv, NEW c \in Conns,
         Start(c) \/ ReadRow(c) \/ ListVersions(c) \/ ReadForSnapshot(c) \/ ReadNumber(c)
  PROVE  HistoryInv'
<1>1. UNCHANGED db
  BY DEF Start, StartUpdate, StartRestore, StartApply, StartAssign, Begin,
         ReadRow, ListVersions, ReadForSnapshot, ReadNumber, db
<1>2. ASSUME NEW k \in Conns, k # c
      PROVE  /\ pc'[k] = pc[k] /\ arg'[k] = arg[k]
             /\ row'[k] = row[k] /\ snap'[k] = snap[k]
  <2>1. CASE Start(c)
    BY <1>2, <2>1 DEF Start, StartUpdate, StartRestore, StartApply, StartAssign, Begin,
                      TypeInv, TypeOK
  <2>2. CASE ReadRow(c)
    BY <1>2, <2>2 DEF ReadRow, AfterUpdate, Finish, Forget, TypeInv, TypeOK
  <2>3. CASE ListVersions(c) \/ ReadForSnapshot(c) \/ ReadNumber(c)
    BY <1>2, <2>3 DEF ListVersions, ReadForSnapshot, ReadNumber, CheckFolder, AfterUpdate, Goto,
                      Finish, Forget, TypeInv, TypeOK
  <2> QED BY <2>1, <2>2, <2>3
<1>3. RequestHistory(c)'
  <2>1. CASE pc'[c] \notin {"list", "snapshot", "number", "write"}
    BY <2>1 DEF TypeInv, RequestOK, Snapping, RequestHistory
  <2>2. CASE pc'[c] \in {"list", "snapshot", "number", "write"}
    <3>1. CASE Start(c)
      BY <2>2, <3>1 DEF Start, StartUpdate, StartRestore, StartApply, StartAssign,
                        Begin, TypeInv, TypeOK
    <3>2. CASE ReadRow(c)
      BY <1>1, <2>2, <3>2 DEF ReadRow, AfterUpdate, Finish, Forget, TypeInv, TypeOK,
                 RequestOK, RequestHistory, Exists, Snapping, db
    <3>3. CASE ListVersions(c)
      BY <1>1, <2>2, <3>3 DEF ListVersions, CheckFolder, AfterUpdate, Goto, Finish,
                 Forget, TypeInv, TypeOK, RequestOK, HistoryInv, RequestHistory,
                 Exists, Snapping, db
    <3>4. CASE ReadForSnapshot(c)
      <4> DEFINE d == arg[c].doc
      <4>1. d \in Docs /\ Exists(d)
        BY <3>4 DEF ReadForSnapshot, TypeInv, TypeOK, RequestOK, HistoryInv, RequestHistory
      <4> DEFINE s == [number |-> 0, text |-> content[d], folder |-> folder[d]]
      <4>2. /\ pc'[c] = "number" /\ snap'[c] = s /\ s.text = content[d]
            /\ UNCHANGED <<arg, row>>
        BY <3>4, <4>1 DEF ReadForSnapshot, TypeInv, TypeOK
      <4> HIDE DEF s
      <4> QED
        BY <1>1, <4>1, <4>2 DEF RequestHistory, Exists, Snapping, TypeInv, TypeOK, db
    <3>5. CASE ReadNumber(c)
      <4>1. /\ pc[c] = "number" /\ pc'[c] = "write" /\ UNCHANGED <<arg, row>>
            /\ snap'[c].text = snap[c].text /\ Snapping(c)
        BY <3>5 DEF ReadNumber, TypeInv, TypeOK, RequestOK
      <4>2. Snapping(c)'
        BY <4>1 DEF Snapping, NoSnap, TypeInv, RequestOK
      <4> QED
        BY <1>1, <4>1, <4>2 DEF HistoryInv, RequestHistory, Exists, db
    <3> QED BY <3>1, <3>2, <3>3, <3>4, <3>5
  <2> QED BY <2>1, <2>2
<1>4. ASSUME NEW k \in Conns, k # c PROVE RequestHistory(k)'
  BY <1>1, <1>2, <1>4 DEF HistoryInv, RequestHistory, Exists, Snapping, db
<1> QED
  BY <1>1, <1>3, <1>4 DEF HistoryInv, LastVersionIsText, Exists, db

\* Text and newest version change together in every step.
LEMMA HistoryStep ==
  ASSUME DeleteRaces = FALSE, TypeInv, HistoryInv, [Next]_vars,
         \A c \in Conns : NotRefused(c)
  PROVE  /\ HistoryInv'
         /\ \A d \in Docs : Kept(d) \/ Grown(d) \/ Removed(d)
<1>0. TypeInv'
  BY TypeStep
<1>1. CASE Atomic
  BY <1>0, <1>1, AtomicMoves, HistoryMoves
<1>2. ASSUME NEW c \in Conns, Start(c) \/ ReadRow(c) \/ ListVersions(c) \/ ReadForSnapshot(c) \/ ReadNumber(c)
      PROVE  HistoryInv' /\ \A d \in Docs : Kept(d)
  <2>1. UNCHANGED db
    BY <1>2 DEF Start, StartUpdate, StartRestore, StartApply, StartAssign, Begin,
                ReadRow, ListVersions, ReadForSnapshot, ReadNumber, db
  <2> QED BY <1>0, <1>2, <2>1, RequestMoves DEF Kept, db
<1>3. ASSUME NEW c \in Conns,
             \/ SnapshotFails(c) \/ WriteNothing(c) \/ WriteRefused(c)
             \/ WriteRow(c) \/ MarkApplied(c) \/ WriteAssign(c)
      PROVE  HistoryInv' /\ \A d \in Docs : Kept(d) \/ Grown(d)
  <2>1. \A d \in Docs : Kept(d) \/ Grown(d)
    BY <1>0, <1>3, StepMoves DEF Step
  <2>2. Finish(c) \/ AfterUpdate(c)
    BY <1>3 DEF SnapshotFails, WriteNothing, WriteRefused, WriteRow, MarkApplied, WriteAssign
  <2>3. \A d \in Docs : Removed(d) => Kept(d)
    BY <2>1 DEF Removed, Grown
  <2> QED BY <1>0, <2>1, <2>2, <2>3, HistoryMoves
<1>4. ASSUME NEW c \in Conns, Crash(c)
      PROVE  HistoryInv' /\ \A d \in Docs : Kept(d)
  <2>1. Finish(c) /\ \A d \in Docs : Kept(d)
    BY <1>4 DEF Crash, Kept, db
  <2> QED BY <1>0, <2>1, HistoryMoves
<1>5. CASE UNCHANGED vars
  <2>1. UNCHANGED req /\ \A d \in Docs : Kept(d)
    BY <1>5 DEF vars, req, Kept
  <2> QED BY <1>0, <2>1, HistoryMoves
<1> QED BY <1>1, <1>2, <1>3, <1>4, <1>5 DEF Next, Step

\* A document that predates the version table has no version to disagree with.
LEMMA HistoryInit == Init => HistoryInv
<1> SUFFICES ASSUME Init PROVE HistoryInv
  OBVIOUS
<1>1. \A c \in Conns : RequestHistory(c)
  BY DEF Init, RequestHistory, Snapping
<1> QED
  BY <1>1 DEF Init, HistoryInv, LastVersionIsText, Exists

-----------------------------------------------------------------------------
(***************************************************************************)
(* Each document implements VersionedText: what Kept, Grown and Removed    *)
(* mean for its text and the texts of its versions.                        *)
(***************************************************************************)
Log(vs) == [i \in 1..Len(vs) |-> vs[i].content]

\* Appending a version appends its text.
LEMMA LogAppends ==
  ASSUME NEW vs \in Seq(Version), NEW v \in Version
  PROVE  /\ Log(Append(vs, v)) = Append(Log(vs), v.content)
         /\ Log(vs) \in Seq(Texts) /\ Len(Log(vs)) = Len(vs)
<1>1. /\ Log(vs) \in Seq(Texts) /\ Len(Log(vs)) = Len(vs)
      /\ \A i \in 1..Len(vs) : Log(vs)[i] = vs[i].content
  <2>1. \A i \in 1..Len(vs) : vs[i].content \in Texts
    <3> SUFFICES ASSUME NEW i \in 1..Len(vs) PROVE vs[i].content \in Texts
      OBVIOUS
    <3>1. vs[i] \in Version
      OBVIOUS
    <3> QED BY <3>1 DEF Version
  <2> QED BY <2>1 DEF Log
<1>2. /\ Append(vs, v) \in Seq(Version) /\ Len(Append(vs, v)) = Len(vs) + 1
      /\ \A i \in 1..(Len(vs) + 1) :
           Append(vs, v)[i] = IF i = Len(vs) + 1 THEN v ELSE vs[i]
  OBVIOUS
<1>3. /\ Append(Log(vs), v.content) \in Seq(Texts)
      /\ Len(Append(Log(vs), v.content)) = Len(vs) + 1
      /\ \A i \in 1..(Len(vs) + 1) :
           Append(Log(vs), v.content)[i] = IF i = Len(vs) + 1 THEN v.content ELSE vs[i].content
  <2>1. v.content \in Texts
    BY DEF Version
  <2> QED BY <1>1, <2>1
<1>4. \A i \in 1..(Len(vs) + 1) : Log(Append(vs, v))[i] = Append(Log(vs), v.content)[i]
  BY <1>2, <1>3 DEF Log
<1>5. /\ Log(Append(vs, v)) = [i \in 1..(Len(vs) + 1) |-> Log(Append(vs, v))[i]]
      /\ Append(Log(vs), v.content) = [i \in 1..(Len(vs) + 1) |-> Append(Log(vs), v.content)[i]]
  BY <1>2, <1>3 DEF Log
<1> QED BY <1>1, <1>4, <1>5

\* Growing keeps every version and the text that is replaced.
LEMMA GrownKeeps ==
  ASSUME TypeInv, HistoryInv, NEW d \in Docs, Grown(d), Exists(d)
  PROVE  /\ Len(versions[d]) <= Len(versions'[d])
         /\ \A i \in 1..Len(versions[d]) : versions'[d][i] = versions[d][i]
         /\ \/ content'[d] = content[d]
            \/ \E i \in 1..Len(versions'[d]) : versions'[d][i].content = content[d]
<1>1. versions[d] \in Seq(Version)
  BY DEF TypeInv, TypeOK
<1>2. CASE Recorded1(d)
  <2>1. PICK v \in Version : /\ v.content = content'[d]
                             /\ versions'[d] = Append(versions[d], v)
                             /\ versions[d] = << >> => v.content = content[d]
    BY <1>2 DEF Recorded1
  <2>2. /\ Len(versions[d]) \in Nat /\ Len(versions'[d]) = Len(versions[d]) + 1
        /\ \A i \in 1..Len(versions[d]) : versions'[d][i] = versions[d][i]
    BY <1>1, <2>1
  <2>3. CASE versions[d] = << >>
    BY <2>1, <2>2, <2>3
  <2>4. CASE versions[d] # << >>
    <3>1. /\ Len(versions[d]) \in 1..Len(versions[d])
          /\ versions[d][Len(versions[d])].content = content[d]
      BY <1>1, <2>4 DEF HistoryInv, LastVersionIsText
    <3> QED BY <2>2, <3>1
  <2> QED BY <2>3, <2>4
<1>3. CASE Recorded2(d)
  <2>1. PICK u, v \in Version : /\ versions[d] = << >> => u.content = content[d]
                                /\ versions'[d] = Append(Append(versions[d], u), v)
    BY <1>3 DEF Recorded2
  <2>2. /\ Len(versions[d]) \in Nat /\ Len(versions'[d]) = Len(versions[d]) + 2
        /\ \A i \in 1..Len(versions[d]) : versions'[d][i] = versions[d][i]
        /\ versions'[d][Len(versions[d]) + 1] = u
    BY ONLY <1>1, <2>1
  <2>3. /\ Len(versions[d]) + 1 \in 1..Len(versions'[d])
        /\ Len(versions[d]) <= Len(versions'[d])
    BY ONLY <2>2
  <2>4. \E i \in 1..Len(versions'[d]) : versions'[d][i].content = content[d]
    <3>1. CASE versions[d] = << >>
      BY ONLY <2>1, <2>2, <2>3, <3>1
    <3>2. CASE versions[d] # << >>
      <4>1. /\ Len(versions[d]) \in 1..Len(versions[d])
            /\ versions[d][Len(versions[d])].content = content[d]
        BY <1>1, <3>2 DEF HistoryInv, LastVersionIsText
      <4>2. Len(versions[d]) \in 1..Len(versions'[d])
        BY ONLY <2>2, <4>1
      <4> QED BY <2>2, <4>1, <4>2
    <3> QED BY <3>1, <3>2
  <2> QED BY ONLY <2>2, <2>3, <2>4
<1> QED BY <1>2, <1>3 DEF Grown

\* A step on a document is a step of the text it promises to be.
LEMMA HistoryImplemented ==
  ASSUME TypeInv, TypeInv', HistoryInv, NEW d \in Docs, Kept(d) \/ Grown(d) \/ Removed(d)
  PROVE  History(d)!Next \/ UNCHANGED <<content[d], versions[d]>>
<1>1. CASE Kept(d)
  BY <1>1 DEF Kept
<1>2. CASE Removed(d)
  <2>1. Log(versions'[d]) = << >>
    BY <1>2 DEF Removed, Log
  <2> QED BY <1>2, <2>1 DEF Removed, History!Next, History!Remove, Log
<1>3. CASE Grown(d)
  <2>1. versions[d] \in Seq(Version) /\ content'[d] \in Texts
    BY <1>3 DEF TypeInv, TypeOK, Grown
  <2>2. CASE ~Exists(d)
    <3>1. PICK v \in Version : v.content = content'[d] /\ versions'[d] = Append(versions[d], v)
      BY <1>3, <2>2 DEF Grown, Recorded1, Recorded2
    <3>2. versions[d] = << >>
      BY <2>2 DEF HistoryInv
    <3>3. Log(versions'[d]) = << content'[d] >>
      BY <3>1, <3>2 DEF Log
    <3> QED BY <2>1, <2>2, <3>3 DEF History!Next, History!Create, Exists, Log
  <2>3. CASE Exists(d)
    <3>1. \E i \in 1..Len(Log(versions'[d])) : Log(versions'[d])[i] = content[d]
      <4>1. versions'[d] \in Seq(Version)
        BY DEF TypeInv, TypeOK
      <4>2. \E i \in 1..Len(versions'[d]) : versions'[d][i].content = content[d]
        <5>1. CASE content'[d] # content[d]
          BY <1>3, <2>3, <5>1, GrownKeeps
        <5>2. CASE content'[d] = content[d]
          <6>1. /\ Len(versions'[d]) \in 1..Len(versions'[d])
                /\ versions'[d][Len(versions'[d])].content = content'[d]
            BY <1>3, <4>1, GrownIsCurrent
          <6> QED BY <5>2, <6>1
        <5> QED BY <5>1, <5>2
      <4> QED BY <4>1, <4>2 DEF Log
    <3>2. \/ Log(versions'[d]) = Append(Log(versions[d]), content'[d])
          \/ \E t \in Texts :
               Log(versions'[d]) = Append(Append(Log(versions[d]), t), content'[d])
      <4>1. CASE Recorded1(d)
        BY <2>1, <4>1, LogAppends DEF Recorded1
      <4>2. CASE Recorded2(d)
        <5>1. PICK u, v \in Version : /\ v.content = content'[d]
                                      /\ versions'[d] = Append(Append(versions[d], u), v)
          BY <4>2 DEF Recorded2
        <5>2. Append(versions[d], u) \in Seq(Version) /\ u.content \in Texts
          BY <2>1 DEF Version
        <5>3. Log(Append(versions[d], u)) = Append(Log(versions[d]), u.content)
          BY <2>1, LogAppends
        <5>4. Log(Append(Append(versions[d], u), v)) =
                Append(Log(Append(versions[d], u)), v.content)
          BY <5>2, LogAppends
        <5> QED BY ONLY <5>1, <5>2, <5>3, <5>4
      <4> QED BY <1>3, <4>1, <4>2 DEF Grown
    <3> QED
      BY <2>1, <2>3, <3>1, <3>2
         DEF History!Next, History!Replace, History!Recorded, Exists, Log
  <2> QED BY <2>2, <2>3
<1> QED BY <1>1, <1>2, <1>3

-----------------------------------------------------------------------------
(***************************************************************************)
(* Facts and orphans.                                                      *)
(***************************************************************************)

\* A step gives a document the facts of its text or leaves those it has; a new
\* document gets its own, and a document that is removed loses them.
FactsFollow(d) ==
  /\ facts'[d] = facts[d] \/ facts'[d] = content'[d]
  /\ content[d] = Nil /\ content'[d] # Nil => facts'[d] = content'[d]
  /\ content[d] # Nil /\ content'[d] = Nil => facts'[d] = Nil

LEMMA FactsMove ==
  ASSUME TypeInv, [Next]_vars, NEW d \in Docs
  PROVE  FactsFollow(d)
<1>1. CASE Atomic
  BY <1>1 DEF Atomic, CreateMatter, DeleteMatter, CreateFolder, Ingest, CreateEdit,
              TypeInv, TypeOK, FactsFollow
<1>2. ASSUME NEW c \in Conns, WriteRow(c)
      PROVE  FactsFollow(d)
  <2>1. arg[c].doc \in Docs /\ row[c].text \in Texts /\ content[arg[c].doc] # Nil
    BY <1>2 DEF WriteRow, TypeInv, RequestOK, Exists
  <2>2. WantedText(c) # Nil
    BY <2>1 DEF WantedText
  <2> QED BY <1>2, <2>1, <2>2 DEF WriteRow, TypeInv, TypeOK, FactsFollow
<1>3. ASSUME NEW c \in Conns,
             \/ Start(c) \/ ReadRow(c) \/ ListVersions(c) \/ ReadForSnapshot(c) \/ ReadNumber(c)
             \/ SnapshotFails(c) \/ WriteNothing(c) \/ WriteRefused(c)
             \/ MarkApplied(c) \/ WriteAssign(c) \/ Crash(c)
      PROVE  facts' = facts /\ content' = content
  BY <1>3 DEF Start, StartUpdate, StartRestore, StartApply, StartAssign, Begin, ReadRow,
              ListVersions, ReadForSnapshot, ReadNumber, SnapshotFails, WriteNothing, WriteRefused,
              MarkApplied, WriteAssign, Crash, db
<1>4. CASE UNCHANGED vars
  BY <1>4 DEF vars, FactsFollow
<1> QED BY <1>1, <1>2, <1>3, <1>4 DEF Next, Step, FactsFollow

\* A step leaves or brings back no row of a matter that is gone.
LEMMA OrphanStep == TypeInv /\ NoOrphans /\ [Next]_vars => NoOrphans'
<1> SUFFICES ASSUME TypeInv, NoOrphans, [Next]_vars PROVE NoOrphans'
  OBVIOUS
<1> USE DEF NoOrphans, Exists, TypeInv, TypeOK
<1>1. ASSUME NEW m \in Matters, CreateMatter(m) PROVE NoOrphans'
  BY <1>1 DEF CreateMatter
<1>2. ASSUME NEW m \in Matters, DeleteMatter(m) PROVE NoOrphans'
  <2>1. \A d \in Docs : Exists(d)' => Exists(d) /\ MatterOf[d] \in matters'
    BY <1>2 DEF DeleteMatter
  <2>2. \A d \in Docs : ~Exists(d)' =>
          versions'[d] = << >> /\ facts'[d] = Nil /\ folder'[d] = Nil
    BY <1>2 DEF DeleteMatter
  <2>3. \A f \in folders' : FolderMatter[f] \in matters'
    BY <1>2 DEF DeleteMatter
  <2>4. ASSUME NEW e \in Edits, edits'[e] # NoEdit
        PROVE  Exists(edits[e].doc)' /\ edits'[e] = edits[e]
    <3>1. edits'[e] = edits[e] /\ edits[e].doc \notin DocsOf(m)
      BY <1>2, <2>4 DEF DeleteMatter
    <3>2. edits[e] \in EditRow
      BY <2>4, <3>1
    <3>3. edits[e].doc \in Docs /\ content[edits[e].doc] # Nil
      BY <2>4, <3>1, <3>2 DEF EditRow
    <3> QED BY <1>2, <3>1, <3>3 DEF DeleteMatter, DocsOf
  <2> QED BY <2>1, <2>2, <2>3, <2>4
<1>3. ASSUME NEW f \in Folders, CreateFolder(f) PROVE NoOrphans'
  BY <1>3 DEF CreateFolder
<1>4. ASSUME NEW d \in Docs, Ingest(d) PROVE NoOrphans'
  BY <1>4 DEF Ingest, TextVal
<1>5. ASSUME NEW e \in Edits, NEW d \in Docs, NEW t \in Texts, CreateEdit(e, d, t)
      PROVE  NoOrphans'
  BY <1>5 DEF CreateEdit
<1>6. ASSUME NEW c \in Conns, WriteRow(c) PROVE NoOrphans'
  <2>1. arg[c].doc \in Docs /\ row[c].text \in Texts
    BY <1>6 DEF WriteRow, RequestOK
  <2>2. WantedText(c) # Nil
    BY <2>1 DEF WantedText
  <2> QED BY <1>6, <2>1, <2>2 DEF WriteRow
<1>7. ASSUME NEW c \in Conns, WriteRefused(c) \/ MarkApplied(c) PROVE NoOrphans'
  <2>1. /\ UNCHANGED <<matters, folders, content, folder, facts>>
        /\ edits' = edits \/ edits' = Marked(arg[c].edit)
    BY <1>7 DEF WriteRefused, MarkApplied
  <2>2. \A d \in Docs : ~Exists(d) => versions'[d] = versions[d]
    BY <1>7 DEF WriteRefused, MarkApplied, SnapshotFits, RequestOK
  <2>3. \A e \in Edits : edits'[e] = edits[e] \/
          (edits[e] # NoEdit /\ edits'[e] # NoEdit /\ edits'[e].doc = edits[e].doc)
    <3> HIDE DEF NoOrphans, Exists
    <3>1. edits \in [Edits -> EditRow \cup {NoEdit}]
      OBVIOUS
    <3>2. ASSUME NEW k, edits' = Marked(k), edits[k] # NoEdit, NEW e \in Edits, e = k
          PROVE  edits'[e] # NoEdit /\ edits'[e].doc = edits[e].doc
      <4>1. edits[e] \in EditRow /\ edits'[e] = [edits[e] EXCEPT !.status = "applied"]
        BY <3>1, <3>2 DEF Marked
      <4> QED BY <4>1 DEF EditRow, NoEdit
    <3>3. ASSUME NEW k, edits' = Marked(k), NEW e \in Edits, e # k \/ edits[k] = NoEdit
          PROVE  edits'[e] = edits[e]
      BY <3>1, <3>3 DEF Marked
    <3> QED BY <2>1, <3>2, <3>3
  <2> QED BY <2>1, <2>2, <2>3
<1>8. ASSUME NEW c \in Conns, WriteAssign(c) PROVE NoOrphans'
  <2>1. arg[c].doc \in Docs
    BY <1>8 DEF WriteAssign, RequestOK
  <2> QED BY <1>8, <2>1 DEF WriteAssign
<1>9. ASSUME NEW c \in Conns,
             \/ Start(c) \/ ReadRow(c) \/ ListVersions(c) \/ ReadForSnapshot(c) \/ ReadNumber(c)
             \/ SnapshotFails(c) \/ WriteNothing(c) \/ Crash(c)
      PROVE  UNCHANGED db
  BY <1>9 DEF Start, StartUpdate, StartRestore, StartApply, StartAssign, Begin, ReadRow,
              ListVersions, ReadForSnapshot, ReadNumber, SnapshotFails, WriteNothing, Crash, db
<1>10. ASSUME UNCHANGED db PROVE NoOrphans'
  BY <1>10 DEF db
<1>11. UNCHANGED vars => UNCHANGED db
  BY DEF vars, db
<1> HIDE DEF NoOrphans, TypeInv
<1> QED
  BY <1>1, <1>2, <1>3, <1>4, <1>5, <1>6, <1>7, <1>8, <1>9, <1>10, <1>11
     DEF Next, Atomic, Step

\* No row of a matter that is gone is left or brought back, even by requests
\* that were under way when the matter was deleted.
THEOREM NothingIsOrphaned == Spec => []NoOrphans
<1>1. Init => NoOrphans
  BY DEF Init, NoOrphans, Exists
<1> QED BY <1>1, OrphanStep, TypeInit, TypeStep, PTL DEF Spec

-----------------------------------------------------------------------------
(***************************************************************************)
(* Applied edits, when no matter is deleted under a request in flight.  An *)
(* edit that a request applies stays on record with its document, and the  *)
(* folder its document was read with still exists, so that the update it   *)
(* calls neither finds the row gone nor is refused.                        *)
(***************************************************************************)
Written(e) ==
  \E i \in 1..Len(versions[edits[e].doc]) :
    versions[edits[e].doc][i].edit = e /\ versions[edits[e].doc][i].content = edits[e].revised

EditRequest(c) ==
  /\ arg[c].edit # Nil =>
       /\ edits[arg[c].edit] # NoEdit /\ edits[arg[c].edit].doc = arg[c].doc
       /\ edits[arg[c].edit].revised = arg[c].text /\ arg[c].folder = "keep"
  /\ pc[c] \in {"list", "snapshot", "number", "write"} => FolderFits(row[c].folder, arg[c].doc)
  /\ pc[c] = "write" /\ ~Snapping(c) => FolderFits(WantedFolder(c), arg[c].doc)
  /\ pc[c] = "assign" => FolderFits(arg[c].folder, arg[c].doc)
  /\ pc[c] = "mark" => Written(arg[c].edit)

EditInv ==
  /\ \A d \in Docs : FolderFits(folder[d], d)
  /\ \A c \in Conns : EditRequest(c)
  /\ AppliedWasWritten

AllInv == TypeInv /\ HistoryInv /\ NoOrphans /\ EditInv

Extends(d) ==
  /\ Len(versions[d]) \in Nat /\ Len(versions'[d]) \in Nat
  /\ Len(versions[d]) <= Len(versions'[d])
  /\ \A i \in 1..Len(versions[d]) : versions'[d][i] = versions[d][i]

Requested(d) == \E c \in Conns : arg[c].doc = d

\* A request that applies an edit is not refused.
LEMMA EditNotRefused ==
  ASSUME AllInv, NEW c \in Conns, WriteRefused(c)
  PROVE  arg[c].edit = Nil
  BY DEF AllInv, EditInv, EditRequest, WriteRefused, WantedFolder

\* So every step keeps, grows or removes a document as the history needs.
LEMMA AllMoves ==
  ASSUME DeleteRaces = FALSE, AllInv, [Next]_vars
  PROVE  /\ TypeInv' /\ HistoryInv'
         /\ \A d \in Docs : Kept(d) \/ Grown(d) \/ Removed(d)
<1>1. \A c \in Conns : NotRefused(c)
  BY EditNotRefused DEF NotRefused
<1> QED BY <1>1, TypeStep, HistoryStep DEF AllInv

\* The documents that requests work on keep their versions and their folders.
LEMMA RequestedStays ==
  ASSUME DeleteRaces = FALSE, AllInv, [Next]_vars, NEW d \in Docs,
         Requested(d) \/ Exists(d)'
  PROVE  /\ Exists(d) => Extends(d)
         /\ \A f \in FolderVal : FolderFits(f, d) => FolderFits(f, d)'
<1>0. TypeInv' /\ (Kept(d) \/ Grown(d) \/ Removed(d))
  BY AllMoves
<1>1. Len(versions[d]) \in Nat /\ Len(versions'[d]) \in Nat
  BY <1>0 DEF AllInv, TypeInv, TypeOK
<1>2. Removed(d) => Kept(d) \/ ~Exists(d)
  <2> SUFFICES ASSUME Removed(d), Exists(d) PROVE Kept(d)
    OBVIOUS
  <2>1. CASE Atomic
    BY <1>0, <2>1, AtomicMoves DEF AllInv, Requested, Removed, Exists
  <2>2. ASSUME NEW c \in Conns, Step(c) PROVE Kept(d)
    BY <1>0, <2>2, StepMoves, EditNotRefused DEF AllInv, NotRefused, Removed, Grown
  <2>3. ASSUME NEW c \in Conns, Start(c) \/ Crash(c) PROVE Kept(d)
    BY <2>3 DEF Start, StartUpdate, StartRestore, StartApply, StartAssign, Begin, Crash, Kept, db
  <2>4. CASE UNCHANGED vars
    BY <2>4 DEF vars, Kept
  <2> QED BY <2>1, <2>2, <2>3, <2>4 DEF Next
<1>3. Exists(d) => Extends(d)
  <2>1. CASE Kept(d)
    BY <1>1, <2>1 DEF Kept, Extends
  <2>2. CASE Grown(d) /\ Exists(d)
    BY <1>1, <2>2, GrownKeeps DEF AllInv, Extends
  <2> QED BY <1>0, <1>2, <2>1, <2>2
<1>4. \A f \in folders : FolderMatter[f] = MatterOf[d] => f \in folders'
  <2>1. ASSUME NEW m \in Matters, DeleteMatter(m), Requested(d)
        PROVE  m # MatterOf[d]
    BY <2>1 DEF DeleteMatter, DocsOf, Requested
  <2>2. ASSUME NEW m \in Matters, DeleteMatter(m), Exists(d)'
        PROVE  m # MatterOf[d]
    BY <2>2 DEF DeleteMatter, Exists
  <2>3. (\E m \in Matters : DeleteMatter(m)) \/ folders \subseteq folders'
    <3>1. ASSUME NEW c \in Conns, Start(c) \/ Crash(c) PROVE folders' = folders
      BY <3>1 DEF Start, StartUpdate, StartRestore, StartApply, StartAssign, Begin, Crash, db
    <3>2. ASSUME NEW c \in Conns, Step(c) PROVE folders' = folders
      BY <3>2 DEF Step, ReadRow, ListVersions, ReadForSnapshot, ReadNumber, SnapshotFails, WriteNothing,
                  WriteRefused, WriteRow, MarkApplied, WriteAssign, db
    <3>3. CASE Atomic
      BY <3>3 DEF Atomic, CreateMatter, CreateFolder, Ingest, CreateEdit
    <3>4. CASE UNCHANGED vars
      BY <3>4 DEF vars
    <3> QED BY <3>1, <3>2, <3>3, <3>4 DEF Next
  <2>4. \A m \in Matters : DeleteMatter(m) => folders' = {f \in folders : FolderMatter[f] # m}
    BY DEF DeleteMatter
  <2> QED BY <2>1, <2>2, <2>3, <2>4
<1> QED BY <1>3, <1>4 DEF FolderFits

\* An edit stays as it is unless its matter is deleted or a request marks it.
LEMMA EditMoves ==
  ASSUME DeleteRaces = FALSE, AllInv, [Next]_vars, NEW e \in Edits, edits[e] # NoEdit
  PROVE  \/ edits'[e] = NoEdit /\ ~Requested(edits[e].doc)
         \/ edits'[e] = edits[e] /\ (Requested(edits[e].doc) \/ content'[edits[e].doc] # Nil)
         \/ /\ edits'[e] # NoEdit /\ edits'[e].doc = edits[e].doc
            /\ edits'[e].revised = edits[e].revised
            /\ \E c \in Conns : MarkApplied(c) /\ arg[c].edit = e
<1>1. edits[e] \in EditRow /\ edits[e].doc \in Docs /\ Exists(edits[e].doc)
  BY DEF AllInv, TypeInv, TypeOK, EditRow, NoOrphans
<1>2. ASSUME NEW m \in Matters, DeleteMatter(m)
      PROVE  \/ edits'[e] = NoEdit /\ ~Requested(edits[e].doc)
             \/ edits'[e] = edits[e] /\ content'[edits[e].doc] # Nil
  BY <1>1, <1>2 DEF DeleteMatter, DocsOf, Requested, Exists
<1>3. ASSUME NEW c \in Conns, MarkApplied(c)
      PROVE  \/ edits'[e] = edits[e] /\ content' = content
             \/ /\ edits'[e] # NoEdit /\ edits'[e].doc = edits[e].doc
                /\ edits'[e].revised = edits[e].revised /\ arg[c].edit = e
  <2>1. content' = content /\ edits' = Marked(arg[c].edit) /\ arg[c].edit \in Edits
    BY <1>3 DEF MarkApplied, AllInv, TypeInv, RequestOK
  <2>2. CASE arg[c].edit # e
    BY <2>1, <2>2 DEF Marked, AllInv, TypeInv, TypeOK
  <2>3. CASE arg[c].edit = e
    <3>1. edits'[e] = [edits[e] EXCEPT !.status = "applied"]
      BY <2>1, <2>3 DEF Marked, AllInv, TypeInv, TypeOK
    <3> QED BY <1>1, <2>3, <3>1 DEF EditRow, NoEdit
  <2> QED BY <2>2, <2>3, <2>1
<1>4. ASSUME NEW c \in Conns, WriteRow(c)
      PROVE  edits'[e] = edits[e] /\ content'[edits[e].doc] # Nil
  <2>1. arg[c].doc \in Docs /\ row[c].text \in Texts
    BY <1>4 DEF WriteRow, AllInv, TypeInv, RequestOK
  <2>2. WantedText(c) # Nil
    BY <2>1 DEF WantedText
  <2> QED BY <1>1, <1>4, <2>1, <2>2 DEF WriteRow, Exists, AllInv, TypeInv, TypeOK
<1>5. ASSUME NEW c \in Conns, WriteRefused(c)
      PROVE  edits'[e] = edits[e] /\ content' = content
  BY <1>5, EditNotRefused DEF WriteRefused
<1>6. ASSUME NEW d \in Docs, Ingest(d)
      PROVE  edits'[e] = edits[e] /\ content'[edits[e].doc] # Nil
  BY <1>1, <1>6 DEF Ingest, Exists, AllInv, TypeInv, TypeOK
<1>7. ASSUME NEW k \in Edits, NEW d \in Docs, NEW t \in Texts, CreateEdit(k, d, t)
      PROVE  edits'[e] = edits[e] /\ content' = content
  BY <1>7 DEF CreateEdit, AllInv, TypeInv, TypeOK
<1>8. ASSUME \/ \E m \in Matters : CreateMatter(m)
             \/ \E f \in Folders : CreateFolder(f)
             \/ \E c \in Conns : \/ Start(c) \/ ReadRow(c) \/ ListVersions(c)
                                 \/ ReadForSnapshot(c) \/ ReadNumber(c) \/ SnapshotFails(c)
                                 \/ WriteNothing(c) \/ WriteAssign(c) \/ Crash(c)
             \/ UNCHANGED vars
      PROVE  edits' = edits /\ content' = content
  <2>1. ASSUME \/ \E m \in Matters : CreateMatter(m)
               \/ \E f \in Folders : CreateFolder(f)
               \/ \E c \in Conns : \/ WriteNothing(c) \/ WriteAssign(c) \/ Crash(c)
               \/ UNCHANGED vars
        PROVE  edits' = edits /\ content' = content
    BY <2>1 DEF CreateMatter, CreateFolder, WriteNothing, WriteAssign, Crash, vars, db
  <2>2. ASSUME NEW c \in Conns, \/ ReadRow(c) \/ ListVersions(c) \/ ReadForSnapshot(c)
                                \/ ReadNumber(c) \/ SnapshotFails(c)
        PROVE  edits' = edits /\ content' = content
    BY <2>2 DEF ReadRow, ListVersions, ReadForSnapshot, ReadNumber, SnapshotFails, db
  <2>3. ASSUME NEW c \in Conns, Start(c)
        PROVE  edits' = edits /\ content' = content
    BY <2>3 DEF Start, StartUpdate, StartRestore, StartApply, StartAssign, Begin, db
  <2> QED BY <1>8, <2>1, <2>2, <2>3
<1>9. content' = content => content'[edits[e].doc] # Nil
  BY <1>1 DEF Exists
<1> QED
  BY <1>2, <1>3, <1>4, <1>5, <1>6, <1>7, <1>8, <1>9 DEF Next, Atomic, Step

\* An edit that is written stays written.
LEMMA WrittenStays ==
  ASSUME DeleteRaces = FALSE, AllInv, [Next]_vars, NEW e \in Edits, edits[e] # NoEdit, Written(e),
         edits'[e] # NoEdit, Requested(edits[e].doc) \/ content'[edits[e].doc] # Nil
  PROVE  Written(e)'
<1>1. edits[e].doc \in Docs /\ Exists(edits[e].doc)
  BY DEF AllInv, TypeInv, TypeOK, EditRow, NoOrphans
<1>2. edits'[e].doc = edits[e].doc /\ edits'[e].revised = edits[e].revised
  BY EditMoves
<1>3. Extends(edits[e].doc)
  <2>1. \A d \in Docs : Requested(d) \/ content'[d] # Nil => (Exists(d) => Extends(d))
    BY RequestedStays DEF Exists
  <2> QED BY <1>1, <2>1
<1>4. PICK i \in 1..Len(versions[edits[e].doc]) :
        versions[edits[e].doc][i].edit = e /\ versions[edits[e].doc][i].content = edits[e].revised
  BY DEF Written
<1>5. i \in 1..Len(versions'[edits[e].doc]) /\ versions'[edits[e].doc][i] = versions[edits[e].doc][i]
  BY <1>3 DEF Extends
<1> QED BY <1>2, <1>4, <1>5 DEF Written

\* What folder a document is in comes from itself or fits it.
LEMMA FolderSource ==
  ASSUME AllInv, [Next]_vars, NEW d \in Docs
  PROVE  folder'[d] \in {Nil, folder[d]} \/ FolderFits(folder'[d], d)
<1>1. CASE Atomic
  BY <1>1 DEF Atomic, CreateMatter, DeleteMatter, CreateFolder, Ingest, CreateEdit,
              AllInv, TypeInv, TypeOK
<1>2. ASSUME NEW c \in Conns, WriteRow(c)
      PROVE  folder'[d] = folder[d] \/ FolderFits(folder'[d], d)
  <2>1. arg[c].doc \in Docs /\ FolderFits(WantedFolder(c), arg[c].doc)
    BY <1>2 DEF WriteRow, AllInv, TypeInv, RequestOK, EditInv, EditRequest
  <2> QED BY <1>2, <2>1 DEF WriteRow, AllInv, TypeInv, TypeOK
<1>3. ASSUME NEW c \in Conns, WriteAssign(c)
      PROVE  folder'[d] = folder[d] \/ FolderFits(folder'[d], d)
  <2>1. arg[c].doc \in Docs /\ FolderFits(arg[c].folder, arg[c].doc)
    BY <1>3 DEF WriteAssign, AllInv, TypeInv, RequestOK, EditInv, EditRequest
  <2> QED BY <1>3, <2>1 DEF WriteAssign, AllInv, TypeInv, TypeOK
<1>4. ASSUME \/ \E c \in Conns : \/ Start(c) \/ ReadRow(c) \/ ListVersions(c)
                                 \/ ReadForSnapshot(c) \/ ReadNumber(c) \/ SnapshotFails(c) \/ WriteNothing(c)
                                 \/ WriteRefused(c) \/ MarkApplied(c) \/ Crash(c)
             \/ UNCHANGED vars
      PROVE  folder' = folder
  <2>1. ASSUME NEW c \in Conns, Start(c) PROVE folder' = folder
    BY <2>1 DEF Start, StartUpdate, StartRestore, StartApply, StartAssign, Begin, db
  <2>2. ASSUME NEW c \in Conns, ReadRow(c) \/ ListVersions(c) \/ ReadForSnapshot(c) \/ ReadNumber(c)
        PROVE  folder' = folder
    BY <2>2 DEF ReadRow, ListVersions, ReadForSnapshot, ReadNumber, db
  <2>3. ASSUME NEW c \in Conns, SnapshotFails(c) \/ WriteNothing(c) \/ WriteRefused(c)
        PROVE  folder' = folder
    BY <2>3 DEF SnapshotFails, WriteNothing, WriteRefused, db
  <2>4. ASSUME NEW c \in Conns, MarkApplied(c) \/ Crash(c) PROVE folder' = folder
    BY <2>4 DEF MarkApplied, Crash, db
  <2>5. CASE UNCHANGED vars
    BY <2>5 DEF vars
  <2> QED BY <1>4, <2>1, <2>2, <2>3, <2>4, <2>5
<1> QED BY <1>1, <1>2, <1>3, <1>4 DEF Next, Step

\* A request that is left alone can still do what it set out to do.
LEMMA OtherRequest ==
  ASSUME DeleteRaces = FALSE, AllInv, [Next]_vars, NEW k \in Conns,
         pc'[k] = pc[k], arg'[k] = arg[k], row'[k] = row[k], snap'[k] = snap[k]
  PROVE  EditRequest(k)'
<1>1. EditRequest(k)
  BY DEF AllInv, EditInv
<1>2. arg[k].edit \in Edits \cup {Nil} /\ row[k].folder \in FolderVal
      /\ (WantedFolder(k) \in FolderVal)
  BY DEF AllInv, TypeInv, TypeOK, Arguments, WantedFolder
<1>3. ASSUME NEW x \in Edits, arg[k].edit = x
      PROVE  /\ edits'[x] # NoEdit /\ edits'[x].doc = arg[k].doc
             /\ edits'[x].revised = arg[k].text /\ arg[k].folder = "keep"
             /\ Written(x) => Written(x)'
  <2>1. /\ edits[x] # NoEdit /\ edits[x].doc = arg[k].doc
        /\ edits[x].revised = arg[k].text /\ arg[k].folder = "keep"
    BY <1>1, <1>3, IdsAssumption DEF EditRequest
  <2>2. Requested(edits[x].doc)
    BY <2>1 DEF Requested
  <2>3. edits'[x] # NoEdit /\ edits'[x].doc = edits[x].doc /\ edits'[x].revised = edits[x].revised
    BY <2>1, <2>2, EditMoves
  <2>4. Written(x) => Written(x)'
    BY <2>1, <2>2, <2>3, WrittenStays
  <2> QED BY <2>1, <2>3, <2>4
<1>4. ASSUME pc[k] \in {"list", "snapshot", "number", "write", "assign"}
      PROVE  \A f \in FolderVal : FolderFits(f, arg[k].doc) =>
               f = Nil \/ (f \in folders' /\ FolderMatter[f] = MatterOf[arg[k].doc])
  <2>1. arg[k].doc \in Docs /\ Requested(arg[k].doc)
    BY <1>4 DEF AllInv, TypeInv, RequestOK, Requested
  <2>2. \A x \in Docs : Requested(x) =>
          \A f \in FolderVal : FolderFits(f, x) => (f = Nil \/ (f \in folders' /\ FolderMatter[f] = MatterOf[x]))
    BY RequestedStays DEF FolderFits
  <2> QED BY <2>1, <2>2 DEF FolderFits
<1>5. pc[k] = "assign" => arg[k].folder \in FolderVal
  BY DEF AllInv, TypeInv, RequestOK
<1>6. pc[k] = "mark" => arg[k].edit # Nil
  BY DEF AllInv, TypeInv, RequestOK
<1>7. WantedFolder(k)' = WantedFolder(k) /\ Snapping(k)' = Snapping(k)
  BY DEF WantedFolder, Snapping
<1>8. (arg[k].edit # Nil =>
         /\ edits[arg[k].edit] # NoEdit /\ edits[arg[k].edit].doc = arg[k].doc
         /\ edits[arg[k].edit].revised = arg[k].text /\ arg[k].folder = "keep")'
  BY <1>2, <1>3
<1>9. (pc[k] \in {"list", "snapshot", "number", "write"} => FolderFits(row[k].folder, arg[k].doc))'
  BY <1>1, <1>2, <1>4 DEF EditRequest, FolderFits
<1>10. (pc[k] = "write" /\ ~Snapping(k) => FolderFits(WantedFolder(k), arg[k].doc))'
  BY <1>1, <1>2, <1>4, <1>7 DEF EditRequest, FolderFits
<1>11. (pc[k] = "assign" => FolderFits(arg[k].folder, arg[k].doc))'
  BY <1>1, <1>4, <1>5 DEF EditRequest, FolderFits
<1>12. (pc[k] = "mark" => Written(arg[k].edit))'
  <2> SUFFICES ASSUME pc'[k] = "mark" PROVE Written(arg[k].edit)'
    OBVIOUS
  <2>1. PICK x \in Edits : arg[k].edit = x
    BY <1>2, <1>6
  <2>2. Written(x)'
    BY <1>1, <1>3, <2>1 DEF EditRequest
  <2> QED BY <2>1, <2>2 DEF Written
<1> QED BY <1>8, <1>9, <1>10, <1>11, <1>12 DEF EditRequest

\* A request that acts keeps what it needs to do what it set out to do.
LEMMA ActingRequest ==
  ASSUME AllInv, TypeInv', NEW c \in Conns, Start(c) \/ Step(c) \/ Crash(c)
  PROVE  EditRequest(c)'
<1>1. EditRequest(c) /\ TypeInv /\ TypeInv'
  BY DEF AllInv, EditInv
<1>2. ASSUME arg[c].edit # Nil
      PROVE  /\ arg[c].edit \in Edits /\ Exists(arg[c].doc) /\ arg[c].text \in Texts
             /\ WantedFolder(c) = row[c].folder /\ WantedText(c) = arg[c].text
             /\ arg[c].text = edits[arg[c].edit].revised
             /\ arg[c].doc = edits[arg[c].edit].doc
  <2>1. PICK x \in Edits : arg[c].edit = x
    BY <1>1, <1>2 DEF TypeInv, TypeOK, Arguments
  <2>2. edits[x] \in EditRow /\ Exists(edits[x].doc)
    BY <1>1, <1>2, <2>1 DEF AllInv, NoOrphans, TypeInv, TypeOK, EditRequest
  <2> QED BY <1>1, <1>2, <2>1, <2>2 DEF EditRequest, EditRow, WantedFolder, WantedText
<1>3. ASSUME Finish(c) PROVE EditRequest(c)'
  BY <1>1, <1>3 DEF Finish, Forget, EditRequest, NoArg, TypeInv, TypeOK
<1>4. CASE Start(c)
  <2>1. ASSUME NEW d \in Docs, NEW t \in TextVal, NEW f \in FolderVal \cup {"keep"},
               StartUpdate(c, d, t, f)
        PROVE  EditRequest(c)'
    BY <1>1, <2>1 DEF StartUpdate, Begin, EditRequest, TypeInv, TypeOK
  <2>2. ASSUME NEW d \in Docs, NEW i \in 1..Len(versions[d]), StartRestore(c, d, i)
        PROVE  EditRequest(c)'
    BY <1>1, <2>2 DEF StartRestore, Begin, EditRequest, TypeInv, TypeOK
  <2>3. ASSUME NEW e \in Edits, StartApply(c, e) PROVE EditRequest(c)'
    <3>1. edits[e] # NoEdit /\ edits' = edits
      BY <2>3 DEF StartApply, Begin, NoEdit, db
    <3> QED BY <1>1, <2>3, <3>1 DEF StartApply, Begin, EditRequest, TypeInv, TypeOK
  <2>4. ASSUME NEW d \in Docs, NEW f \in FolderVal, StartAssign(c, d, f)
        PROVE  EditRequest(c)'
    BY <1>1, <2>4 DEF StartAssign, Begin, EditRequest, FolderFits, TypeInv, TypeOK, db
  <2> QED BY <1>4, <2>1, <2>2, <2>3, <2>4 DEF Start
<1>5. CASE ReadRow(c)
  <2>1. CASE Exists(arg[c].doc)
    <3>1. arg[c].doc \in Docs /\ FolderFits(folder[arg[c].doc], arg[c].doc)
      BY <1>1, <1>5 DEF ReadRow, AllInv, EditInv, TypeInv, RequestOK
    <3> QED
      BY <1>1, <1>5, <2>1, <3>1
         DEF ReadRow, EditRequest, FolderFits, AfterUpdate, TypeInv, TypeOK, db
  <2>2. CASE ~Exists(arg[c].doc)
    BY <1>2, <1>3, <1>5, <2>2 DEF ReadRow, AfterUpdate
  <2> QED BY <2>1, <2>2
<1>6. ASSUME CheckFolder(c), pc[c] \in {"list", "snapshot"}, UNCHANGED db
      PROVE  EditRequest(c)'
  <2>1. CASE FolderFits(WantedFolder(c), arg[c].doc)
    BY <1>1, <1>6, <2>1
       DEF CheckFolder, Goto, EditRequest, FolderFits, WantedFolder, TypeInv, TypeOK, db
  <2>2. CASE ~FolderFits(WantedFolder(c), arg[c].doc)
    BY <1>1, <1>2, <1>3, <1>6, <2>2 DEF CheckFolder, AfterUpdate, EditRequest
  <2> QED BY <2>1, <2>2
<1>7. CASE ListVersions(c)
  <2>1. CASE versions[arg[c].doc] = << >>
    BY <1>1, <1>7, <2>1 DEF ListVersions, Goto, EditRequest, FolderFits, TypeInv, TypeOK, db
  <2>2. CASE versions[arg[c].doc] # << >>
    BY <1>6, <1>7, <2>2 DEF ListVersions
  <2> QED BY <2>1, <2>2
<1>8. CASE ReadForSnapshot(c)
  <2>1. CASE Exists(arg[c].doc)
    BY <1>1, <1>8, <2>1 DEF ReadForSnapshot, EditRequest, FolderFits, TypeInv, TypeOK, db
  <2>2. CASE ~Exists(arg[c].doc)
    BY <1>6, <1>8, <2>2 DEF ReadForSnapshot
  <2> QED BY <2>1, <2>2
<1>8a. CASE ReadNumber(c)
  <2>1. Snapping(c)'
    BY <1>1, <1>8a DEF ReadNumber, Snapping, NoSnap, TypeInv, TypeOK, RequestOK
  <2> QED BY <1>1, <1>8a, <2>1 DEF ReadNumber, EditRequest, FolderFits, TypeInv, TypeOK, db
<1>9. CASE WriteNothing(c)
  BY <1>2, <1>3, <1>9 DEF WriteNothing, AfterUpdate
<1>10. CASE WriteRow(c)
  <2>1. CASE arg[c].edit = Nil
    BY <1>3, <1>10, <2>1 DEF WriteRow, AfterUpdate
  <2>2. CASE arg[c].edit # Nil
    <3>1. PICK x \in Edits : x = arg[c].edit
      BY <1>2, <2>2
    <3> DEFINE d == edits[x].doc
               v == [content |-> WantedText(c), folder |-> WantedFolder(c), edit |-> x]
               u == [content |-> snap[c].text, folder |-> snap[c].folder, edit |-> Nil]
    <3>2. /\ pc'[c] = "mark" /\ arg' = arg /\ edits' = edits /\ edits[x].doc = arg[c].doc
          /\ d \in Docs /\ v.edit = x /\ v.content = edits[x].revised
      BY <1>1, <1>2, <1>10, <2>2, <3>1 DEF WriteRow, AfterUpdate, TypeInv, TypeOK, RequestOK
    <3>3. versions'[d] = Append(Snapshotted(c), v)
      BY <1>1, <1>10, <3>1, <3>2 DEF WriteRow, AddVersion, TypeInv, TypeOK
    <3>4. Snapshotted(c) \in Seq(Version)
      <4>1. CASE Snapping(c)
        <5>1. u \in Version
          BY <1>1, <4>1 DEF TypeInv, TypeOK, RequestOK, Version
        <5>2. Snapshotted(c) = Append(versions[d], u)
          BY <3>2, <4>1 DEF Snapshotted, AddVersion
        <5> HIDE DEF u
        <5> QED BY <1>1, <3>2, <5>1, <5>2 DEF TypeInv, TypeOK
      <4>2. CASE ~Snapping(c)
        BY <1>1, <3>2, <4>2 DEF Snapshotted, TypeInv, TypeOK
      <4> QED BY <4>1, <4>2
    <3> HIDE DEF v
    <3>5. \E i \in 1..Len(versions'[d]) : versions'[d][i] = v
      BY <3>3, <3>4
    <3>6. Written(x)'
      BY <3>2, <3>5 DEF Written
    <3>7. Written(arg[c].edit)'
      BY <3>1, <3>2, <3>6 DEF Written
    <3>8. EditRequest(c)
      BY <1>1
    <3> QED BY <1>2, <2>2, <3>2, <3>7, <3>8 DEF EditRequest
  <2> QED BY <2>1, <2>2
<1>11. CASE SnapshotFails(c) \/ WriteRefused(c) \/ MarkApplied(c) \/ WriteAssign(c) \/ Crash(c)
  BY <1>3, <1>11 DEF SnapshotFails, WriteRefused, MarkApplied, WriteAssign, Crash
<1> QED
  BY <1>4, <1>5, <1>7, <1>8, <1>8a, <1>9, <1>10, <1>11 DEF Step

\* Every step acts for one request, whose connection it is, or for none.
LEMMA OneActs ==
  ASSUME TypeInv, [Next]_vars, NEW k \in Conns
  PROVE  \/ Start(k) \/ Step(k) \/ Crash(k)
         \/ pc'[k] = pc[k] /\ arg'[k] = arg[k] /\ row'[k] = row[k] /\ snap'[k] = snap[k]
<1> DEFINE Left(c) == pc'[c] = pc[c] /\ arg'[c] = arg[c] /\ row'[c] = row[c] /\ snap'[c] = snap[c]
<1>1. CASE Atomic \/ UNCHANGED vars
  BY <1>1 DEF Atomic, CreateMatter, DeleteMatter, CreateFolder, Ingest, CreateEdit, vars, req
<1>2. ASSUME NEW c \in Conns, c # k, Finish(c) \/ AfterUpdate(c) \/ CheckFolder(c) PROVE Left(k)
  BY <1>2 DEF Finish, AfterUpdate, CheckFolder, Goto, Forget, TypeInv, TypeOK
<1>3. ASSUME NEW c \in Conns, c # k, Start(c) PROVE Left(k)
  BY <1>3 DEF Start, StartUpdate, StartRestore, StartApply, StartAssign, Begin, TypeInv, TypeOK
<1>4. ASSUME NEW c \in Conns, c # k, ReadRow(c) \/ ListVersions(c) \/ ReadForSnapshot(c) \/ ReadNumber(c)
      PROVE  Left(k)
  BY <1>2, <1>4 DEF ReadRow, ListVersions, ReadForSnapshot, ReadNumber, Goto, TypeInv, TypeOK
<1>5. ASSUME NEW c \in Conns, c # k,
             \/ SnapshotFails(c) \/ WriteNothing(c) \/ WriteRefused(c) \/ WriteRow(c)
             \/ MarkApplied(c) \/ WriteAssign(c) \/ Crash(c)
      PROVE  Left(k)
  BY <1>2, <1>5 DEF SnapshotFails, WriteNothing, WriteRefused, WriteRow, MarkApplied,
                    WriteAssign, Crash
<1> QED
  BY <1>1, <1>3, <1>4, <1>5 DEF Next, Step

\* An edit marked as applied is written: it was when it was marked.
LEMMA MarkedIsWritten ==
  ASSUME DeleteRaces = FALSE, AllInv, [Next]_vars, NEW e \in Edits,
         edits'[e].status = "applied", TypeInv'
  PROVE  Written(e)'
<1>1. edits'[e] # NoEdit
  BY DEF NoEdit
<1>2. CASE edits[e] = NoEdit
  <2>1. \/ edits' = edits
        \/ \E m \in Matters : DeleteMatter(m)
        \/ \E k \in Edits, d \in Docs, t \in Texts : CreateEdit(k, d, t)
        \/ \E c \in Conns : edits' = Marked(arg[c].edit) /\ arg[c].edit \in Edits \cup {Nil}
    <3>1. ASSUME NEW c \in Conns, WriteRefused(c) \/ MarkApplied(c)
          PROVE  edits' = edits \/ (edits' = Marked(arg[c].edit) /\ arg[c].edit \in Edits \cup {Nil})
      BY <3>1 DEF WriteRefused, MarkApplied, AllInv, TypeInv, TypeOK, Arguments
    <3>2. ASSUME NEW c \in Conns, Start(c) \/ Crash(c) PROVE edits' = edits
      BY <3>2 DEF Start, StartUpdate, StartRestore, StartApply, StartAssign, Begin, Crash, db
    <3>3. ASSUME NEW c \in Conns,
                 \/ ReadRow(c) \/ ListVersions(c) \/ ReadForSnapshot(c) \/ ReadNumber(c) \/ SnapshotFails(c)
                 \/ WriteNothing(c) \/ WriteRow(c) \/ WriteAssign(c)
          PROVE  edits' = edits
      BY <3>3 DEF ReadRow, ListVersions, ReadForSnapshot, ReadNumber, SnapshotFails, WriteNothing,
                  WriteRow, WriteAssign, db
    <3>4. ASSUME UNCHANGED vars \/ (\E m \in Matters : CreateMatter(m))
                 \/ (\E f \in Folders : CreateFolder(f)) \/ (\E d \in Docs : Ingest(d))
          PROVE  edits' = edits
      BY <3>4 DEF CreateMatter, CreateFolder, Ingest, vars
    <3>5. CASE Atomic
      BY <3>4, <3>5 DEF Atomic
    <3>6. ASSUME NEW c \in Conns, Start(c) \/ Step(c) \/ Crash(c)
          PROVE  edits' = edits \/ (edits' = Marked(arg[c].edit) /\ arg[c].edit \in Edits \cup {Nil})
      BY <3>1, <3>2, <3>3, <3>6 DEF Step
    <3> QED BY <3>4, <3>5, <3>6 DEF Next
  <2>2. ASSUME NEW m \in Matters, DeleteMatter(m) PROVE edits'[e] = NoEdit
    BY <1>2, <2>2 DEF DeleteMatter
  <2>3. ASSUME NEW k \in Edits, NEW d \in Docs, NEW t \in Texts, CreateEdit(k, d, t)
        PROVE  edits'[e] = NoEdit \/ edits'[e].status = "proposed"
    BY <1>2, <2>3 DEF CreateEdit, AllInv, TypeInv, TypeOK
  <2>4. ASSUME NEW c \in Conns, edits' = Marked(arg[c].edit), arg[c].edit \in Edits \cup {Nil}
        PROVE  edits'[e] = NoEdit
    <3>1. CASE edits[arg[c].edit] = NoEdit
      BY <1>2, <2>4, <3>1 DEF Marked
    <3>2. CASE edits[arg[c].edit] # NoEdit
      BY <1>2, <2>4, <3>2 DEF Marked, AllInv, TypeInv, TypeOK
    <3> QED BY <3>1, <3>2
  <2> QED BY <1>1, <1>2, <2>1, <2>2, <2>3, <2>4
<1>3. CASE edits[e] # NoEdit
  <2>1. CASE edits'[e] = edits[e] /\ (Requested(edits[e].doc) \/ content'[edits[e].doc] # Nil)
    <3>1. Written(e)
      BY <2>1 DEF AllInv, EditInv, AppliedWasWritten, Written
    <3> QED BY <1>1, <1>3, <2>1, <3>1, WrittenStays
  <2>2. ASSUME NEW c \in Conns, MarkApplied(c), arg[c].edit = e
        PROVE  Written(e)'
    <3>1. pc[c] = "mark" /\ EditRequest(c)
      BY <2>2 DEF MarkApplied, AllInv, EditInv
    <3>2. Written(e) /\ arg[c].doc = edits[e].doc
      BY <2>2, <3>1 DEF EditRequest
    <3>3. Requested(edits[e].doc)
      BY <3>2 DEF Requested
    <3> QED BY <1>1, <1>3, <3>2, <3>3, WrittenStays
  <2> QED BY <1>1, <1>3, <2>1, <2>2, EditMoves
<1> QED BY <1>2, <1>3

LEMMA EditStep ==
  ASSUME DeleteRaces = FALSE, AllInv, [Next]_vars
  PROVE  AllInv'
<1>1. TypeInv' /\ HistoryInv' /\ NoOrphans'
  BY AllMoves, OrphanStep DEF AllInv
<1>2. ASSUME NEW c \in Conns PROVE EditRequest(c)'
  <2>1. CASE Start(c) \/ Step(c) \/ Crash(c)
    BY <1>1, <2>1, ActingRequest
  <2>2. CASE pc'[c] = pc[c] /\ arg'[c] = arg[c] /\ row'[c] = row[c] /\ snap'[c] = snap[c]
    BY <2>2, OtherRequest
  <2> QED BY <2>1, <2>2, OneActs DEF AllInv
<1>3. ASSUME NEW d \in Docs PROVE FolderFits(folder[d], d)'
  <2>1. CASE folder'[d] = Nil
    BY <2>1 DEF FolderFits
  <2>2. CASE folder'[d] # Nil
    <3>1. Exists(d)'
      BY <1>1, <2>2 DEF NoOrphans
    <3>2. FolderFits(folder[d], d)
      BY DEF AllInv, EditInv
    <3>3. FolderFits(folder'[d], d) /\ folder'[d] \in FolderVal
      BY <1>1, <2>2, <3>2, FolderSource DEF AllInv, TypeInv, TypeOK
    <3>4. \A f \in FolderVal : FolderFits(f, d) =>
            f = Nil \/ (f \in folders' /\ FolderMatter[f] = MatterOf[d])
      BY <3>1, RequestedStays DEF FolderFits
    <3> QED BY <3>3, <3>4 DEF FolderFits
  <2> QED BY <2>1, <2>2
<1>4. AppliedWasWritten'
  BY <1>1, MarkedIsWritten DEF AppliedWasWritten, Written
<1> QED BY <1>1, <1>2, <1>3, <1>4 DEF AllInv, EditInv

\* With no request under way and no version, all of it holds.
LEMMA AllInit == Init => AllInv
<1>1. Init => EditInv /\ NoOrphans
  BY DEF Init, EditInv, EditRequest, FolderFits, AppliedWasWritten, NoEdit, NoArg, NoSnap,
         Snapping, NoOrphans, Exists
<1> QED BY <1>1, TypeInit, HistoryInit DEF AllInv

\* An edit is shown as applied only when a version with its text is on record,
\* whatever the two transactions of apply_document_edit race with, unless the
\* matter is deleted under them.
THEOREM AppliedIsWritten ==
  ASSUME DeleteRaces = FALSE
  PROVE  Spec => []AppliedWasWritten
<1>1. AllInv /\ [Next]_vars => AllInv'
  BY EditStep
<1>2. AllInv => AppliedWasWritten
  BY DEF AllInv, EditInv
<1> QED
  BY <1>1, <1>2, AllInit, PTL DEF Spec

\* The current text of a document is its newest version, however stale the row
\* a concurrent update has written back.
THEOREM NewestVersionIsText ==
  ASSUME DeleteRaces = FALSE
  PROVE  Spec => []LastVersionIsText
<1>1. AllInv => LastVersionIsText
  BY DEF AllInv, HistoryInv
<1>2. AllInv /\ [Next]_vars => AllInv'
  BY EditStep
<1> QED
  BY <1>1, <1>2, AllInit, PTL DEF Spec

\* No replaced text is lost, and no version either, while a document exists.
THEOREM NothingIsLost ==
  ASSUME DeleteRaces = FALSE
  PROVE  Spec => HistoryKept
<1> DEFINE Growing(d) ==
      Exists(d) /\ Exists(d)' =>
        /\ Len(versions[d]) <= Len(versions'[d])
        /\ \A i \in 1..Len(versions[d]) : versions'[d][i] = versions[d][i]
        /\ content'[d] # content[d] => \E i \in 1..Len(versions'[d]) :
                                          versions'[d][i].content = content[d]
<1>1. ASSUME AllInv, [Next]_vars, NEW d \in Docs
      PROVE  Growing(d)
  <2>1. CASE Kept(d)
    <3>1. Len(versions[d]) \in Nat
      BY <1>1 DEF AllInv, TypeInv, TypeOK
    <3> QED BY <2>1, <3>1 DEF Kept
  <2>2. CASE Removed(d)
    BY <2>2 DEF Removed, Exists
  <2>3. CASE Grown(d)
    BY <1>1, <2>3, GrownKeeps DEF AllInv
  <2> QED BY <1>1, <2>1, <2>2, <2>3, AllMoves
<1>2. AllInv /\ [Next]_vars => AllInv'
  BY EditStep
<1>3. AllInv /\ [Next]_vars => [\A d \in Docs : Growing(d)]_vars
  BY <1>1
<1> QED
  BY <1>2, <1>3, AllInit, PTL DEF Spec, HistoryKept

\* The documents of a matter implement the texts they promise to be, whatever
\* updates, restores, edits and moves overlap.
THEOREM DocumentsRefine ==
  ASSUME DeleteRaces = FALSE
  PROVE  Spec => ImplementsHistory
<1> DEFINE Moves == \A d \in Docs : History(d)!Next \/ UNCHANGED <<content[d], versions[d]>>
<1>1. Init => \A d \in Docs : History(d)!Init
  <2> SUFFICES ASSUME Init, NEW d \in Docs PROVE History(d)!Init
    OBVIOUS
  <2>1. content[d] \in Texts \cup {Nil} /\ versions[d] = << >>
    BY DEF Init
  <2>2. Log(versions[d]) = << >>
    BY <2>1 DEF Log
  <2> QED BY <2>1, <2>2 DEF History!Init, Log
<1>2. AllInv /\ [Next]_vars => [Moves]_vars
  <2> SUFFICES ASSUME AllInv, [Next]_vars PROVE Moves
    OBVIOUS
  <2>1. TypeInv' /\ \A d \in Docs : Kept(d) \/ Grown(d) \/ Removed(d)
    BY AllMoves
  <2> HIDE DEF Moves
  <2> QED BY <2>1, HistoryImplemented DEF Moves, AllInv
<1>3. AllInv /\ [Next]_vars => AllInv'
  BY EditStep
<1> QED
  BY <1>1, <1>2, <1>3, AllInit, PTL DEF Spec, ImplementsHistory

FactsInv ==
  \A d \in Docs : IF Exists(d) THEN facts[d] = content[d] \/ OnRecord(d, facts[d])
                               ELSE facts[d] = Nil

\* The facts of a document are those of a text it has or has had, however stale
\* the text that an update has compared with.
THEOREM FactsAreOfDocument ==
  ASSUME DeleteRaces = FALSE
  PROVE  Spec => []FactsOnRecord
<1>1. Init => FactsInv
  BY DEF Init, FactsInv, Exists
<1>2. AllInv /\ FactsInv /\ [Next]_vars => FactsInv'
  <2> SUFFICES ASSUME AllInv, FactsInv, [Next]_vars, NEW d \in Docs
               PROVE  (IF Exists(d) THEN facts[d] = content[d] \/ OnRecord(d, facts[d])
                                    ELSE facts[d] = Nil)'
    BY DEF FactsInv
  <2>1. TypeInv' /\ (Kept(d) \/ Grown(d) \/ Removed(d))
    BY AllMoves
  <2>2. FactsFollow(d)
    BY FactsMove DEF AllInv
  <2>3. CASE Kept(d)
    BY <2>2, <2>3 DEF Kept, Exists, OnRecord, FactsInv, FactsFollow
  <2>4. CASE Removed(d)
    BY <2>2, <2>4 DEF Removed, Exists, FactsInv, FactsFollow
  <2>5. CASE Grown(d)
    <3>1. Exists(d)'
      BY <2>1, <2>5, GrownIsCurrent DEF AllInv
    <3>2. CASE facts'[d] = content'[d]
      BY <3>1, <3>2 DEF Exists
    <3>3. CASE facts'[d] = facts[d] /\ facts'[d] # content'[d]
      <4>1. Exists(d)
        BY <2>2, <3>1, <3>3 DEF FactsFollow, Exists
      <4>2. /\ Len(versions[d]) <= Len(versions'[d])
            /\ \A i \in 1..Len(versions[d]) : versions'[d][i] = versions[d][i]
            /\ \/ content'[d] = content[d]
               \/ \E i \in 1..Len(versions'[d]) : versions'[d][i].content = content[d]
        BY <2>5, <4>1, GrownKeeps DEF AllInv
      <4>3. Len(versions[d]) \in Nat /\ Len(versions'[d]) \in Nat
        BY <2>1 DEF AllInv, TypeInv, TypeOK
      <4>4. \E i \in 1..Len(versions'[d]) : versions'[d][i].content = facts[d]
        <5>1. CASE facts[d] = content[d]
          BY <3>3, <4>2, <5>1
        <5>2. CASE OnRecord(d, facts[d])
          <6>1. PICK i \in 1..Len(versions[d]) : versions[d][i].content = facts[d]
            BY <5>2 DEF OnRecord
          <6>2. i \in 1..Len(versions'[d]) /\ versions'[d][i] = versions[d][i]
            BY <4>2, <4>3
          <6> QED BY <6>1, <6>2
        <5> QED BY <4>1, <5>1, <5>2 DEF FactsInv
      <4> QED BY <3>1, <3>3, <4>4 DEF OnRecord, Exists
    <3> QED BY <2>2, <3>2, <3>3, <3>1 DEF FactsFollow
  <2> QED BY <2>1, <2>3, <2>4, <2>5
<1>3. FactsInv => FactsOnRecord
  BY DEF FactsInv, FactsOnRecord
<1>4. AllInv /\ [Next]_vars => AllInv'
  BY EditStep
<1> QED
  BY <1>1, <1>2, <1>3, <1>4, AllInit, PTL DEF Spec


-----------------------------------------------------------------------------
(***************************************************************************)
(* One request at a time: SerialSpec.  The one request under way still     *)
(* finds the text it has read, and the edit it applies is not written      *)
(* before it writes it.                                                    *)
(***************************************************************************)
OneAtATime == \A c, k \in Conns : pc[c] # "idle" /\ pc[k] # "idle" => c = k

\* The versions that carry an edit, and the edit of each version.
Carrying(vs, e) == {i \in 1..Len(vs) : vs[i].edit = e}
EditsOfVersions ==
  \A d \in Docs : \A e \in Edits : Carrying(versions[d], e) # {} => edits[e].doc = d

SerialRequest(c) ==
  /\ pc[c] \in {"list", "snapshot", "number", "write"} => row[c].text = content[arg[c].doc]
  /\ pc[c] # "idle" /\ arg[c].edit # Nil => edits[arg[c].edit].doc = arg[c].doc
  /\ pc[c] \in {"row", "list", "snapshot", "number", "write"} /\ arg[c].edit # Nil =>
       WrittenBy(arg[c].edit) = {}

SerialInv ==
  /\ OneAtATime
  /\ FactsMatchText
  /\ EditsOfVersions
  /\ \A c \in Conns : SerialRequest(c)
  /\ AppliedOnce

\* Every serial step is a step of Spec.
LEMMA SerialIsNext == [SerialNext]_vars => [Next]_vars
  BY DEF SerialNext, Next

\* One more version is carried by its own edit, at most.
LEMMA CarryingGrows ==
  ASSUME NEW vs \in Seq(Version), NEW v \in Version, NEW e
  PROVE  /\ v.edit # e => Carrying(Append(vs, v), e) = Carrying(vs, e)
         /\ v.edit = e => Carrying(Append(vs, v), e) = Carrying(vs, e) \cup {Len(vs) + 1}
<1>1. /\ Len(vs) \in Nat /\ Len(Append(vs, v)) = Len(vs) + 1
      /\ Append(vs, v)[Len(vs) + 1] = v
      /\ \A i \in 1..Len(vs) : Append(vs, v)[i] = vs[i]
  OBVIOUS
<1> DEFINE n == Len(vs)
           w == Append(vs, v)
<1>2. 1..(n + 1) = (1..n) \cup {n + 1}
  BY ONLY <1>1
<1> HIDE DEF w, n
<1>3. Len(w) = n + 1 /\ w[n + 1] = v /\ \A i \in 1..n : w[i] = vs[i]
  BY <1>1 DEF w, n
<1>4. n + 1 \notin 1..n
  BY <1>1 DEF n
<1>5. v.edit # e => {i \in 1..Len(w) : w[i].edit = e} = {i \in 1..n : vs[i].edit = e}
  BY <1>2, <1>3, <1>4
<1>6. v.edit = e =>
        {i \in 1..Len(w) : w[i].edit = e} = {i \in 1..n : vs[i].edit = e} \cup {n + 1}
  BY <1>2, <1>3, <1>4
<1> QED BY <1>5, <1>6 DEF Carrying, w, n

\* A document without versions carries none.
LEMMA CarryingNothing == \A e : Carrying(<< >>, e) = {}
  BY DEF Carrying

CarryingWritten(d, e) ==
  \E c \in Conns : /\ WriteRow(c) /\ arg[c].doc = d /\ arg[c].edit = e
                  /\ \E n : Carrying(versions'[d], e) = Carrying(versions[d], e) \cup {n}

\* An operation or a request leaves the edits that versions carry as they are,
\* unless the document is removed or the request writes its edit.
LEMMA CarryingMoves ==
  ASSUME TypeInv, TypeInv', [SerialNext]_vars, NEW d \in Docs, NEW e \in Edits
  PROVE  \/ Carrying(versions'[d], e) = Carrying(versions[d], e)
         \/ Carrying(versions'[d], e) = {}
         \/ CarryingWritten(d, e)
<1> DEFINE Same == Carrying(versions'[d], e) = Carrying(versions[d], e)
<1>0. versions[d] \in Seq(Version) /\ e # Nil
  BY DEF TypeInv, TypeOK
<1>1. ASSUME NEW m \in Matters, DeleteMatter(m)
      PROVE  Same \/ Carrying(versions'[d], e) = {}
  <2>1. versions'[d] = << >> \/ versions'[d] = versions[d]
    BY <1>1 DEF DeleteMatter
  <2> QED BY <2>1, CarryingNothing
<1>2. ASSUME NEW k \in Docs, Ingest(k) PROVE Same
  <2>1. CASE k # d
    BY <1>2, <2>1 DEF Ingest, TypeInv, TypeOK
  <2>2. CASE k = d
    <3> DEFINE v == [content |-> Original[d], folder |-> Nil, edit |-> Nil]
    <3>1. v \in Version /\ v.edit = Nil
      BY DEF Version, FolderVal
    <3>2. versions'[d] = Append(versions[d], v)
      BY <1>2, <2>2 DEF Ingest, AddVersion, TypeInv, TypeOK
    <3> HIDE DEF v
    <3> QED BY <1>0, <3>1, <3>2, CarryingGrows
  <2> QED BY <2>1, <2>2
<1>3. ASSUME NEW c \in Conns, pc[c] = "write", arg[c].doc = d
      PROVE  /\ Snapshotted(c) \in Seq(Version)
             /\ Carrying(Snapshotted(c), e) = Carrying(versions[d], e)
  <2>1. CASE ~Snapping(c)
    BY <1>0, <1>3, <2>1 DEF Snapshotted
  <2>2. CASE Snapping(c)
    <3> DEFINE u == [content |-> snap[c].text, folder |-> snap[c].folder, edit |-> Nil]
    <3>1. u \in Version /\ u.edit = Nil
      BY <2>2 DEF TypeInv, TypeOK, RequestOK, Version
    <3>2. Snapshotted(c) = Append(versions[d], u)
      BY <1>3, <2>2 DEF Snapshotted, AddVersion
    <3> HIDE DEF u
    <3> QED BY <1>0, <3>1, <3>2, CarryingGrows
  <2> QED BY <2>1, <2>2
<1>4. ASSUME NEW c \in Conns, WriteRow(c)
      PROVE  \/ Same
             \/ /\ arg[c].doc = d /\ arg[c].edit = e
                /\ \E n : Carrying(versions'[d], e) = Carrying(versions[d], e) \cup {n}
  <2>1. pc[c] = "write" /\ arg[c].doc \in Docs /\ row[c].text \in Texts
    BY <1>4 DEF WriteRow, TypeInv, RequestOK
  <2>2. CASE arg[c].doc # d
    BY <1>4, <2>1, <2>2 DEF WriteRow, TypeInv, TypeOK
  <2>3. CASE arg[c].doc = d
    <3> DEFINE v == [content |-> WantedText(c), folder |-> WantedFolder(c), edit |-> arg[c].edit]
    <3>1. v \in Version /\ v.edit = arg[c].edit
      BY <2>1 DEF TypeInv, TypeOK, Version, Arguments, WantedText, WantedFolder, TextVal
    <3>2. versions'[d] = Append(Snapshotted(c), v)
      BY <1>4, <2>1, <2>3 DEF WriteRow, AddVersion, TypeInv, TypeOK
    <3> HIDE DEF v
    <3>3. /\ Snapshotted(c) \in Seq(Version)
          /\ Carrying(Snapshotted(c), e) = Carrying(versions[d], e)
      BY <1>3, <2>1, <2>3
    <3>4. CASE v.edit # e
      BY <3>1, <3>2, <3>3, <3>4, CarryingGrows
    <3>5. CASE v.edit = e
      <4> DEFINE w == Snapshotted(c)
                 n == Len(w) + 1
      <4>1. w \in Seq(Version) /\ versions'[d] = Append(w, v)
            /\ Carrying(w, e) = Carrying(versions[d], e)
        BY <3>2, <3>3
      <4> HIDE DEF w
      <4>2. Carrying(Append(w, v), e) = Carrying(w, e) \cup {n}
        BY ONLY <3>1, <3>5, <4>1, CarryingGrows
      <4> HIDE DEF n
      <4>3. Carrying(versions'[d], e) = Carrying(versions[d], e) \cup {n}
        BY <4>1, <4>2
      <4> QED BY <2>3, <3>1, <3>5, <4>3
    <3> QED BY <3>4, <3>5
  <2> QED BY <2>2, <2>3
<1>5. ASSUME NEW c \in Conns, WriteRefused(c) PROVE Same
  <2>1. pc[c] = "write" /\ arg[c].doc \in Docs
    BY <1>5 DEF WriteRefused, TypeInv, RequestOK
  <2>2. versions'[d] = versions[d] \/ (arg[c].doc = d /\ versions'[d] = Snapshotted(c))
    BY <1>5, <2>1 DEF WriteRefused, TypeInv, TypeOK
  <2> QED BY <1>3, <2>1, <2>2
<1>6. ASSUME NEW c \in Conns,
             \/ Start(c) \/ ReadRow(c) \/ ListVersions(c) \/ ReadForSnapshot(c) \/ ReadNumber(c)
             \/ SnapshotFails(c) \/ WriteNothing(c) \/ MarkApplied(c) \/ WriteAssign(c)
      PROVE  versions' = versions
  BY <1>6 DEF Start, StartUpdate, StartRestore, StartApply, StartAssign, Begin, ReadRow,
              ListVersions, ReadForSnapshot, ReadNumber, SnapshotFails, WriteNothing, MarkApplied,
              WriteAssign, db
<1>7. ASSUME \/ \E m \in Matters : CreateMatter(m)
             \/ \E f \in Folders : CreateFolder(f)
             \/ \E k \in Edits, j \in Docs, t \in Texts : CreateEdit(k, j, t)
             \/ UNCHANGED vars
      PROVE  versions' = versions
  BY <1>7 DEF CreateMatter, CreateFolder, CreateEdit, vars
<1> QED
  BY <1>1, <1>2, <1>4, <1>5, <1>6, <1>7 DEF SerialNext, Atomic, Step, CarryingWritten

\* Only the one request under way acts, and one that starts is the only one.
LEMMA OneRequestActs ==
  ASSUME TypeInv, OneAtATime, NEW c \in Conns, (Alone /\ Start(c)) \/ Step(c)
  PROVE  /\ OneAtATime'
         /\ \A k \in Conns : k # c => pc[k] = "idle" /\ pc'[k] = "idle"
<1> DEFINE Left(k) == pc'[k] = pc[k]
<1>1. ASSUME NEW k \in Conns, c # k, Finish(c) \/ AfterUpdate(c) \/ CheckFolder(c) PROVE Left(k)
  BY <1>1 DEF Finish, AfterUpdate, CheckFolder, Goto, TypeInv, TypeOK
<1>2. ASSUME NEW k \in Conns, c # k, Start(c) PROVE Left(k)
  BY <1>2 DEF Start, StartUpdate, StartRestore, StartApply, StartAssign, Begin, TypeInv, TypeOK
<1>3. ASSUME NEW k \in Conns, c # k, ReadRow(c) \/ ListVersions(c) \/ ReadForSnapshot(c) \/ ReadNumber(c)
      PROVE  Left(k)
  BY <1>1, <1>3 DEF ReadRow, ListVersions, ReadForSnapshot, ReadNumber, Goto, TypeInv, TypeOK
<1>4. ASSUME NEW k \in Conns, c # k,
             \/ SnapshotFails(c) \/ WriteNothing(c) \/ WriteRefused(c) \/ WriteRow(c)
             \/ MarkApplied(c) \/ WriteAssign(c)
      PROVE  Left(k)
  BY <1>1, <1>4 DEF SnapshotFails, WriteNothing, WriteRefused, WriteRow, MarkApplied, WriteAssign
<1>5. Step(c) => pc[c] # "idle"
  BY DEF Step, ReadRow, ListVersions, ReadForSnapshot, ReadNumber, SnapshotFails, WriteNothing,
         WriteRefused, WriteRow, MarkApplied, WriteAssign
<1>6. \A k \in Conns : k # c => pc[k] = "idle"
  BY <1>5 DEF OneAtATime, Alone
<1>7. \A k \in Conns : k # c => pc'[k] = "idle"
  BY <1>2, <1>3, <1>4, <1>6 DEF Step
<1> QED BY <1>6, <1>7 DEF OneAtATime

\* The facts are written with the text, and left only when the text is the one
\* they were extracted from.
LEMMA SerialFacts ==
  ASSUME TypeInv, SerialInv, [SerialNext]_vars
  PROVE  FactsMatchText'
<1>1. ASSUME NEW c \in Conns, WriteRow(c) PROVE FactsMatchText'
  <2>1. arg[c].doc \in Docs /\ row[c].text = content[arg[c].doc]
    BY <1>1 DEF WriteRow, TypeInv, RequestOK, SerialInv, SerialRequest
  <2> QED BY <1>1, <2>1 DEF WriteRow, TypeInv, TypeOK, SerialInv, FactsMatchText
<1>2. ASSUME NEW c \in Conns,
             \/ Start(c) \/ ReadRow(c) \/ ListVersions(c) \/ ReadForSnapshot(c) \/ ReadNumber(c)
             \/ SnapshotFails(c) \/ WriteNothing(c) \/ WriteRefused(c)
             \/ MarkApplied(c) \/ WriteAssign(c)
      PROVE  facts' = facts /\ content' = content
  BY <1>2 DEF Start, StartUpdate, StartRestore, StartApply, StartAssign, Begin, ReadRow,
              ListVersions, ReadForSnapshot, ReadNumber, SnapshotFails, WriteNothing, WriteRefused,
              MarkApplied, WriteAssign, db
<1>3. CASE Atomic
  <2>1. ASSUME NEW m \in Matters, DeleteMatter(m) PROVE FactsMatchText'
    BY <2>1 DEF DeleteMatter, SerialInv, FactsMatchText
  <2>2. ASSUME NEW d \in Docs, Ingest(d) PROVE FactsMatchText'
    BY <2>2 DEF Ingest, TypeInv, TypeOK, SerialInv, FactsMatchText
  <2>3. ASSUME \/ \E m \in Matters : CreateMatter(m)
               \/ \E f \in Folders : CreateFolder(f)
               \/ \E e \in Edits, d \in Docs, u \in Texts : CreateEdit(e, d, u)
        PROVE  facts' = facts /\ content' = content
    BY <2>3 DEF CreateMatter, CreateFolder, CreateEdit
  <2> QED BY <1>3, <2>1, <2>2, <2>3 DEF Atomic, SerialInv, FactsMatchText
<1>4. CASE UNCHANGED vars
  BY <1>4 DEF vars, SerialInv, FactsMatchText
<1> QED BY <1>1, <1>2, <1>3, <1>4 DEF SerialNext, Step, SerialInv, FactsMatchText

\* What a serial step does to an edit: nothing, or it is created, marked, or
\* removed with its document.
EditRemoved(e) ==
  edits'[e] = NoEdit /\ \A d \in Docs : edits[e].doc = d => versions'[d] = << >>
EditCreated(e) ==
  edits[e] = NoEdit /\ versions' = versions /\ \E d \in Docs : edits'[e].doc = d
EditMarked(e) ==
  edits'[e].doc = edits[e].doc /\ edits'[e].status = "applied"

\* Nothing else happens to the row of an edit.
LEMMA SerialEdit ==
  ASSUME TypeInv, [SerialNext]_vars, NEW e \in Edits
  PROVE  edits'[e] = edits[e] \/ EditRemoved(e) \/ EditCreated(e) \/ EditMarked(e)
<1>1. ASSUME NEW m \in Matters, DeleteMatter(m) PROVE edits'[e] = edits[e] \/ EditRemoved(e)
  BY <1>1 DEF DeleteMatter, DocsOf, EditRemoved
<1>2. ASSUME NEW k \in Edits, NEW d \in Docs, NEW t \in Texts, CreateEdit(k, d, t)
      PROVE  edits'[e] = edits[e] \/ EditCreated(e)
  BY <1>2 DEF CreateEdit, EditCreated, TypeInv, TypeOK
<1>3. ASSUME NEW x \in Edits \cup {Nil}, edits' = Marked(x)
      PROVE  edits'[e] = edits[e] \/ EditMarked(e)
  <2>1. CASE x = e /\ edits[e] # NoEdit
    <3>1. edits[e] \in EditRow /\ edits'[e] = [edits[e] EXCEPT !.status = "applied"]
      BY <1>3, <2>1 DEF Marked, TypeInv, TypeOK
    <3> QED BY <3>1 DEF EditMarked, EditRow
  <2>2. CASE x # e \/ edits[e] = NoEdit
    BY <1>3, <2>2 DEF Marked, TypeInv, TypeOK
  <2> QED BY <2>1, <2>2
<1>4. ASSUME NEW c \in Conns, WriteRefused(c) \/ MarkApplied(c)
      PROVE  edits' = edits \/ (edits' = Marked(arg[c].edit) /\ arg[c].edit \in Edits \cup {Nil})
  BY <1>4 DEF WriteRefused, MarkApplied, TypeInv, TypeOK, Arguments
<1>5. ASSUME NEW c \in Conns,
             \/ Start(c) \/ ReadRow(c) \/ ListVersions(c) \/ ReadForSnapshot(c) \/ ReadNumber(c)
             \/ SnapshotFails(c) \/ WriteNothing(c) \/ WriteRow(c) \/ WriteAssign(c)
      PROVE  edits' = edits
  BY <1>5 DEF Start, StartUpdate, StartRestore, StartApply, StartAssign, Begin, ReadRow,
              ListVersions, ReadForSnapshot, ReadNumber, SnapshotFails, WriteNothing, WriteRow,
              WriteAssign, db
<1>6. ASSUME \/ \E m \in Matters : CreateMatter(m)
             \/ \E f \in Folders : CreateFolder(f)
             \/ \E d \in Docs : Ingest(d)
             \/ UNCHANGED vars
      PROVE  edits' = edits
  BY <1>6 DEF CreateMatter, CreateFolder, Ingest, vars
<1>7. CASE Atomic
  BY <1>1, <1>2, <1>6, <1>7 DEF Atomic
<1>8. ASSUME NEW c \in Conns, Start(c) \/ Step(c)
      PROVE  edits'[e] = edits[e] \/ EditMarked(e)
  BY <1>3, <1>4, <1>5, <1>8 DEF Step
<1> QED BY <1>6, <1>7, <1>8 DEF SerialNext

\* The versions that carry an edit are of its document.
LEMMA SerialVersions ==
  ASSUME TypeInv, TypeInv', SerialInv, [SerialNext]_vars
  PROVE  EditsOfVersions'
<1> SUFFICES ASSUME NEW d \in Docs, NEW e \in Edits, Carrying(versions'[d], e) # {}
             PROVE  edits'[e].doc = d
  BY DEF EditsOfVersions
<1>1. edits[e].doc = d
  <2>1. CASE Carrying(versions'[d], e) = Carrying(versions[d], e)
    BY <2>1 DEF SerialInv, EditsOfVersions
  <2>2. ASSUME NEW c \in Conns, WriteRow(c), arg[c].doc = d, arg[c].edit = e
        PROVE  edits[e].doc = d
    BY <2>2 DEF WriteRow, SerialInv, SerialRequest
  <2> QED BY <2>1, <2>2, CarryingMoves DEF CarryingWritten
<1>2. ~EditRemoved(e)
  BY <1>1, CarryingNothing DEF EditRemoved
<1>3. ~EditCreated(e)
  BY <1>1 DEF EditCreated, NoEdit
<1> QED BY <1>1, <1>2, <1>3, SerialEdit DEF EditMarked

\* A request that writes an edit marks it next.
LEMMA WriteThenMark ==
  ASSUME TypeInv, NEW c \in Conns, WriteRow(c), arg[c].edit # Nil
  PROVE  pc'[c] = "mark" /\ arg' = arg
  BY DEF WriteRow, AfterUpdate, TypeInv, TypeOK

\* While an edit waits to be marked nothing else happens.
LEMMA MarkIsNext ==
  ASSUME TypeInv, OneAtATime, [SerialNext]_vars, NEW c \in Conns, pc[c] = "mark"
  PROVE  UNCHANGED vars \/ MarkApplied(c)
<1>1. ~Alone
  BY DEF Alone
<1>2. ASSUME NEW k \in Conns, Step(k) PROVE MarkApplied(c)
  <2>1. pc[k] # "idle"
    BY <1>2 DEF Step, ReadRow, ListVersions, ReadForSnapshot, ReadNumber, SnapshotFails, WriteNothing,
                WriteRefused, WriteRow, MarkApplied, WriteAssign
  <2>2. k = c
    BY <2>1 DEF OneAtATime
  <2> QED
    BY <1>2, <2>2 DEF Step, ReadRow, ListVersions, ReadForSnapshot, ReadNumber, SnapshotFails,
                      WriteNothing, WriteRefused, WriteRow, WriteAssign
<1> QED BY <1>1, <1>2 DEF SerialNext

\* No edit is written twice, and one that is written is marked next.
LEMMA SerialApplied ==
  ASSUME TypeInv, TypeInv', SerialInv, [SerialNext]_vars
  PROVE  AppliedOnce'
<1> SUFFICES ASSUME NEW e \in Edits, edits'[e] # NoEdit
             PROVE  /\ \A i, j \in WrittenBy(e)' : i = j
                    /\ WrittenBy(e)' # {} /\ edits'[e].status = "proposed" =>
                         \E c \in Conns : arg'[c].edit = e /\ pc'[c] = "mark"
  BY DEF AppliedOnce
<1>0. /\ WrittenBy(e) = Carrying(versions[edits[e].doc], e)
      /\ WrittenBy(e)' = Carrying(versions'[edits'[e].doc], e)
  BY DEF WrittenBy, Carrying
<1>1. CASE EditCreated(e)
  <2>1. PICK d \in Docs : edits'[e].doc = d
    BY <1>1 DEF EditCreated
  <2>2. edits[e].doc # d
    BY <1>1 DEF EditCreated, NoEdit
  <2>3. Carrying(versions[d], e) = {}
    BY <2>2 DEF SerialInv, EditsOfVersions
  <2> QED BY <1>0, <1>1, <2>1, <2>3 DEF EditCreated
<1>2. CASE ~EditCreated(e)
  <2>1. edits'[e] = edits[e] \/ EditMarked(e)
    BY <1>2, SerialEdit DEF EditRemoved
  <2>2. edits[e] # NoEdit /\ edits'[e].doc = edits[e].doc
    <3>1. edits'[e] \in EditRow
      BY DEF TypeInv, TypeOK
    <3> QED BY <2>1, <3>1 DEF EditMarked, EditRow, NoEdit
  <2>3. edits[e].doc \in Docs
    BY <2>2 DEF TypeInv, TypeOK, EditRow
  <2>4. CASE WrittenBy(e)' = WrittenBy(e)
    <3>1. \A i, j \in WrittenBy(e)' : i = j
      BY <2>2, <2>4 DEF SerialInv, AppliedOnce
    <3>2. ASSUME WrittenBy(e)' # {}, edits'[e].status = "proposed"
          PROVE  \E c \in Conns : arg'[c].edit = e /\ pc'[c] = "mark"
      <4>1. edits'[e] = edits[e]
        BY <2>1, <3>2 DEF EditMarked
      <4>2. PICK c \in Conns : arg[c].edit = e /\ pc[c] = "mark"
        BY <2>2, <2>4, <3>2, <4>1 DEF SerialInv, AppliedOnce
      <4>3. ~MarkApplied(c)
        <5> SUFFICES ASSUME MarkApplied(c) PROVE FALSE
          OBVIOUS
        <5>1. edits[e] \in EditRow /\ edits'[e] = [edits[e] EXCEPT !.status = "applied"]
          BY <2>2, <4>2 DEF MarkApplied, Marked, TypeInv, TypeOK
        <5> QED BY <3>2, <5>1 DEF EditRow
      <4> QED BY <4>2, <4>3, MarkIsNext DEF vars, SerialInv
    <3> QED BY <3>1, <3>2
  <2>5. CASE WrittenBy(e)' = {}
    BY <2>5
  <2>6. ASSUME NEW c \in Conns, WriteRow(c), arg[c].doc = edits[e].doc, arg[c].edit = e,
               NEW n, WrittenBy(e)' = WrittenBy(e) \cup {n}
        PROVE  /\ \A i, j \in WrittenBy(e)' : i = j
               /\ \E k \in Conns : arg'[k].edit = e /\ pc'[k] = "mark"
    <3>1. e # Nil
      OBVIOUS
    <3>2. WrittenBy(e) = {}
      BY <2>6, <3>1 DEF WriteRow, SerialInv, SerialRequest
    <3>3. pc'[c] = "mark" /\ arg' = arg
      BY <2>6, <3>1, WriteThenMark
    <3> QED BY <2>6, <3>2, <3>3
  <2> QED
    <3>0. PICK d \in Docs : d = edits[e].doc
      BY <2>3
    <3>1. \/ Carrying(versions'[d], e) = Carrying(versions[d], e)
          \/ Carrying(versions'[d], e) = {}
          \/ CarryingWritten(d, e)
      BY CarryingMoves
    <3>2. \/ WrittenBy(e)' = WrittenBy(e)
          \/ WrittenBy(e)' = {}
          \/ \E c \in Conns : /\ WriteRow(c) /\ arg[c].doc = d /\ arg[c].edit = e
                              /\ \E n : WrittenBy(e)' = WrittenBy(e) \cup {n}
      BY <1>0, <2>2, <3>0, <3>1 DEF CarryingWritten
    <3> QED BY <2>4, <2>5, <2>6, <3>0, <3>2
<1> QED BY <1>1, <1>2

\* The request under way still finds what it has read.
LEMMA SerialRequestMoves ==
  ASSUME TypeInv, TypeInv', SerialInv, NEW c \in Conns, (Alone /\ Start(c)) \/ Step(c)
  PROVE  SerialRequest(c)'
<1>0. SerialRequest(c)
  BY DEF SerialInv
<1>1. ASSUME pc'[c] = "idle" PROVE SerialRequest(c)'
  BY <1>1 DEF SerialRequest
<1>2. ASSUME AfterUpdate(c), UNCHANGED edits, pc[c] # "idle"
      PROVE  SerialRequest(c)'
  <2>1. CASE arg[c].edit = Nil
    BY <1>1, <1>2, <2>1 DEF AfterUpdate, Finish, TypeInv, TypeOK
  <2>2. CASE arg[c].edit # Nil
    BY <1>0, <1>2, <2>2 DEF AfterUpdate, SerialRequest, TypeInv, TypeOK
  <2> QED BY <2>1, <2>2
<1>3. ASSUME UNCHANGED db PROVE \A e : WrittenBy(e)' = WrittenBy(e)
  BY <1>3 DEF WrittenBy, db
<1>4. ASSUME UNCHANGED <<arg, row, db>>, pc[c] \in {"list", "snapshot", "number"}
      PROVE  SerialRequest(c)'
  BY <1>0, <1>3, <1>4 DEF SerialRequest, db
<1>5. ASSUME Alone, Start(c) PROVE SerialRequest(c)'
  <2>1. UNCHANGED db
    BY <1>5 DEF Start, StartUpdate, StartRestore, StartApply, StartAssign, Begin
  <2>2. ASSUME NEW e \in Edits, StartApply(c, e)
        PROVE  pc'[c] = "row" /\ arg'[c].doc = edits[e].doc /\ arg'[c].edit = e
    BY <2>2 DEF StartApply, Begin, TypeInv, TypeOK
  <2>3. ASSUME NEW e \in Edits, StartApply(c, e)
        PROVE  WrittenBy(e) = {}
    <3>1. edits[e].status = "proposed" /\ edits[e] # NoEdit
      BY <2>3 DEF StartApply, NoEdit
    <3> QED BY <1>5, <3>1 DEF SerialInv, AppliedOnce, Alone
  <2>4. CASE \E e \in Edits : StartApply(c, e)
    <3>1. PICK e \in Edits : StartApply(c, e)
      BY <2>4
    <3>2. WrittenBy(e)' = {}
      BY <1>3, <2>1, <2>3, <3>1
    <3>3. WrittenBy(arg[c].edit)' = {}
      BY <2>2, <3>1, <3>2 DEF WrittenBy
    <3>4. edits' = edits
      BY <2>1 DEF db
    <3> QED BY <2>2, <3>1, <3>3, <3>4 DEF SerialRequest
  <2>5. CASE ~\E e \in Edits : StartApply(c, e)
    <3>1. pc'[c] \in {"row", "assign"} /\ arg'[c].edit = Nil
      BY <1>5, <2>5 DEF Start, StartUpdate, StartRestore, StartAssign, Begin, TypeInv, TypeOK
    <3> QED BY <3>1 DEF SerialRequest
  <2> QED BY <2>4, <2>5
<1>6. CASE ReadRow(c)
  <2>1. pc[c] = "row" /\ UNCHANGED db /\ edits' = edits /\ content' = content
    BY <1>6 DEF ReadRow, db
  <2>2. CASE Exists(arg[c].doc)
    <3>1. pc'[c] = "list" /\ arg' = arg /\ row'[c].text = content[arg[c].doc]
      BY <1>6, <2>2 DEF ReadRow, TypeInv, TypeOK
    <3>2. arg[c].edit # Nil => WrittenBy(arg[c].edit)' = {}
      <4>1. PICK e : e = arg[c].edit
        OBVIOUS
      <4>2. arg[c].edit # Nil => WrittenBy(e) = {}
        BY <1>0, <2>1, <4>1 DEF SerialRequest
      <4>3. WrittenBy(e)' = WrittenBy(e)
        BY <1>3, <2>1
      <4>4. WrittenBy(arg[c].edit)' = WrittenBy(e)'
        BY <3>1, <4>1 DEF WrittenBy
      <4> QED BY <4>2, <4>3, <4>4
    <3>3. row'[c].text = content'[arg'[c].doc] /\ arg'[c].doc = arg[c].doc
      BY <2>1, <3>1
    <3>4. arg'[c].edit # Nil => edits'[arg'[c].edit].doc = arg'[c].doc
      BY <1>0, <2>1, <3>1 DEF SerialRequest
    <3>5. arg'[c].edit # Nil => WrittenBy(arg[c].edit)' = {}
      BY <3>1, <3>2
    <3> QED BY <3>3, <3>4, <3>5 DEF SerialRequest
  <2>3. CASE ~Exists(arg[c].doc)
    <3>1. AfterUpdate(c) /\ pc[c] # "idle"
      BY <1>6, <2>3 DEF ReadRow
    <3> QED BY <1>2, <2>1, <3>1
  <2> QED BY <2>2, <2>3
<1>7. CASE ListVersions(c) \/ ReadForSnapshot(c) \/ ReadNumber(c)
  <2>1. pc[c] \in {"list", "snapshot", "number"} /\ UNCHANGED db /\ edits' = edits
    BY <1>7 DEF ListVersions, ReadForSnapshot, ReadNumber, db
  <2>2. UNCHANGED <<arg, row>> \/ AfterUpdate(c)
    BY <1>7 DEF ListVersions, ReadForSnapshot, ReadNumber, CheckFolder, Goto
  <2> QED BY <1>2, <1>4, <2>1, <2>2
<1>8. CASE WriteNothing(c) \/ WriteRow(c)
  <2>1. pc[c] # "idle" /\ edits' = edits /\ AfterUpdate(c)
    BY <1>8 DEF WriteNothing, WriteRow, db
  <2> QED BY <1>2, <2>1
<1>9. CASE SnapshotFails(c) \/ WriteRefused(c) \/ MarkApplied(c) \/ WriteAssign(c)
  <2>1. pc'[c] = "idle"
    BY <1>9 DEF SnapshotFails, WriteRefused, MarkApplied, WriteAssign, Finish, TypeInv, TypeOK
  <2> QED BY <1>1, <2>1
<1> QED
  BY <1>5, <1>6, <1>7, <1>8, <1>9 DEF Step

\* Every serial step keeps the invariant.
LEMMA SerialStep ==
  ASSUME TypeInv, SerialInv, [SerialNext]_vars
  PROVE  SerialInv'
<1>0. TypeInv'
  BY TypeStep, SerialIsNext
<1>1. FactsMatchText' /\ EditsOfVersions' /\ AppliedOnce'
  BY <1>0, SerialFacts, SerialVersions, SerialApplied
<1>2. OneAtATime' /\ \A k \in Conns : SerialRequest(k)'
  <2>1. ASSUME NEW c \in Conns, (Alone /\ Start(c)) \/ Step(c)
        PROVE  OneAtATime' /\ \A k \in Conns : SerialRequest(k)'
    <3>1. OneAtATime' /\ \A k \in Conns : k # c => pc'[k] = "idle"
      BY <2>1, OneRequestActs DEF SerialInv
    <3>2. \A k \in Conns : pc'[k] = "idle" => SerialRequest(k)'
      BY DEF SerialRequest
    <3>3. SerialRequest(c)'
      BY <1>0, <2>1, SerialRequestMoves
    <3> QED BY <3>1, <3>2, <3>3
  <2>2. CASE Alone /\ Atomic
    <3>1. pc' = pc
      BY <2>2 DEF Atomic, CreateMatter, DeleteMatter, CreateFolder, Ingest, CreateEdit, req
    <3> QED BY <2>2, <3>1 DEF Alone, OneAtATime, SerialRequest
  <2>3. CASE UNCHANGED vars
    <3>1. /\ UNCHANGED <<content, versions, edits, pc, arg, row>>
          /\ OneAtATime /\ \A k \in Conns : SerialRequest(k)
      BY <2>3 DEF vars, SerialInv
    <3>2. \A e : WrittenBy(e)' = WrittenBy(e)
      BY <3>1 DEF WrittenBy
    <3>3. OneAtATime'
      BY <3>1 DEF OneAtATime
    <3>4. \A k \in Conns : SerialRequest(k)'
      BY <3>1, <3>2 DEF SerialRequest
    <3> QED BY <3>3, <3>4
  <2> QED BY <2>1, <2>2, <2>3 DEF SerialNext
<1> QED BY <1>1, <1>2 DEF SerialInv

\* It holds before the first request: no edit is there yet.
LEMMA SerialInit == Init => SerialInv
<1> SUFFICES ASSUME Init PROVE SerialInv
  OBVIOUS
<1>1. \A d \in Docs : \A e : Carrying(versions[d], e) = {}
  BY CarryingNothing DEF Init
<1>2. AppliedOnce
  BY DEF Init, AppliedOnce
<1>3. OneAtATime /\ FactsMatchText /\ \A c \in Conns : SerialRequest(c)
  BY DEF Init, OneAtATime, FactsMatchText, SerialRequest
<1> QED BY <1>1, <1>2, <1>3 DEF SerialInv, EditsOfVersions

\* So it holds however many requests follow one another.
LEMMA SerialIsCorrect == SerialSpec => [](TypeInv /\ SerialInv)
<1>1. Init => TypeInv /\ SerialInv
  BY TypeInit, SerialInit
<1>2. TypeInv /\ SerialInv /\ [SerialNext]_vars => (TypeInv /\ SerialInv)'
  BY TypeStep, SerialIsNext, SerialStep
<1> QED BY <1>1, <1>2, PTL DEF SerialSpec

\* When requests do not overlap, the facts of a document are always those of its
\* text, through every update, restore, edit and new ingestion.
THEOREM FactsAreCurrent == SerialSpec => []FactsMatchText
<1>1. SerialInv => FactsMatchText
  BY DEF SerialInv
<1> QED BY <1>1, SerialIsCorrect, PTL

\* When requests do not overlap, an edit is written once, and one that is written
\* and not marked is being marked: apply_document_edit's second transaction.
THEOREM EditsApplyOnce == SerialSpec => []AppliedOnce
<1>1. SerialInv => AppliedOnce
  BY DEF SerialInv
<1> QED BY <1>1, SerialIsCorrect, PTL

=============================================================================
