------------------------ MODULE WorkspaceRows_proofs ------------------------
(* Theorems about WorkspaceRows, for any tables, values and requests.      *)
EXTENDS WorkspaceRows, TLAPS

Steps == {"idle", "insert", "again", "write", "snapshot", "number", "version"}

\* What the database holds and was asked to hold.
RowOK ==
  /\ row \in Rows \cup {None} /\ want \in Rows \cup {None}
  /\ versions \subseteq Nat \X Rows
  /\ parent \in BOOLEAN /\ born \in BOOLEAN /\ mixed \in BOOLEAN

\* What the requests under way have read.
ReqOK ==
  /\ pc \in [Reqs -> Steps]
  /\ arg \in [Reqs -> Rows \cup (Fields \X Values) \cup {None}]
  /\ got \in [Reqs -> Rows \cup {None}]
  /\ number \in [Reqs -> Nat]
  /\ \A r \in Reqs :
       /\ pc[r] = "insert" => arg[r] \in Rows
       /\ pc[r] \in {"again", "write"} => arg[r] \in Fields \X Values
       /\ pc[r] \in {"again", "write", "number", "version"} => got[r] \in Rows

\* Finitely many versions have a newest one.
HasNewest ==
  \E m \in {0} \cup {v[1] : v \in versions} : \A v \in versions : v[1] <= m

TypeOK == RowOK /\ ReqOK /\ HasNewest

USE NoneAssumption, VersionsAssumption

-----------------------------------------------------------------------------
(* The newest version.                                                     *)

LEMMA NewestIs ==
  ASSUME versions \subseteq Nat \X Rows, HasNewest
  PROVE  /\ Newest \in Nat
         /\ \A v \in versions : v[1] <= Newest
         /\ Newest = 0 \/ \E v \in versions : v[1] = Newest
  <1>. DEFINE S == {0} \cup {v[1] : v \in versions}
  <1>1. S \subseteq Nat
    OBVIOUS
  <1>2. PICK m \in S : \A v \in versions : v[1] <= m
    BY DEF HasNewest
  <1>3. \A y \in S : m >= y
    BY <1>1, <1>2
  <1>4. Max(S) \in S /\ \A y \in S : Max(S) >= y
    BY <1>3 DEF Max
  <1>5. Newest = Max(S)
    BY DEF Newest
  <1>. HIDE DEF Newest
  <1>. QED BY <1>1, <1>4, <1>5

\* A version put first is the newest.
LEMMA OneMore ==
  ASSUME versions \subseteq Nat \X Rows, HasNewest,
         NEW n \in Nat, NEW new, versions' = versions \cup {<<n, new>>}
  PROVE  HasNewest'
  <1>1. PICK m \in {0} \cup {v[1] : v \in versions} : \A v \in versions : v[1] <= m
    BY DEF HasNewest
  <1>2. m \in Nat
    OBVIOUS
  <1>3. CASE n <= m
    BY <1>1, <1>2, <1>3 DEF HasNewest
  <1>4. CASE m < n
    <2>1. \A v \in versions' : v[1] <= n
      BY <1>1, <1>2, <1>4
    <2>2. <<n, new>> \in versions' /\ <<n, new>>[1] = n
      OBVIOUS
    <2>3. n \in {v[1] : v \in versions'}
      BY ONLY <2>2
    <2>. QED BY <2>1, <2>3 DEF HasNewest
  <1>. QED BY <1>2, <1>3, <1>4

LEMMA NoneLeft == versions' = {} => HasNewest'
  BY DEF HasNewest

LEMMA SameNewest == HasNewest /\ versions' = versions => HasNewest'
  BY DEF HasNewest

LEMMA ChangedIsRow ==
  ASSUME NEW old \in Rows, NEW f \in Fields, NEW v \in Values
  PROVE  Changed(old, f, v) \in Rows
  BY DEF Changed, Rows

-----------------------------------------------------------------------------
(* Types.                                                                  *)

LEMMA InitType == Init => TypeOK
  <1>. SUFFICES ASSUME Init PROVE TypeOK
    OBVIOUS
  <1>1. RowOK
    BY DEF Init, RowOK
  <1>2. ReqOK
    BY DEF Init, ReqOK, Steps
  <1>3. HasNewest
    BY DEF Init, HasNewest
  <1>. QED BY <1>1, <1>2, <1>3 DEF TypeOK

\* The steps of a request, by what they write.
Creating(r, new) ==
  \/ table # "pack" /\ (CreateAtOnce(r, new) \/ LookUpParent(r, new))
  \/ SavePack(r, new)

Reading(r, f, v) == ReadFor(r, f, v, "write") \/ ReadFor(r, f, v, "again")

Other(r) ==
  \/ Insert(r) \/ ReadAgain(r) \/ Write(r)
  \/ ReadPack(r) \/ ReadNumber(r) \/ InsertVersion(r)

Removing(r) == DeleteRow(r) \/ DeleteParent(r)

LEMMA NextCases ==
  ASSUME Next
  PROVE  \/ \E r \in Reqs : \/ \E new \in Rows : Creating(r, new)
                            \/ Other(r)
                            \/ \E f \in Fields, v \in Values : Reading(r, f, v)
                            \/ Removing(r)
         \/ Crash
  <1>1. ASSUME NEW r \in Reqs, Creation(r)
        PROVE  \E new \in Rows : Creating(r, new)
    BY <1>1 DEF Creation, Creating, CreateMatter, AddMemory, SaveTemplate, CreateArtifact,
         CreateFolder, AddAnnotation, AddComment, CreateReview, SaveView, CreateChat, DuplicatePack
  <1>2. ASSUME NEW r \in Reqs, Change(r)
        PROVE  \E f \in Fields, v \in Values : Reading(r, f, v)
    BY <1>2 DEF Change, Reading, ReadRow, PatchMatter, PatchMemory, PatchFolder, PatchAnnotation, PatchComment,
         PatchReview, EditCell, PatchChat, UpdatePack, SaveSettings
  <1>3. ASSUME NEW r \in Reqs, Deletion(r)
        PROVE  Removing(r)
    BY <1>3 DEF Deletion, Removing, DeleteMatter, DeleteMemory, DeleteAnnotation, DeletePack,
         DeleteChat
  <1>. QED BY <1>1, <1>2, <1>3 DEF Next, Other

LEMMA EndType ==
  ASSUME ReqOK, NEW r \in Reqs, End(r)
  PROVE  ReqOK'
  BY DEF ReqOK, End, Goto, Steps

LEMMA NextType == TypeOK /\ [Next]_vars => TypeOK'
  <1>1. ASSUME TypeOK, UNCHANGED vars
        PROVE  TypeOK'
    BY <1>1 DEF TypeOK, RowOK, ReqOK, HasNewest, vars
  <1>2. ASSUME TypeOK, NEW r \in Reqs, NEW new \in Rows, Creating(r, new)
        PROVE  TypeOK'
    <2>1. versions' = versions
      BY <1>2 DEF Creating, CreateAtOnce, LookUpParent, SavePack
    <2>2. RowOK'
      BY <1>2 DEF Creating, CreateAtOnce, LookUpParent, SavePack, Overlap, TypeOK, RowOK
    <2>3. ReqOK'
      <3>1. CASE CreateAtOnce(r, new)
        BY <1>2, <3>1 DEF CreateAtOnce, locals, TypeOK, ReqOK
      <3>2. CASE LookUpParent(r, new)
        BY <1>2, <3>2 DEF LookUpParent, Idle, Goto, TypeOK, ReqOK, Steps
      <3>3. CASE SavePack(r, new)
        BY <1>2, <3>3 DEF SavePack, Idle, Goto, locals, TypeOK, ReqOK, Steps
      <3>. QED BY <1>2, <3>1, <3>2, <3>3 DEF Creating
    <2>. QED BY <1>2, <2>1, <2>2, <2>3, SameNewest DEF TypeOK
  <1>3. ASSUME TypeOK, NEW r \in Reqs, NEW f \in Fields, NEW v \in Values, Reading(r, f, v)
        PROVE  TypeOK'
    <2>1. versions' = versions
      BY <1>3 DEF Reading, ReadFor
    <2>2. RowOK'
      BY <1>3 DEF Reading, ReadFor, Overlap, TypeOK, RowOK
    <2>3. ReqOK'
      BY <1>3 DEF Reading, ReadFor, Goto, TypeOK, RowOK, ReqOK, Steps
    <2>. QED BY <1>3, <2>1, <2>2, <2>3, SameNewest DEF TypeOK
  <1>4. ASSUME TypeOK, NEW r \in Reqs, Removing(r)
        PROVE  TypeOK'
    <2>1. versions' = versions \/ versions' = {}
      BY <1>4 DEF Removing, DeleteRow, DeleteParent
    <2>2. RowOK'
      BY <1>4 DEF Removing, DeleteRow, DeleteParent, Overlap, TypeOK, RowOK
    <2>3. ReqOK'
      BY <1>4 DEF Removing, DeleteRow, DeleteParent, locals, TypeOK, ReqOK
    <2>. QED BY <1>4, <2>1, <2>2, <2>3, SameNewest, NoneLeft DEF TypeOK
  <1>5. ASSUME TypeOK, Crash
        PROVE  TypeOK'
    <2>1. RowOK'
      BY <1>5 DEF Crash, TypeOK, RowOK
    <2>2. ReqOK'
      BY <1>5 DEF Crash, TypeOK, ReqOK, Steps
    <2>3. versions' = versions
      BY <1>5 DEF Crash
    <2>. QED BY <1>5, <2>1, <2>2, <2>3, SameNewest DEF TypeOK
  <1>6. ASSUME TypeOK, NEW r \in Reqs, Insert(r)
        PROVE  TypeOK'
    <2>1. ReqOK'
      BY <1>6, EndType DEF Insert, TypeOK
    <2>2. RowOK' /\ versions' = versions
      BY <1>6 DEF Insert, TypeOK, RowOK, ReqOK
    <2>. QED BY <1>6, <2>1, <2>2, SameNewest DEF TypeOK
  <1>7. ASSUME TypeOK, NEW r \in Reqs, Write(r)
        PROVE  TypeOK'
    <2>1. ReqOK'
      BY <1>7, EndType DEF Write, TypeOK
    <2>2. NewRow(r) \in Rows
      BY <1>7, ChangedIsRow DEF Write, NewRow, TypeOK, ReqOK
    <2>3. want' \in Rows \cup {None}
      BY <1>7, ChangedIsRow DEF Write, TypeOK, ReqOK, RowOK
    <2>4. Newest \in Nat /\ NextNumber \in Nat
      BY <1>7, NewestIs DEF TypeOK, RowOK, NextNumber
    <2>5. versions' = versions \/ versions' = versions \cup {<<NextNumber, NewRow(r)>>}
      BY <1>7 DEF Write, Snapshot
    <2>6. RowOK'
      BY <1>7, <2>2, <2>3, <2>4, <2>5 DEF Write, TypeOK, RowOK
    <2>7. HasNewest'
      BY <1>7, <2>4, <2>5, SameNewest, OneMore DEF TypeOK, RowOK
    <2>. QED BY <2>1, <2>6, <2>7 DEF TypeOK
  <1>8. ASSUME TypeOK, NEW r \in Reqs, ReadPack(r)
        PROVE  TypeOK'
    <2>1. RowOK' /\ versions' = versions
      BY <1>8 DEF ReadPack, TypeOK, RowOK
    <2>2. ReqOK'
      <3>1. CASE row = None
        BY <1>8, <3>1, EndType DEF ReadPack, TypeOK
      <3>2. CASE row # None
        BY <1>8, <3>2 DEF ReadPack, Goto, TypeOK, RowOK, ReqOK, Steps
      <3>. QED BY <3>1, <3>2
    <2>. QED BY <1>8, <2>1, <2>2, SameNewest DEF TypeOK
  <1>9. ASSUME TypeOK, NEW r \in Reqs, ReadNumber(r)
        PROVE  TypeOK'
    <2>1. RowOK' /\ versions' = versions
      BY <1>9 DEF ReadNumber, TypeOK, RowOK
    <2>2. NextNumber \in Nat
      BY <1>9, NewestIs DEF TypeOK, RowOK, NextNumber
    <2>3. ReqOK'
      BY <1>9, <2>2 DEF ReadNumber, Goto, TypeOK, ReqOK, Steps
    <2>. QED BY <1>9, <2>1, <2>3, SameNewest DEF TypeOK
  <1>10. ASSUME TypeOK, NEW r \in Reqs, InsertVersion(r)
        PROVE  TypeOK'
    <2>1. ReqOK'
      BY <1>10, EndType DEF InsertVersion, TypeOK
    <2>2. versions' = versions \/ versions' = versions \cup {<<number[r], got[r]>>}
      BY <1>10 DEF InsertVersion
    <2>3. number[r] \in Nat /\ got[r] \in Rows
      BY <1>10 DEF InsertVersion, TypeOK, ReqOK
    <2>4. RowOK'
      BY <1>10, <2>2, <2>3 DEF InsertVersion, TypeOK, RowOK
    <2>5. HasNewest'
      BY <1>10, <2>2, <2>3, SameNewest, OneMore DEF TypeOK, RowOK
    <2>. QED BY <2>1, <2>4, <2>5 DEF TypeOK
  <1>11. ASSUME TypeOK, NEW r \in Reqs, ReadAgain(r)
         PROVE  TypeOK'
    <2>1. RowOK' /\ versions' = versions
      BY <1>11 DEF ReadAgain, TypeOK, RowOK
    <2>2. ReqOK'
      <3>1. CASE row = None
        BY <1>11, <3>1, EndType DEF ReadAgain, TypeOK
      <3>2. CASE row # None
        BY <1>11, <3>2 DEF ReadAgain, Goto, locals, TypeOK, RowOK, ReqOK, Steps
      <3>. QED BY <3>1, <3>2
    <2>. QED BY <1>11, <2>1, <2>2, SameNewest DEF TypeOK
  <1>. QED
    BY <1>1, <1>2, <1>3, <1>4, <1>5, <1>6, <1>7, <1>8, <1>9, <1>10, <1>11, NextCases DEF Other

\* The row, the versions and what each request has read keep their types.
THEOREM TypeCorrect == Spec => []TypeOK
  BY InitType, NextType, PTL DEF Spec

-----------------------------------------------------------------------------
(* One request at a time.                                                  *)

\* The versions are those of a pack.
Kinds ==
  \A r \in Reqs : /\ pc[r] = "insert" => table # "pack"
                  /\ pc[r] \in {"snapshot", "number", "version"} => table = "pack"

Alone == \A r, o \in Reqs : ~Idle(r) /\ ~Idle(o) => r = o

\* What a request has read is what there is.
ReadsHold ==
  \A r \in Reqs :
    /\ pc[r] \in {"again", "write", "number", "version"} => got[r] = row
    /\ pc[r] = "snapshot" => row # None
    /\ pc[r] = "version" => number[r] = NextNumber
    /\ pc[r] \in {"snapshot", "number", "version"} => \A s \in owed : s[1] = row

OwedOK == \A s \in owed : s[2] = "save" /\ (mixed \/ Saving)

NewestIsRow == table = "pack" /\ row # None /\ ~Saving => <<Newest, row>> \in versions

Calm == Alone /\ row = want /\ ReadsHold /\ NewestIsRow

NotWrittenBack == table \notin Upserted /\ want = None => row = None

RowsInv == TypeOK /\ Kinds /\ (~mixed => Calm) /\ OwedOK /\ NotWrittenBack

\* The version an update or a save adds is the newest.
LEMMA TopAdded ==
  ASSUME TypeOK, TypeOK', NEW new, versions' = versions \cup {<<NextNumber, new>>}
  PROVE  Newest' = NextNumber
  <1>1. /\ Newest \in Nat /\ NextNumber = Newest + 1
        /\ \A v \in versions : v[1] <= Newest
    BY NewestIs DEF TypeOK, RowOK, NextNumber
  <1>2. (versions \subseteq Nat \X Rows /\ HasNewest =>
           /\ Newest \in Nat
           /\ \A v \in versions : v[1] <= Newest
           /\ Newest = 0 \/ \E v \in versions : v[1] = Newest)'
    BY NewestIs, PTL
  <1>3. /\ Newest' \in Nat
        /\ \A v \in versions' : v[1] <= Newest'
        /\ Newest' = 0 \/ \E v \in versions' : v[1] = Newest'
    BY <1>2 DEF TypeOK, RowOK
  <1>4. versions \subseteq Nat \X Rows
    BY DEF TypeOK, RowOK
  <1>5. NextNumber <= Newest'
    <2>1. <<NextNumber, new>> \in versions'
      OBVIOUS
    <2>2. <<NextNumber, new>>[1] <= Newest'
      BY <1>3, <2>1
    <2>. QED BY <2>2
  <1>6. Newest' <= NextNumber
    BY <1>1, <1>3, <1>4
  <1>. QED BY <1>1, <1>3, <1>5, <1>6

LEMMA SameNumber == versions' = versions => Newest' = Newest /\ NextNumber' = NextNumber
  BY DEF Newest, NextNumber

LEMMA KindsStep == TypeOK /\ Kinds /\ Next => Kinds'
  <1>. SUFFICES ASSUME TypeOK, Kinds, Next PROVE Kinds'
    OBVIOUS
  <1>. USE DEF TypeOK, ReqOK, Kinds, Goto, End
  <1>1. ASSUME NEW r \in Reqs, NEW new \in Rows, Creating(r, new)
        PROVE  Kinds'
    BY <1>1 DEF Creating, CreateAtOnce, LookUpParent, SavePack
  <1>2. ASSUME NEW r \in Reqs, NEW f \in Fields, NEW v \in Values, Reading(r, f, v)
        PROVE  Kinds'
    BY <1>2 DEF Reading, ReadFor
  <1>3. ASSUME NEW r \in Reqs, Removing(r)
        PROVE  Kinds'
    BY <1>3 DEF Removing, DeleteRow, DeleteParent
  <1>4. CASE Crash
    BY <1>4 DEF Crash
  <1>5. ASSUME NEW r \in Reqs, Other(r)
        PROVE  Kinds'
    BY <1>5 DEF Other, Insert, ReadAgain, Write, ReadPack, ReadNumber, InsertVersion, locals
  <1>. QED BY <1>1, <1>2, <1>3, <1>4, <1>5, NextCases

LEMMA OwedStep ==
  ASSUME RowsInv, Next
  PROVE  OwedOK'
  <1>. USE DEF RowsInv
  <1>1. ASSUME NEW r \in Reqs, NEW new \in Rows, Creating(r, new)
        PROVE  OwedOK'
    <2>1. CASE SavePack(r, new)
      <3>1. owed' \subseteq owed \cup {<<new, "save">>}
        BY <2>1 DEF SavePack, Owe
      <3>2. Saving'
        BY <2>1 DEF SavePack, Goto, Saving, TypeOK, ReqOK
      <3>. QED BY <3>1, <3>2 DEF OwedOK
    <2>2. CASE CreateAtOnce(r, new)
      BY <2>2 DEF CreateAtOnce, Overlap, OwedOK, Saving
    <2>3. CASE LookUpParent(r, new)
      BY <2>3 DEF LookUpParent, Overlap, OwedOK, Saving, Idle, Goto, TypeOK, ReqOK
    <2>. QED BY <1>1, <2>1, <2>2, <2>3 DEF Creating
  <1>2. ASSUME NEW r \in Reqs, NEW f \in Fields, NEW v \in Values, Reading(r, f, v)
        PROVE  OwedOK'
    BY <1>2 DEF Reading, ReadFor, Overlap, OwedOK, Saving, Idle, Goto, TypeOK, ReqOK
  <1>3. ASSUME NEW r \in Reqs, Removing(r)
        PROVE  OwedOK'
    BY <1>3 DEF Removing, DeleteRow, DeleteParent, Overlap, OwedOK, Saving
  <1>4. CASE Crash
    BY <1>4 DEF Crash, OwedOK, Saving
  <1>5. ASSUME NEW r \in Reqs, Insert(r)
        PROVE  OwedOK'
    BY <1>5 DEF Insert, End, Goto, OwedOK, Saving, TypeOK, ReqOK
  <1>6. ASSUME NEW r \in Reqs, Write(r)
        PROVE  OwedOK'
    <2>1. owed' \subseteq owed
      <3>1. CASE table = "pack" /\ row # None
        <4>1. <<NextNumber, NewRow(r)>> \in versions'
          BY <1>6, <3>1 DEF Write, Snapshot
        <4>2. owed' = {s \in owed \cup {<<NewRow(r), "update">>} : \A v \in versions' : v[2] # s[1]}
          BY <1>6, <3>1 DEF Write, Owe
        <4>. QED BY <4>1, <4>2
      <3>2. CASE ~(table = "pack" /\ row # None)
        <4>1. Owe({})
          BY <1>6, <3>2 DEF Write
        <4>. QED BY <4>1 DEF Owe
      <3>. QED BY <3>1, <3>2
    <2>2. mixed' = mixed /\ (Saving => Saving')
      BY <1>6 DEF Write, End, Goto, Saving, TypeOK, ReqOK
    <2>. QED BY <2>1, <2>2 DEF OwedOK
  <1>7. ASSUME NEW r \in Reqs, ReadPack(r)
        PROVE  OwedOK'
    <2>1. owed' = owed /\ mixed' = mixed
      BY <1>7 DEF ReadPack
    <2>2. Saving' \/ mixed
      BY <1>7 DEF ReadPack, Calm, ReadsHold, Goto, Saving, TypeOK, ReqOK
    <2>. QED BY <2>1, <2>2 DEF OwedOK
  <1>8. ASSUME NEW r \in Reqs, ReadNumber(r)
        PROVE  OwedOK'
    <2>1. owed' = owed /\ Saving'
      BY <1>8 DEF ReadNumber, Goto, Saving, TypeOK, ReqOK
    <2>. QED BY <2>1 DEF OwedOK
  <1>9. ASSUME NEW r \in Reqs, InsertVersion(r)
        PROVE  OwedOK'
    <2>1. owed' \subseteq owed /\ mixed' = mixed
      BY <1>9 DEF InsertVersion, Owe
    <2>2. ASSUME ~mixed
          PROVE  owed' = {}
      <3>1. /\ got[r] = row /\ row # None /\ number[r] = NextNumber
            /\ \A s \in owed : s[1] = row
        BY <1>9, <2>2 DEF InsertVersion, Calm, ReadsHold, TypeOK, ReqOK
      <3>2. \A v \in versions : v[1] # NextNumber
        BY NewestIs DEF TypeOK, RowOK, NextNumber
      <3>3. <<number[r], row>> \in versions'
        BY <1>9, <3>1, <3>2 DEF InsertVersion
      <3>4. \A s \in owed' : s \in owed /\ \A v \in versions' : v[2] # s[1]
        BY <1>9 DEF InsertVersion, Owe
      <3>. QED BY <3>1, <3>3, <3>4
    <2>. QED BY <2>1, <2>2 DEF OwedOK
  <1>10. ASSUME NEW r \in Reqs, ReadAgain(r)
         PROVE  OwedOK'
    <2>1. owed' = owed /\ mixed' = mixed /\ (Saving => Saving')
      BY <1>10 DEF ReadAgain, End, Goto, Saving, TypeOK, ReqOK
    <2>. QED BY <2>1 DEF OwedOK
  <1>. QED
    BY <1>1, <1>2, <1>3, <1>4, <1>5, <1>6, <1>7, <1>8, <1>9, <1>10, NextCases DEF Other

\* While requests do not overlap, everything is as the last one left it.
LEMMA CalmStep ==
  ASSUME RowsInv, Next, TypeOK', Kinds', OwedOK', ~mixed'
  PROVE  Calm'
  <1>. USE DEF RowsInv
  <1>1. ASSUME NEW r \in Reqs, NEW new \in Rows, Creating(r, new)
        PROVE  Calm'
    <2>1. /\ ~mixed /\ Idle(r) /\ \A o \in Reqs \ {r} : Idle(o)
          /\ \A o \in Reqs \ {r} : Idle(o)'
      BY <1>1 DEF Creating, CreateAtOnce, LookUpParent, SavePack, Overlap, Idle, Goto, TypeOK, ReqOK
    <2>2. CASE SavePack(r, new)
      <3>1. pc'[r] = "snapshot" /\ row' = new /\ want' = new
        BY <2>2 DEF SavePack, Goto, TypeOK, ReqOK
      <3>2. \A s \in owed' : s \in owed \/ s = <<new, "save">>
        BY <2>2 DEF SavePack, Owe
      <3>3. owed = {}
        BY <2>1 DEF OwedOK, Saving, Idle
      <3>. QED BY <2>1, <3>1, <3>2, <3>3 DEF Calm, Alone, ReadsHold, NewestIsRow, Saving, Idle
    <2>3. CASE table # "pack" /\ CreateAtOnce(r, new)
      BY <2>1, <2>3 DEF CreateAtOnce, Calm, Alone, ReadsHold, NewestIsRow, Idle
    <2>4. CASE table # "pack" /\ LookUpParent(r, new)
      <3>1. pc'[r] = "insert" /\ UNCHANGED <<row, want, table>>
        BY <2>4 DEF LookUpParent, Goto, TypeOK, ReqOK
      <3>. QED BY <2>1, <2>4, <3>1 DEF Calm, Alone, ReadsHold, NewestIsRow, Idle
    <2>. QED BY <1>1, <2>2, <2>3, <2>4 DEF Creating
  <1>2. ASSUME NEW r \in Reqs, NEW f \in Fields, NEW v \in Values, Reading(r, f, v)
        PROVE  Calm'
    <2>1. /\ ~mixed /\ Idle(r) /\ \A o \in Reqs \ {r} : Idle(o)
          /\ \A o \in Reqs \ {r} : Idle(o)'
          /\ pc'[r] \in {"again", "write"} /\ got'[r] = row
          /\ UNCHANGED <<row, want, table, versions>>
      BY <1>2 DEF Reading, ReadFor, Overlap, Idle, Goto, TypeOK, ReqOK
    <2>2. ~Saving
      BY <2>1 DEF Idle, Saving
    <2>. QED BY <2>1, <2>2, SameNumber DEF Calm, Alone, ReadsHold, NewestIsRow, Idle
  <1>3. ASSUME NEW r \in Reqs, Removing(r)
        PROVE  Calm'
    <2>1. /\ \A o \in Reqs : Idle(o) /\ Idle(o)'
          /\ row' = None /\ want' = None
      BY <1>3 DEF Removing, DeleteRow, DeleteParent, Overlap, Idle
    <2>. QED BY <2>1 DEF Calm, Alone, ReadsHold, NewestIsRow, Idle
  <1>4. CASE Crash
    <2>1. /\ ~mixed /\ ~Saving /\ \A o \in Reqs : Idle(o)'
          /\ UNCHANGED <<row, want, table, versions>>
      BY <1>4 DEF Crash, Saving, Idle, TypeOK, ReqOK
    <2>. QED BY <2>1, SameNumber DEF Calm, Alone, ReadsHold, NewestIsRow, Idle
  <1>5. ASSUME NEW r \in Reqs, Insert(r)
        PROVE  Calm'
    <2>1. /\ Calm /\ ~Idle(r) /\ table # "pack" /\ table' = table
          /\ (row' = row /\ want' = want) \/ (row' = arg[r] /\ want' = arg[r])
      BY <1>5 DEF Insert, Idle, Kinds
    <2>2. \A o \in Reqs : Idle(o)'
      BY <1>5, <2>1 DEF Insert, End, Goto, Idle, Calm, Alone, TypeOK, ReqOK
    <2>. QED BY <2>1, <2>2 DEF Calm, Alone, ReadsHold, NewestIsRow, Idle
  <1>6. ASSUME NEW r \in Reqs, Write(r)
        PROVE  Calm'
    <2>1. /\ Calm /\ got[r] = row /\ row # None /\ want # None /\ ~Idle(r) /\ ~mixed
      BY <1>6 DEF Write, Calm, ReadsHold, Idle, TypeOK, ReqOK
    <2>2. \A o \in Reqs : Idle(o)'
      BY <1>6, <2>1 DEF Write, End, Goto, Idle, Calm, Alone, TypeOK, ReqOK
    <2>3. row' = NewRow(r) /\ want' = NewRow(r) /\ table' = table
      BY <1>6, <2>1 DEF Write, NewRow, Replaces, Calm
    <2>4. table = "pack" => <<Newest', NewRow(r)>> \in versions'
      <3>. SUFFICES ASSUME table = "pack" PROVE <<Newest', NewRow(r)>> \in versions'
        OBVIOUS
      <3>1. versions' = versions \cup {<<NextNumber, NewRow(r)>>}
        BY <1>6, <2>1 DEF Write, Snapshot
      <3>2. Newest' = NextNumber
        BY <3>1, TopAdded
      <3>. QED BY <3>1, <3>2
    <2>. QED BY <2>2, <2>3, <2>4 DEF Calm, Alone, ReadsHold, NewestIsRow, Idle
  <1>7. ASSUME NEW r \in Reqs, ReadPack(r)
        PROVE  Calm'
    <2>1. /\ Calm /\ row # None /\ ~Idle(r)
          /\ UNCHANGED <<row, want, table, versions, owed>>
          /\ pc'[r] = "number" /\ got'[r] = row
      BY <1>7 DEF ReadPack, Goto, Calm, ReadsHold, Idle, TypeOK, ReqOK
    <2>2. \A o \in Reqs \ {r} : Idle(o)'
      BY <1>7, <2>1 DEF ReadPack, End, Goto, Idle, Calm, Alone, TypeOK, ReqOK
    <2>3. Saving'
      BY <2>1 DEF Saving
    <2>4. \A s \in owed : s[1] = row
      BY <1>7, <2>1 DEF ReadPack, Calm, ReadsHold
    <2>. QED BY <2>1, <2>2, <2>3, <2>4 DEF Calm, Alone, ReadsHold, NewestIsRow, Idle
  <1>8. ASSUME NEW r \in Reqs, ReadNumber(r)
        PROVE  Calm'
    <2>1. /\ Calm /\ ~Idle(r) /\ got[r] = row
          /\ UNCHANGED <<row, want, table, versions, owed, got>>
          /\ pc'[r] = "version" /\ number'[r] = NextNumber
      BY <1>8 DEF ReadNumber, Goto, Calm, ReadsHold, Idle, TypeOK, ReqOK
    <2>2. \A o \in Reqs \ {r} : Idle(o)'
      BY <1>8, <2>1 DEF ReadNumber, Goto, Idle, Calm, Alone, TypeOK, ReqOK
    <2>3. Saving'
      BY <2>1 DEF Saving
    <2>4. \A s \in owed : s[1] = row
      BY <1>8, <2>1 DEF ReadNumber, Calm, ReadsHold
    <2>. QED
      BY <2>1, <2>2, <2>3, <2>4, SameNumber DEF Calm, Alone, ReadsHold, NewestIsRow, Idle
  <1>9. ASSUME NEW r \in Reqs, InsertVersion(r)
        PROVE  Calm'
    <2>1. /\ Calm /\ ~Idle(r) /\ got[r] = row /\ row # None /\ number[r] = NextNumber
          /\ UNCHANGED <<row, want, table>>
      BY <1>9 DEF InsertVersion, Calm, ReadsHold, Idle, TypeOK, ReqOK
    <2>2. \A o \in Reqs : Idle(o)'
      BY <1>9, <2>1 DEF InsertVersion, End, Goto, Idle, Calm, Alone, TypeOK, ReqOK
    <2>3. \A v \in versions : v[1] # NextNumber
      BY NewestIs DEF TypeOK, RowOK, NextNumber
    <2>4. versions' = versions \cup {<<NextNumber, row>>}
      BY <1>9, <2>1, <2>3 DEF InsertVersion
    <2>5. Newest' = NextNumber
      BY <2>4, TopAdded
    <2>. QED BY <2>1, <2>2, <2>4, <2>5 DEF Calm, Alone, ReadsHold, NewestIsRow, Idle
  <1>10. ASSUME NEW r \in Reqs, ReadAgain(r)
         PROVE  Calm'
    <2>1. /\ Calm /\ got[r] = row /\ row # None /\ ~Idle(r) /\ ~mixed
      BY <1>10 DEF ReadAgain, Calm, ReadsHold, Idle, TypeOK, ReqOK
    <2>2. /\ pc'[r] = "write" /\ \A o \in Reqs \ {r} : pc'[o] = pc[o]
          /\ UNCHANGED <<row, want, table, versions, got>>
      BY <1>10, <2>1 DEF ReadAgain, Goto, locals, TypeOK, ReqOK
    <2>3. /\ \A o \in Reqs \ {r} : Idle(o)'
          /\ ~Saving
      BY <1>10, <2>1, <2>2 DEF ReadAgain, Idle, Calm, Alone, Saving
    <2>. QED BY <2>1, <2>2, <2>3, SameNumber DEF Calm, Alone, ReadsHold, NewestIsRow, Idle
  <1>. QED
    BY <1>1, <1>2, <1>3, <1>4, <1>5, <1>6, <1>7, <1>8, <1>9, <1>10, NextCases DEF Other

\* An UPDATE brings back no row.
LEMMA NotWrittenStep ==
  ASSUME RowsInv, Next
  PROVE  NotWrittenBack'
  <1>. USE DEF RowsInv
  <1>1. ASSUME NEW r \in Reqs, NEW new \in Rows, Creating(r, new)
        PROVE  NotWrittenBack'
    BY <1>1 DEF Creating, CreateAtOnce, LookUpParent, SavePack, NotWrittenBack
  <1>2. ASSUME NEW r \in Reqs, NEW f \in Fields, NEW v \in Values, Reading(r, f, v)
        PROVE  NotWrittenBack'
    BY <1>2 DEF Reading, ReadFor, NotWrittenBack
  <1>3. ASSUME NEW r \in Reqs, Removing(r)
        PROVE  NotWrittenBack'
    BY <1>3 DEF Removing, DeleteRow, DeleteParent, NotWrittenBack
  <1>4. CASE Crash
    BY <1>4 DEF Crash, NotWrittenBack
  <1>5. ASSUME NEW r \in Reqs, Insert(r)
        PROVE  NotWrittenBack'
    BY <1>5 DEF Insert, NotWrittenBack, TypeOK, ReqOK
  <1>6. ASSUME NEW r \in Reqs, Write(r), table \notin Upserted
        PROVE  NotWrittenBack'
    <2>1. CASE want = None
      BY <1>6, <2>1 DEF Write, Replaces, NotWrittenBack
    <2>2. CASE want # None
      <3>1. want' \in Rows
        BY <1>6, <2>2, ChangedIsRow DEF Write, TypeOK, RowOK, ReqOK
      <3>. QED BY <3>1 DEF NotWrittenBack
    <2>. QED BY <2>1, <2>2
  <1>7. ASSUME NEW r \in Reqs, Write(r), table \in Upserted
        PROVE  NotWrittenBack'
    BY <1>7 DEF Write, NotWrittenBack
  <1>8. ASSUME NEW r \in Reqs,
               ReadAgain(r) \/ ReadPack(r) \/ ReadNumber(r) \/ InsertVersion(r)
        PROVE  NotWrittenBack'
    BY <1>8 DEF ReadAgain, ReadPack, ReadNumber, InsertVersion, NotWrittenBack
  <1>. QED BY <1>1, <1>2, <1>3, <1>4, <1>5, <1>6, <1>7, <1>8, NextCases DEF Other

LEMMA RowsInvariant == Spec => []RowsInv
  <1>1. Init => RowsInv
    <2>1. Init => Kinds /\ OwedOK
      BY DEF Init, Kinds, OwedOK
    <2>2. Init => Alone /\ ReadsHold
      BY DEF Init, Alone, Idle, ReadsHold
    <2>3. Init => row = want /\ (table = "pack" => row = None)
      BY DEF Init
    <2>. QED BY <2>1, <2>2, <2>3, InitType DEF RowsInv, Calm, NewestIsRow, NotWrittenBack
  <1>2. RowsInv /\ [Next]_vars => RowsInv'
    <2>1. ASSUME RowsInv, UNCHANGED vars
          PROVE  RowsInv'
      <3>1. TypeOK'
        BY <2>1, NextType DEF RowsInv
      <3>2. Kinds' /\ NotWrittenBack' /\ OwedOK'
        BY <2>1 DEF RowsInv, Kinds, NotWrittenBack, OwedOK, Saving, vars
      <3>3. ~mixed' => Calm'
        BY <2>1, SameNumber
           DEF RowsInv, Calm, Alone, ReadsHold, NewestIsRow, Idle, Saving, vars
      <3>. QED BY <3>1, <3>2, <3>3 DEF RowsInv
    <2>2. ASSUME RowsInv, Next
          PROVE  RowsInv'
      <3>1. TypeOK'
        BY <2>2, NextType DEF RowsInv
      <3>2. Kinds'
        BY <2>2, KindsStep DEF RowsInv
      <3>. QED BY <2>2, <3>1, <3>2, OwedStep, CalmStep, NotWrittenStep DEF RowsInv
    <2>. QED BY <2>1, <2>2
  <1>. QED BY <1>1, <1>2, PTL DEF Spec

-----------------------------------------------------------------------------
\* No change of a row is lost as long as requests do not overlap.
THEOREM NoEditIsLost == Spec => []LastEditStands
  <1>1. RowsInv => LastEditStands
    BY DEF RowsInv, Calm, LastEditStands
  <1>. QED BY <1>1, RowsInvariant, PTL

\* Only the upserts of matters, memories and settings, and only under requests
\* that overlap, write back what was deleted.
THEOREM DeletionsStand == Spec => []DeletedStaysDeleted
  <1>1. RowsInv => DeletedStaysDeleted
    BY DEF RowsInv, Calm, NotWrittenBack, DeletedStaysDeleted
  <1>. QED BY <1>1, RowsInvariant, PTL

\* Whatever an update of a pack overlaps with, what the pack has been can be
\* restored, and so it is of saves that neither overlap nor are cut short.
THEOREM PacksCanBeRestored == Spec => []VersionsFollowPack
  <1>1. RowsInv => VersionsFollowPack
    BY DEF RowsInv, Calm, OwedOK, NewestIsRow, VersionsFollowPack
  <1>. QED BY <1>1, RowsInvariant, PTL
=============================================================================
