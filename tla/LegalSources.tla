---------------------------- MODULE LegalSources ----------------------------
(***************************************************************************)
(* The legal corpus: official documents with the atoms compiled from their *)
(* text, and the typed citation graph the citator reads.  An atom's id is  *)
(* that of a document and what a sentence of it says, whatever the version *)
(* of the document; its row names the version it was last compiled from.   *)
(*                                                                         *)
(* Bundles are fetched article by article inside one write transaction of  *)
(* SQLite; another session reads what was last committed, and cannot write *)
(* until the writer commits or closes.  A web request and a command of the *)
(* command line close their connection when they end, which rolls back     *)
(* what they have not committed; the MCP server keeps one connection for   *)
(* all its tool calls.                                                     *)
(***************************************************************************)
EXTENDS Naturals, Sequences

CONSTANTS
  Docs,      \* documents that may be on record
  Texts,     \* texts of documents
  Atoms,     \* what a text may say: each is an atom of a document
  Says,      \* the atoms each text is compiled to
  Published, \* pairs: the texts each document is published with over time
  Repeals,   \* pairs: the provisions a document may be said to repeal
  InForce,   \* the texts in force at the date asked for; all, if none is asked
  Bundle,    \* the documents of a bundle, in their order
  Short,     \* web requests and commands
  Lasting,   \* MCP servers
  Elsewhere, \* a provision outside the corpus
  None

ASSUME SaysAssumption == Says \in [Texts -> SUBSET Atoms]
ASSUME InForceAssumption == InForce \subseteq Texts
ASSUME PublishedAssumption == Published \subseteq Docs \X Texts
ASSUME RepealsAssumption == Repeals \subseteq Docs \X (Docs \cup {Elsewhere})
ASSUME BundleAssumption == Bundle \in Seq(Docs) \ {<< >>}
ASSUME NoneAssumption == None \notin Texts \cup Short \cup Lasting
ASSUME ElsewhereAssumption == Elsewhere \notin Docs
ASSUME SessionAssumption == Short \cap Lasting = {}

Sessions == Short \cup Lasting

VARIABLES
  db,        \* committed: the text of each document, the version (a text) each
             \* atom is of, and "abroga" edges; history: the session whose
             \* unfinished job has stored a document
  writer,    \* the session whose write transaction is open, or None
  draft,     \* what the writer sees
  pc,        \* what a session is doing
  next,      \* the article of the bundle that is fetched next
  read,      \* the texts a session has read
  todo,      \* documents still to be extracted or examined
  indexed,   \* whether its full-text index was rebuilt when it opened
  evidence,  \* documents an analysis has retrieved
  blocked,   \* those it has found abrogated
  populated, \* whether it has found the graph populated
  fresh,     \* history: documents stored by the job under way
  reported,  \* history: edges an extraction has told its user of
  moved,     \* history: somebody has committed during the analysis or rebuild
  stale      \* history: a rebuild has written atoms although somebody had

store == <<db, writer, draft>>
analysis == <<evidence, blocked, populated, moved>>
vars == <<db, writer, draft, pc, next, read, todo, indexed, evidence, blocked,
          populated, fresh, reported, moved, stale>>

Nothing == [d \in Docs |-> None]
Empty == [text |-> Nothing, atoms |-> [a \in Docs \X Atoms |-> None], edges |-> {}, part |-> Nothing]

Init ==
  /\ db = Empty /\ writer = None /\ draft = Empty
  /\ pc = [c \in Sessions |-> "closed"]
  /\ next = [c \in Sessions |-> 1]
  /\ read = [c \in Sessions |-> Nothing]
  /\ todo = [c \in Sessions |-> {}]
  /\ indexed = [c \in Sessions |-> FALSE]
  /\ evidence = [c \in Sessions |-> {}]
  /\ blocked = [c \in Sessions |-> {}]
  /\ populated = [c \in Sessions |-> FALSE]
  /\ fresh = [c \in Sessions |-> {}]
  /\ moved = [c \in Sessions |-> FALSE]
  /\ reported = {} /\ stale = FALSE

Goto(c, step) == pc' = [pc EXCEPT ![c] = step]
View(c) == IF writer = c THEN draft ELSE db
MayWrite(c) == writer \in {None, c}
OnRecord(base) == {d \in Docs : base.text[d] # None}

\* The first statement that writes opens the transaction.
Write(c, base) ==
  /\ MayWrite(c)
  /\ writer' = c /\ draft' = base /\ db' = db

Leave(c) ==
  /\ next' = [next EXCEPT ![c] = 1]
  /\ read' = [read EXCEPT ![c] = Nothing]
  /\ todo' = [todo EXCEPT ![c] = {}]
  /\ evidence' = [evidence EXCEPT ![c] = {}]
  /\ blocked' = [blocked EXCEPT ![c] = {}]
  /\ populated' = [populated EXCEPT ![c] = FALSE]

\* Mutant: closing commits.
CommitOnClose(c) ==
  IF writer = c THEN db' = draft /\ writer' = None /\ draft' = Empty
                ELSE UNCHANGED store

Rollback(c) ==
  /\ db' = db
  /\ IF writer = c THEN writer' = None /\ draft' = Empty
                   ELSE UNCHANGED <<writer, draft>>

\* Closing the connection of a session rolls back what it has not committed.
Close(c) ==
  /\ Rollback(c)
  /\ Goto(c, "closed")
  /\ indexed' = [indexed EXCEPT ![c] = FALSE]
  /\ fresh' = [fresh EXCEPT ![c] = {}]
  /\ moved' = [moved EXCEPT ![c] = FALSE]
  /\ Leave(c)

\* A job ends with an error.  The MCP server answers with it and goes on.
Fail(c) ==
  IF c \in Short
  THEN Close(c)
  ELSE /\ UNCHANGED <<store, indexed>>
       /\ Goto(c, "open")
       /\ moved' = [moved EXCEPT ![c] = FALSE]
       /\ fresh' = [fresh EXCEPT ![c] = {}]
       /\ Leave(c)

\* What the transaction holds becomes visible to everybody.
Publish(c) ==
  /\ db' = [draft EXCEPT !.part = [d \in Docs |-> IF d \in fresh[c] THEN None ELSE @[d]]]
  /\ writer' = None /\ draft' = Empty
  /\ fresh' = [fresh EXCEPT ![c] = {}]
  /\ moved' = [o \in Sessions |-> moved[o] \/ pc[o] \in {"rebuild", "examine", "report"}]

-----------------------------------------------------------------------------
(* Opening the store.                                                      *)

\* Every opening rebuilds the full-text index, which is a write.  While another
\* session writes it gives up after a while and searches without the index.
Open(c) ==
  /\ pc[c] = "closed"
  /\ Goto(c, "open")
  /\ indexed' = [indexed EXCEPT ![c] = MayWrite(c)]
  /\ UNCHANGED <<store, next, read, todo, analysis, fresh, reported, stale>>

\* A session ends between two steps, or its process is stopped.
Stop(c) ==
  /\ pc[c] # "closed"
  /\ Close(c)
  /\ UNCHANGED <<reported, stale>>

-----------------------------------------------------------------------------
(* Ingestion.                                                              *)

\* Mutant: all atoms of the documents are deleted first, those of any version.
CompiledDroppingOthers(atoms, texts) ==
  [a \in Docs \X Atoms |->
    IF texts[a[1]] = None THEN atoms[a]
    ELSE IF a[2] \in Says[texts[a[1]]] THEN texts[a[1]] ELSE None]

\* For each of these texts the atoms of its version are deleted, and those it is
\* compiled to written: an atom of another version that is the same goes over to
\* this one, and the rest of that version stays.
Compiled(atoms, texts) ==
  [a \in Docs \X Atoms |->
    IF texts[a[1]] = None THEN atoms[a]
    ELSE IF a[2] \in Says[texts[a[1]]] THEN texts[a[1]]
    ELSE IF atoms[a] = texts[a[1]] THEN None ELSE atoms[a]]

\* The document, its version and the atoms of that version.
Stored(c, d, t) ==
  [text |-> [View(c).text EXCEPT ![d] = t],
   atoms |-> Compiled(View(c).atoms, [Nothing EXCEPT ![d] = t]),
   edges |-> View(c).edges, part |-> [View(c).part EXCEPT ![d] = c]]

StartSync(c) ==
  /\ pc[c] = "open"
  /\ Goto(c, "sync")
  /\ UNCHANGED <<store, next, read, todo, indexed, analysis, fresh, reported, stale>>

\* Mutant: after the last article the first one is fetched again.
FetchArticleForever(c, t) ==
  /\ pc[c] = "sync"
  /\ Write(c, Stored(c, Bundle[next[c]], t))
  /\ next' = [next EXCEPT ![c] = (@ % Len(Bundle)) + 1]
  /\ UNCHANGED <<pc, read, todo, indexed, analysis, fresh, reported, stale>>

\* An article is fetched and stored; the transaction stays open.
FetchArticle(c, t) ==
  /\ pc[c] = "sync"
  /\ LET d == Bundle[next[c]] IN
       /\ <<d, t>> \in Published
       /\ Write(c, Stored(c, d, t))
       /\ fresh' = [fresh EXCEPT ![c] = @ \cup {d}]
  /\ IF next[c] = Len(Bundle)
     THEN Goto(c, "commit") /\ next' = [next EXCEPT ![c] = 1]
     ELSE next' = [next EXCEPT ![c] = @ + 1] /\ UNCHANGED pc
  /\ UNCHANGED <<read, todo, indexed, analysis, reported, stale>>

\* No candidate address of the article gives a text.
FetchFails(c) ==
  /\ pc[c] = "sync"
  /\ Fail(c)
  /\ UNCHANGED <<reported, stale>>

\* One document by its address, by any session.
IngestUrn(c, d, t) ==
  /\ pc[c] = "open"
  /\ Write(c, Stored(c, d, t))
  /\ fresh' = [fresh EXCEPT ![c] = @ \cup {d}]
  /\ Goto(c, "commit")
  /\ UNCHANGED <<next, read, todo, indexed, analysis, reported, stale>>

\* A file with a document and edges, by a command.
IngestJson(c, d, t, edges) ==
  /\ c \in Short
  /\ pc[c] = "open"
  /\ Write(c, [Stored(c, d, t) EXCEPT !.edges = @ \cup edges])
  /\ fresh' = [fresh EXCEPT ![c] = @ \cup {d}]
  /\ Goto(c, "commit")
  /\ UNCHANGED <<next, read, todo, indexed, analysis, reported, stale>>

\* All documents are read, and their atoms compiled again from what was read.
StartRebuild(c) ==
  /\ pc[c] = "open"
  /\ Goto(c, "rebuild")
  /\ read' = [read EXCEPT ![c] = View(c).text]
  /\ UNCHANGED <<store, next, todo, indexed, analysis, fresh, reported, stale>>

\* Versions and atoms are written under the text they were compiled from.
Rebuilt(base, texts) == [base EXCEPT !.atoms = Compiled(@, texts)]

Rebuild(c) ==
  /\ pc[c] = "rebuild"
  /\ Write(c, Rebuilt(View(c), read[c]))
  /\ Goto(c, "commit")
  /\ read' = [read EXCEPT ![c] = Nothing]
  /\ stale' = (stale \/ moved[c])
  /\ moved' = [moved EXCEPT ![c] = FALSE]
  /\ UNCHANGED <<next, todo, indexed, evidence, blocked, populated, fresh, reported>>

\* Another tool of the MCP server that writes and commits: a matter, a document.
OtherTool(c) ==
  /\ c \in Lasting
  /\ pc[c] = "open"
  /\ Write(c, View(c))
  /\ Goto(c, "commit")
  /\ UNCHANGED <<next, read, todo, indexed, analysis, fresh, reported, stale>>

\* The job commits and is over.
Commit(c) ==
  /\ pc[c] = "commit"
  /\ writer = c
  /\ Publish(c)
  /\ Goto(c, "open")
  /\ UNCHANGED <<next, read, todo, indexed, evidence, blocked, populated, reported, stale>>

-----------------------------------------------------------------------------
(* extract-references, a command.                                          *)

\* The typed edges are dropped and the transaction committed.
ResetEdges(c) ==
  /\ MayWrite(c)
  /\ db' = [db EXCEPT !.edges = {}]
  /\ reported' = {}
  /\ moved' = [o \in Sessions |-> moved[o] \/ pc[o] \in {"rebuild", "examine", "report"}]
  /\ UNCHANGED <<writer, draft>>

StartExtract(c) ==
  /\ c \in Short
  /\ pc[c] = "open"
  /\ Goto(c, "extract")
  /\ todo' = [todo EXCEPT ![c] = OnRecord(db)]
  /\ \/ UNCHANGED <<store, moved, reported>>
     \/ ResetEdges(c)
  /\ UNCHANGED <<next, read, indexed, evidence, blocked, populated, fresh, stale>>

\* The model is asked for the provisions a document repeals; what it names is a
\* document on record, or else a provision elsewhere.  The entity of the
\* document is written too: only a file could have brought it before.
ExtractDoc(c, d, targets) ==
  /\ pc[c] = "extract"
  /\ d \in todo[c]
  /\ targets \subseteq (OnRecord(View(c)) \ {d}) \cup {Elsewhere}
  /\ {d} \X targets \subseteq Repeals
  /\ Write(c, [View(c) EXCEPT !.edges = @ \cup ({d} \X targets)])
  /\ todo' = [todo EXCEPT ![c] = @ \ {d}]
  /\ UNCHANGED <<pc, next, read, indexed, analysis, fresh, reported, stale>>

\* The command prints how many edges it has made, and closes.
EndExtract(c) ==
  /\ pc[c] = "extract"
  /\ todo[c] = {}
  /\ reported' = View(c).edges
  /\ Close(c)
  /\ UNCHANGED stale

-----------------------------------------------------------------------------
(* The citator, asked for every document a question has retrieved.         *)

\* Repealed by a document on record that is in force at the date.
Abrogated(base, d) ==
  \E e \in base.edges :
    e[2] = d /\ e[1] \in OnRecord(base) /\ base.text[e[1]] \in InForce

\* Without the index a question is looked for as a whole and may find nothing.
StartAnalysis(c, found) ==
  /\ c \in Short
  /\ pc[c] = "open"
  /\ found \subseteq OnRecord(db)
  /\ indexed[c] => found = OnRecord(db)
  /\ Goto(c, "examine")
  /\ todo' = [todo EXCEPT ![c] = found]
  /\ evidence' = [evidence EXCEPT ![c] = found]
  /\ UNCHANGED <<store, next, read, indexed, blocked, populated, moved, fresh, reported, stale>>

\* Mutant: a repeal counts whatever the date of the repealing document.
AbrogatedByAnything(base, d) == \E e \in base.edges : e[2] = d

Found(base, d) == Abrogated(base, d)

Examine(c, d) ==
  /\ pc[c] = "examine"
  /\ d \in todo[c]
  /\ todo' = [todo EXCEPT ![c] = @ \ {d}]
  /\ blocked' = [blocked EXCEPT ![c] = IF Found(db, d) THEN @ \cup {d} ELSE @]
  /\ UNCHANGED <<store, pc, next, read, indexed, evidence, populated, moved, fresh, reported, stale>>

\* Whether the graph has any edge is asked last.
Report(c) ==
  /\ pc[c] = "examine"
  /\ todo[c] = {}
  /\ Goto(c, "report")
  /\ populated' = [populated EXCEPT ![c] = db.edges # {}]
  /\ UNCHANGED <<store, next, read, todo, indexed, evidence, blocked, moved, fresh, reported, stale>>

-----------------------------------------------------------------------------
\* The lock does not come free in time: "database is locked".
GiveUp(c) ==
  /\ pc[c] \in {"open", "sync", "rebuild", "extract"}
  /\ pc[c] = "extract" => todo[c] # {}
  /\ ~MayWrite(c)
  /\ Fail(c)
  /\ UNCHANGED <<reported, stale>>

\* The steps of a job, and the end of a session that has nothing left to do.
Step(c) ==
  \/ \E t \in Texts : FetchArticle(c, t)
  \/ FetchFails(c) \/ Rebuild(c) \/ Commit(c)
  \/ \E d \in Docs : \E targets \in SUBSET (Docs \cup {Elsewhere}) :
       ExtractDoc(c, d, targets)
  \/ EndExtract(c)
  \/ \E d \in Docs : Examine(c, d)
  \/ Report(c) \/ GiveUp(c)
  \/ pc[c] \in {"open", "report"} /\ Stop(c)

Start(c) ==
  \/ Open(c)
  \/ StartSync(c) \/ StartRebuild(c) \/ OtherTool(c) \/ StartExtract(c)
  \/ \E p \in Published :
       \/ IngestUrn(c, p[1], p[2])
       \/ \E edges \in SUBSET (Repeals \cap (Docs \X Docs)) : IngestJson(c, p[1], p[2], edges)
  \/ \E found \in SUBSET Docs : StartAnalysis(c, found)

Next == \E c \in Sessions : Start(c) \/ Step(c) \/ Stop(c)

\* Requests to Normattiva and to the model have timeouts: a job goes on.
Fairness == \A c \in Short : WF_vars(Step(c))
Spec == Init /\ [][Next]_vars /\ Fairness

-----------------------------------------------------------------------------
(* Properties.                                                             *)

\* A bundle that fails half-way, in a web request or a command, leaves none of
\* its articles behind, and no part of one is seen before it is over.  Over MCP
\* a half is published with the next call that commits.
BundleIsWhole == \A d \in Docs : db.part[d] \notin Short

\* What the text of a document says now is on record as an atom, of a version that
\* says it, whatever rebuilds, ingestions and failures overlap; and of the version
\* of now, unless a rebuild has compiled a text that was replaced meanwhile.
AtomsOfText ==
  \A d \in OnRecord(db) : \A a \in Says[db.text[d]] :
    LET of == db.atoms[<<d, a>>] IN
      of # None /\ a \in Says[of] /\ (of = db.text[d] \/ stale)

\* The report of the citator is that of the corpus: it blocks what is repealed
\* and nothing else, and says so of a graph that has edges, unless something is
\* committed while it is made.
ReportHolds ==
  \A c \in Sessions : pc[c] = "report" /\ ~moved[c] =>
    /\ blocked[c] = {d \in evidence[c] : Abrogated(db, d)}
    /\ blocked[c] # {} => populated[c]

\* A web request or a command does not keep the others from writing for ever.
LockComesFree == \A c \in Short : writer = c ~> writer # c

\* Disagrees with conflict_detector.py:118, where extract-references is what
\* fills the graph: the edges an extraction reports are in the database.
ExtractionIsKept == reported \subseteq db.edges
=============================================================================
