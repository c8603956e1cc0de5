# Judicex: specifications and proofs

Judicex is a local legal assistant: a Flask application (`judicex_memory_os/web_app.py`)
over one SQLite file (`store.py`), a single-page client (`static/app.js`), a command line and an
MCP server over the same store, and an answer pipeline (`agent_runtime.py`, `answering.py`,
`answer_contract.py`) that asks a language model for law and refuses what it cannot ground.
This directory holds TLA+ modules of its parts, TLC configurations that check them on small
instances, and TLAPS proofs of theorems about them for every value of the constants.

    tlc -config MCMatterDocs_races.cfg MCMatterDocs.tla     # one run
    tlapm MatterDocs_proofs.tla                             # one module of proofs

`PROJECT.json` lists the runs, maps each definition to the lines it models, and names
for each property a mutant: a plausible bug (an operator commented "Mutant:") that
violates it.

## 1. Inventory

| Component | State | Operations | Modelled in |
|---|---|---|---|
| Matter documents (`store.py`, `web_app.py`) | `matters`, `matter_documents`, `matter_document_versions`, `matter_facts`, `matter_folders`, `document_edits` | create/delete matter, ingest, update, restore a version, propose and apply an edit, move to a folder | `MatterDocs`, `VersionedText` |
| Attachments, backup and restore (`store.py`, `web_app.py`) | the files in `<db>_files`, the database file and its log, the last backup | upload, delete a matter, back up, restore, checkpoint, crash | `MatterFiles` |
| Workspace rows: matters, folders, annotations, comments, tabular reviews and views, chats, memories, artifacts, templates, settings, workflow packs | a row of each table; versions of packs | create, change, delete, save and duplicate a pack | `WorkspaceRows` |
| Legal sources (`official_sources.py`, `store.py`, `tools.py`, `mcp_stdio.py`, `cli.py`) | `official_legal_documents`, their versions, `legal_atoms`, the typed edges, the write lock | sync a bundle, ingest an address or a JSON file, rebuild atoms, extract references | `LegalSources` |
| Citator, conflict detector (`conflict_detector.py`, `store.py`) | the typed edges | is a retrieved document abrogated; the report; the bounded walk | `LegalSources`, `Citator` |
| Answer stream (`stream_runner.py`) | a record shared under a lock by a worker thread and the SSE generator | publish step, set result/error, poll, deadline, disconnect | `AnswerStream`, `EventStream` |
| Grounded answer engine (`answering.py`, `answer_contract.py`) | the payload of one question, its context, verifier and contract reports | routing, retrieval, draft, validation and repairs, completion, verifier, contract, safety net, rendering, audit | `AnswerEngine` |
| Agent runtime (`agent_runtime.py`) | plan, observations, final result | plan, memory, matter, legal tool, composer, finish | `AgentAnswer` (extends the engine) |
| Database secrets (`crypto.py`, `audit_log.py`) | reserved rows of `llm_cache` | look up, make, put, use | `DatabaseSecret` |
| Chat (`static/app.js`, `store.py`, `web_app.py`) | page state and `chat_sessions`, `chat_messages` | ask, new chat, open, delete, delete the matter | `ChatPanel` |
| Model cache, application password, retrieval, numbers, matter analysis, drafter, providers, evaluation, tool loop | little or none | | not modelled, see section 5 |

How they interact. The page posts a question to `/api/answer/stream`; the request thread
starts a worker which runs the agent, which may run the engine, each with its own store
connection; steps and the outcome go through the shared record to the generator and
back to the page, which then stores the answer with another request. All requests, commands
and the MCP server meet in SQLite; a matter's rows also name files, which uploads write
before the row and deletions remove after it.

What is hard. (a) *Concurrency in the store*: every request opens its own connection
(`web_app.py:64`; WAL, `busy_timeout` 5 s, foreign keys on). Python's sqlite3 runs SELECTs
before the first write in autocommit; the first write takes the write lock until commit
or close. So everything read before the first write may be stale when it is used, and
a job that fetches between its writes keeps everybody else from writing. (b) *Two stores*:
files and rows cannot be in one transaction, and a restore replaces the database under
connections that have it open. (c) *Lasting connections*: the MCP server keeps one, so a
failed call leaves its transaction to the next. (d) *Threads*: worker, generator, deadline,
disconnect. (e) *The page*: handlers interleave at each `await` over one global `state`.
(f) *The model*: any reply, failure or nonsense; a long chain of repairs and gates, each of
which may undo the decision of an earlier one. (g) *Half-done work*: an edit is written
in one transaction and marked in the next; a pack is saved and its version taken
afterwards; a put of a secret may fail and be swallowed.

## 2. Modules

### MatterDocs (and VersionedText)

Variables are the tables (`matters`, `folders`, `content`, `folder`, `versions`, `facts`,
`edits`) and, for each connection, its program counter and local variables (`pc`, `arg`,
`row`, `snap`). A read before the first write is a step; from the first write to `commit()`
is one atomic step; requests that begin with a write (`Ingest`, `CreateMatter`,
`DeleteMatter`, `CreateFolder`, `CreateEdit`) are one step. The update, restore and apply
requests share `ReadRow`, `ListVersions`, `ReadForSnapshot`, `ReadNumber`, `WriteRow`,
`MarkApplied`. The first snapshot of a document is read in two steps, its row
(`ReadForSnapshot`) and the number of its newest version (`ReadNumber`), and other writers may
commit between them, so that an old text is appended after newer versions.
`Crash` loses a request between steps. A document id is a hash of matter, title and
text, hence the constants `MatterOf` and `Original`. Texts are model values; facts are
represented by the text they were extracted from. `SerialSpec` is the local user whose
requests do not overlap and do not crash, with weak fairness of each request's steps (a request
once started is run by its thread).

`VersionedText` is the abstract promise: one text, and a log that keeps every replaced
text. `MatterDocs` is shown to implement one per document (`ImplementsHistory`): a replacement may
append a snapshot of a text read before, and must leave the replaced text on record.

### MatterFiles

`db` is what a new connection reads, `main` what the database file holds without its log;
they differ between a commit and the next checkpoint (`Checkpoint`, `Close`). A document is a
title of a matter with the binary it names (`db[m][t]`), a path is a matter and a binary. An
upload looks whether its file is there (`StoreFile`), if not opens and fills it (`OpenCopy`,
`FillCopy`), then adds its row (`AddDocument`), and may fail at each of these steps (`UploadFails`);
`half` holds the files whose content is not complete. A deletion reads the
paths, deletes the rows and unlinks the files one by one. A backup copies the database,
closes it and archives the files (`StartBackup`, `CloseStore`, `WalkFiles`). A restore copies the
file without its log, removes the log, replaces the file, moves the files away and writes those
of the backup; connections open at that moment are `cut`: what they commit is lost, or on
closing comes over the restored file. Its password check opens the database first, and so folds
in the log a crash has left, unless the password is set in the environment (`env`, any value).
History variables: `upset` (matters on which an upload failed or was stopped after it stored
its file, an upload and the deletion overlapped, the deletion was stopped, a document was given
another binary, or which a restore has replaced), `broken` (a copy of a file was stopped
half-way, or archived while it was written), `crashed`, `lost` (a `pre_restore` copy lacked
something committed), `raced` (requests on a matter or on the files overlapped). None of them
looks at what a step has missed: a deletion that forgets a file sets none.

### WorkspaceRows

Twelve tables follow one scheme (read the whole row, write the whole row), and their rows
meet only in cascades, so the module follows one row of one table, fixed by `Init`, with two
fields and two overlapping requests. What differs is stated once: which tables have a
parent the foreign key watches (`Keyed`), whose rows are inserted and never replaced
(`Inserted`), whose change is written with the upsert that also creates (`Upserted`). A
handler is an action named for it (`PatchMatter`, `EditCell`, `SaveSettings`, ...) over the common
`ReadFor`, `LookUpParent`, `CreateAtOnce`; a cell is edited with a second read of its review
(`ReadAgain`). A pack's update and its version are one
transaction; a saved pack's version is read, numbered and inserted in separate steps
(`ReadPack`, `ReadNumber`, `InsertVersion`). `want` is what the requests asked for, in the
order they completed; `owed` the definitions of a pack that are in no version;
`mixed` says that two requests have overlapped.

### LegalSources

`db` is the committed corpus, `draft` what the session in `writer` sees. Web requests and
commands (`Short`) close their connection when they end, which rolls back; MCP servers
(`Lasting`) answer with the error and keep their transaction (`Fail`). A bundle is fetched and
stored article by article inside one transaction (`FetchArticle`, `FetchFails`, `Commit`). An atom's
id is a document and what it says; it has no version (`atomizer.py:167`), and its row names the
one it was last compiled from: the upsert moves an atom that two versions share to the one
compiled last, and deletes only atoms labelled with that version (`Compiled`). A rebuild
reads all texts, then writes their atoms, of texts that may have been replaced by then
(`stale`); `extract-references` writes edges document by
document and ends (`EndExtract`), with no commit but that of `--reset`. An analysis examines
the retrieved documents one by one and then asks whether the graph has edges at all.
Opening rebuilds the full-text index when the lock is free (`indexed`); without it the search
may find nothing. Edges are those of the relation `abroga`, the one the report blocks on. Fairness:
weak fairness of the steps of each short session: each request to Normattiva or to the model
has a timeout, after which the job goes on or fails.

### Citator

`traverse_graph`: the queue of paths, the rows of the query on the node being expanded, in
any order (`Follow`), the tests of depth and of the number of nodes before and after a
node is added. Compared with distances in the graph: `Within(k)` holds the ends of the
`Ways` of k steps from the start, each along an edge or resting.

### AnswerStream (and EventStream)

Each `with state_lock` block is an action; the generator's local copies are `view` and
`emitted`; the clock is one bit. `EventStream` is the protocol the page relies on: steps
in order, one outcome, `done`. Fairness: weak fairness of the generator (its thread is
scheduled; each poll sleeps 50 ms and returns) and of the clock; none of the worker, which
may hang in a model call.

### AnswerEngine

One action per phase of `answer()`. The payload is split into `status`, `intro`, `claims`
(`payload["claims"]`, whoever wrote them: the model, a repair or the safety net), `sections` (the items
of legal sections) and `prose` (the other sections with their citations, the facts of the case,
the follow-up questions). Each model call may fail or return any member of `Drafts`; the context
any member of `Contexts`; the rest is what the code does with it. `refused` is a history
variable: the claims a gate turned down. A claim is (text, cited sources, issue); a text may
be "stray", that is name a norm the evidence is not about. The backstop (`StrayReference`) scans what
the code scans: intro, sections and claims, not the facts of the case and the questions.
`Fail` is a raise that `answer()` does not catch, from the store, the model, the contract (a
number that is no integer) or the audit record's look-up of its secret. Text matching (norm references,
support of a claim by a source, issues) is abstracted to nondeterminism or membership,
everything that decides by status, citations, issues or validity is kept.

### AgentAnswer

Extends the engine: the agent's `step` waits in "legal" while the engine's `Next` runs.
Planner and composer are model calls. `EngineReturns` covers both a result and an
exception (`stage = "raised"`), after which the payload is lost.
Fairness: the agent is straight-line code, and a model call returns or raises (the provider's
client has a timeout), so weak fairness of `AgentNext`.

### DatabaseSecret

Both uses (the Fernet key of matter text, the HMAC secret of the audit trail) follow the
same look-up, make, put sequence. `spoiled` is a history variable: two connections have
been between look-up and put at once, or a put failed.

### ChatPanel

A handler is a question or a click; `pc` says which request it awaits. A request has two
steps: the server handles it (`Serve`) and later the page goes on with the reply, so
replies are applied in any order and may be stale. `calm` is a history variable: so far
the user waited for each thing, and nothing failed. The screen is the set of messages of
questions; artifact cards, attachments (`app.js:3354`) and case analyses (`app.js:3918`) also
append to the screen but are not stored as messages, and are left out. Chat ids
contain a time stamp; two equal ones make the insert fail, which is a failed request. The
next question, and the next chat id, are chosen in a fixed order, because they are
interchangeable. Fairness: while a handler can go on, one of them does.

### MC modules

`MCMatterDocs` (id functions, symmetry), `MCMatterFiles` and `MCWorkspaceRows` (symmetry),
`MCLegalSources` (the bundle, publications and repeals), `MCCitator` (the graphs),
`MCAnswerEngine` (drafts, contexts), `MCAgentAnswer` (both).

## 3. Runs

| Run | Question | Bounds and why they suffice |
|---|---|---|
| `documents_serial` | without overlap: facts match the text, an edit is applied once, and applying completes | 2 matters, 1 document, 2 folders, 2 texts, 2 edits, 3 versions, 2 connections of which one is busy at a time: applying, restoring and re-ingesting in turn |
| `documents_races` | a matter deleted under requests, crashes: no orphan rows, no foreign folder | 2 matters so that a foreign folder exists, 2 requests |
| `documents_concurrent` | overlapping writers of one document, crashes: history stays complete (implements `VersionedText`), newest version is the text, applied edits are written | 2 requests, 2 texts, 2 versions before the last write; `DeleteRaces = FALSE` because deleting the matter meanwhile really breaks `AppliedWasWritten` |
| `files` | rows keep their files and these are whole, a file without a row is left only where its matter was disturbed, a restore copies what it replaces | 1 matter and title with 2 binaries (a second ingestion from another binary), 2 requests at once and 5 in all, failures and crashes at every step, the password in the environment or not: every pair of upload, deletion, backup and restore overlaps, and upload, backup, deletion, restore follow each other with one request to spare |
| `workspace` | no edit is lost, nothing deleted comes back, versions follow the pack | each of the 12 tables, 2 values, 2 requests (a lost update needs two), 3 versions: a save, an update and a copy |
| `sources` | no half bundle is published, atoms of what every text says, the report holds, the lock comes free | a bundle of 2 articles, 2 texts (one out of force) that share one of 2 atoms, one command and one MCP server: fails after the first article, replaces a text during a rebuild, publishes between two examined documents |
| `extract_lost` | `conflict_detector.py:118` and `legal_agent.py:267` tell the user that `extract-references` fills the graph; its edges are rolled back | violated; the finding |
| `citator` | the walk finds what distance says | all graphs of 4 nodes and up to 5 edges, 3 directions, depths 0 to 3, caps 3 (cuts the walk) and 10 (does not) |
| `stream` | order and completeness of events under all interleavings, end of the stream | 3 steps: more steps than one poll reads and than one batch sends |
| `agent` | the properties of engine and agent, all replies and raises | 3 sources (one may be abrogated, one out of force, one is never retrieved), 2 issues, 4 texts (two titles of sources, one of them stray), 22 drafts that reach each outcome of the validation, every consistent context |
| `secret` | rows readable unless first uses overlap or a put fails; a stored secret settles | 3 connections, 3 secrets |
| `chat` | screen, recent questions and stored messages; nothing of a deleted chat survives; the button comes back | 2 questions, 2 chats, 2 handlers under way, 2 clicks and failures in all, 1 recent question: a second question or click overtakes the first one at each await; serially, two chats with a question each and a switch back |

Deadlock checking is off where the system stops (an answer is delivered, the reader has
gone, bounds are used up).

What the conditional properties say of the code. `RowsHaveFiles`, `PreRestoreIsWhole`,
`LastEditStands`, `VersionsFollowPack` and `RowsReadable` hold *unless requests overlap* (or a put
fails): the condition is a history variable set only by the steps that really race, and
without it TLC finds the race. They show that overlap is the only cause: no crash,
failure or order of requests one after the other breaks them. `RowsHaveFiles` has a second
condition for the content of the files (`broken`), `FilesHaveRows` leaves out the matters in
`upset`, `AtomsOfText` lets an atom be labelled with an older version once a rebuild was `stale`, and
`PreRestoreIsWhole` excepts a password in the environment after a crash. `AppliedOnce`,
`ApplyCompletes` and `FactsMatchText` are of the local user (`SerialSpec`), without crashes.

### Also seen while modelling, without a run of its own

Where a comment, a docstring or the page promises something else:

- the stream's deadline hides an answer that is ready (`stream_runner.py:124`; `:10`
  promises the result of a finished worker);
- the backstop says it scans the assembled answer text (`answering.py:2231`); it scans neither the
  facts of the case nor limits and follow-up questions (`answering.py:2573`), which are shown
  (`answering.py:2305`);
- the safety net fires on the verifier's refusal too (`answering.py:1554`; the comment at
  `:1546` says only on the model's own);
- sections of a refused answer are still rendered (`answer_contract.py:93`; `:90` calls
  refused rules not safe to render);
- the composer may turn an abstention into an answer (`agent_runtime.py:489`; the
  repository's `README.md:49` says Judicex abstains without evidence);
- two first users make a secret each (`audit_log.py:198`; `:190` promises one);
- the restore dialog says the current database is copied as `pre_restore` (`app.js:3251`),
  which is incomplete while connections are open; the deletion dialog's promise about files
  (`app.js:3286`) does not cover stray ones;
- `traverse_graph` says its `as_of_date` filters out edges (`store.py`, its docstring); the walk
  marks the nodes and follows their edges all the same.

What a user may meet:

- an edit is marked applied although its update was refused: its matter is deleted, made and filled anew
  while the edit's request is under way (`store.py:2672`; TLC shows it with `DeleteRaces = TRUE`);
- a crash between an edit's update and its mark lets it be applied twice (`store.py:2677`);
- a rebuild of atoms overlapping with an ingestion labels atoms of the new text with the old
  version (`store.py:1344`);
- with the password in the environment, a restore after a crash loses what the log holds
  (`web_app.py:2409`); an upload stopped half-way leaves a file that the next upload of the
  same binary takes for whole (`store.py:2330`);
- memories and artifacts outlive their deleted matter; a matter changed while it is
  deleted comes back without its documents;
- a document posted again with its content's id overwrites the edits; an artifact is saved
  although the document it goes with fails (`web_app.py:877`); a file that fails in a
  multi-file upload leaves a transaction which the next file commits (`web_app.py:672`);
- a write refused once to the MCP server leaves its connection on an old snapshot
  (`mcp_stdio.py:55`);
- references to a target replace the entity of an ingested document by a stub
  (`store.py:1441`); an empty `as_of` skips the test of force; superseded atoms are still found;
- a completion reply that abstains counts as missing no issue (`answering.py:1486`), so it
  replaces the answer while the trace says all covered issues are treated (`answering.py:1447`);
- the safety net's citations do not pass the contract's test of force, while its text
  calls them in force at the date of the case (`answering.py:1584`, `1600`);
- direct chat and composed answers write no audit record (`agent_runtime.py:72`);
- the worker goes on after a deadline, and nothing bounds how many do (`stream_runner.py:118`);
- replies that fail validation are cached like any other (`llm_cache.py:66`);
- a reload of the page forgets the questions under way (`app.js:567`);
- the classification of amounts fails open on text it cannot read (`numeric_verifier.py:143`).

## 4. Proofs

TLAPS checks every theorem to its leaves, from the ASSUMEs of the modules only
(well-formed ids, bounds in `Nat`, drafts and contexts of the right shape). The argument is
always an inductive invariant, since no property is inductive by itself: each lacks what
the requests in flight already hold.

- **MatterDocs_proofs**. `TypeCorrect` by `TypeInv`, which adds to the types what a request at
  each program point holds. `FolderSafety`: `FolderInv` says of each request in flight that
  the folder it may write is of the document's matter. `NothingIsOrphaned` needs no more
  than the types: each write step tests again that its row exists. When no matter is
  deleted under a request (`DeleteRaces = FALSE`): `NewestVersionIsText` by `HistoryInv`, which
  adds what pending snapshots know; each step leaves each document *Kept*, *Grown* (a version
  with the new text appended) or *Removed* (`HistoryStep`), and from this one case distinction
  follow also `NothingIsLost` (`HistoryKept`), `DocumentsRefine` (the refinement of
  `VersionedText`: initial states and every step) and `FactsAreOfDocument`.
  `AppliedIsWritten`: `EditInv` says that the folder a document was read with still fits,
  so that the update an edit calls is never refused, that its document stays while it is
  requested, and that between update and mark the version is written (`Written`); written
  edits stay written because histories only grow.
  Of the local user (`SerialSpec`, with `DeleteRaces` and `MayCrash` of any value):
  `FactsAreCurrent` and `EditsApplyOnce` by `SerialInv`, which adds to the two properties that
  one request runs at a time (`OneAtATime`), that a version's edit is an edit of its document
  (`EditsOfVersions`), and of the request under way (`SerialRequest`) that the text it has read
  is still the text and that no version carries the edit it has yet to write.
- **MatterFiles_proofs**. `StraysHaveCause` (`FilesHaveRows`) by `RowsInv`: of a matter that was not
  disturbed, the matter of an upload under way is there, the list of a deletion holds all paths
  that the rows name until it has deleted them (`Counts`), the two are never under way together (`NotBoth`), and a
  restore has disturbed all (`Restored`). `CompleteInvariant`: unless something was stopped half-way
  only uploads that are copying have files in `half` (`Writers`). `DocumentsHaveFiles` and
  `RestoreCopiesAll`: `CalmInv` says that until something races, deletions and restores are
  *Apart* from what they would disturb, each row's file is *Present*, a request *Holds* what
  its step relies on (its file stored, its copy equal to the database unless a log is left,
  `LogLeft`), and the file is the database when nobody is connected (`Checkpointed`).
- **WorkspaceRows_proofs**. `RowsInv`: until two requests overlap there is at most one
  (`Alone`), what it has read is the row (`ReadsHold`), the row is what was asked for, and the
  newest version of a pack is the pack (`NewestIsRow`); what is owed is owed by a save
  (`OwedOK`); only upserted tables bring a row back (`NotWrittenBack`). It gives
  `NoEditIsLost`, `DeletionsStand` and `PacksCanBeRestored`.
- **Corpus_proofs** (`LegalSources` and `Citator`). `WholeBundles`: `WholeInv` says that what the open transaction
  holds half-done of a short session is the writer's own and in `fresh` (`Mine`), so that its
  commit finishes it. `AtomsKept`: both the database and the open transaction have the atoms of
  every text (`Atomed`), and a rebuild nobody has disturbed has read the texts as they still are
  (`Unmoved`), so that only a disturbed one labels an atom with another version. `ReportIsOfCorpus`: `ReportInv` says that an analysis nobody has
  disturbed has blocked exactly the repealed ones among those examined (`Analysed`).
  `WalkFindsAll` (`WalkIsComplete`), for any graph, direction, depth and cap: `LevelInv` says that
  the walk is at some level l, all nodes within l are found and none beyond l + 1 (`Reached`), and, until
  the cap is reached, that the queue holds paths of length l before paths of length l + 1
  (`Queued`) and that each node of the level whose edges are not all found waits for them
  or is being read (`Owed`). The step to the next level is `LevelFull`. `Within` only
  grows (`WithinFrom`) and stands still once one step adds nothing (`WithinAll`); both are
  inductions on the distance, done with a least counterexample (`LeastNat`, from the
  library's `WFMin`), since a theorem with an operator parameter cannot be used.
- **AnswerStream_proofs**. `Inv` = types, what the shared state implies (`finished` only
  after the worker ended), that the generator's view is an older shared state, and that
  `sent` has the form the reader's position says. From it `StreamRefines` (implements
  `EventStream`: initial states and every step), and, with `AnswerInv`, `AnswerIsWhole`.
- **AgentAnswer_proofs** (`AnswerEngine` and `AgentAnswer`). The engine's `Inv` = `TypeOK`,
  `PayloadInv` (what is cited is in the evidence,
  once validated) and `GateInv` (what verifier and contract have established at each
  later stage). `Good(p)` describes a payload from any of the validators
  (`StrictIsGood`, `LenientIsGood`, `RepairedIsGood`, `AbstentionIsGood`), so each repair is
  one citation of a lemma; `WithdrawnIsGood` and `NoticesAreCited` say it of the backstop and of the
  safety net. After the gates each claim *Stands*: not refused and in force, or the net's own.
  Theorems: `TypeCorrect`, `CitationsAlwaysResolve`,
  `GroundedAnswersAreWhole`, `GatesHold`, and the action property
  `RefusalIsFinal` (after a refusal by the contract only the safety net and the rendering follow).
  A step of the agent is a step of the engine or leaves it alone,
  so the engine's invariant carries over; `AgentInv` relates `final` to the engine's end.
  `FinalAnswerIsFaithful` puts `OnlyLawIsCited` and `PassedOnIsFinished` together.
- **DatabaseSecret_proofs**. `RowsStayReadable`: `OneSecret` says that while nothing is
  spoiled every secret in use or in a row is the stored one, or the one of the only connection
  about to put. `StoredSecretStays`: the action property `SecretSettles`.

- **ChatPanel_proofs**. `PanelTyped` by cases of the two halves of a handler's step: what the
  server does (`Serve`) and what the page does with the reply (`Handle`). `AnswersFollowQuestions`
  and the first part of `DeletedStaysGone` hold whatever overlaps or fails, by `LogsInv`: a message is stored
  at most once (`Once`), one whose request has not been handled is not stored (`Unsaid`), and an
  answer is only posted when its question was stored or its chat is gone (`QuestionInv`).
  `PanelShowsChat`, `TurnsFollowChat`, `AnswersAreFiled` and the rest of `DeletedStaysGone` are about the user who waits (`calm`), by
  `CalmInv`: one handler is active, the page is in step with the open chat when none is
  (`QuietCalm`), and a handler under way knows how far the page may be behind the server at
  its program point (`HandlerCalm`): a message on the screen and not in the log, a chat created
  and not yet opened. A question adds itself to the recent ones and any other message leaves
  them (`AsksQuestion`, `AsksOther`), for which `Asks` is written as the k-th question of
  a log and not as a recursive filter.

Every invariant and action property that a passing run checks is thus a theorem. Only
model-checked: liveness (`StreamEnds`, `ApplyCompletes`, `EveryQuestionAnswered`, `SendComesBack`,
`LockComesFree`), which is out of the prover's reach.

## 5. Not modelled

- *Text processing* (extraction, scoring, retrieval, OCR, templates, numbers, atoms of a text):
  regular expressions over character data, pure; the models take their results as
  inputs of any value. Providers and HTTP are replies and failures of any kind.
- *Model cache*: a look-up and a put around a model call; a replayed reply is one of
  the replies the engine's model allows anyway. *Password*: one setting read on each request.
- *Tool loop* of `ollama_agent.py`: a bounded loop of calls to the same tools.
- `LegalSources` leaves out the snapshot that SQLite pins for a lasting connection.
- In the other modelled components: relations other than `abroga` in `LegalSources` (the walk
  takes any), the reload of the page (the open chat comes back from localStorage),
  attachments in the chat, limits on listed rows (100 chats, 500 messages), and the contents of a
  new review's cells, which are computed from documents and facts.

## 6. What is left

Done, in this order: `MatterDocs`/`VersionedText`, `AnswerStream`/`EventStream`,
`AnswerEngine`, `AgentAnswer`, `DatabaseSecret`, `ChatPanel`, `MatterFiles`, `WorkspaceRows`,
`LegalSources`, `Citator`, and the proofs of all invariants and action properties.

1. The page after a reload and the document viewer (`app.js`), as a module beside `ChatPanel`.
2. The snapshot of a lasting connection in `LegalSources` (`mcp_stdio.py:55`).
3. The comparison of amounts as operators against a reference definition.
