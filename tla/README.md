# llmbase: TLA+ models and proofs

llmbase keeps a library of Markdown files, and around them a SQLite database with an index, jobs,
drafts, vectors and write intents. People edit the files with other programs, several processes open
the library at once, calls to a language model take minutes and fail, and any process may die between
any two steps. This directory models the parts of llmbase whose correctness depends on that: each
module stands for one component, TLC checks it on small instances, and TLAPS proves for every instance
the results about the job ledger and worker, the source store, the write journal, compiling and its
drafts, ask streams and their server, the stage lock, answers, the generated files, repair, copies,
documents from outside, the capabilities, the catalog, web requests, what is made of a model's answer,
and the vector index.

Source paths below are relative to the repository. `core` is `crates/llmbase-core/src`, `model` is
`crates/llmbase-model/src`, `cli` is `crates/llmbase-cli/src`.

## 1. The system

### Components

| component | code | state | operations |
|---|---|---|---|
| job ledger | core/jobs.rs | tables `jobs`, `job_events`; the leases callers hold | enqueue, claim, heartbeat, finish, cancel, retry |
| job worker | core/worker.rs | one claimed job, its handler, two cancellation tokens | `run_job`'s select loop |
| source store | core/store.rs, core/recovery.rs | raw and article files, `write_intents`, `sources`, `revisions`, `tombstones`, passages | open, sync, write, delete, rename, recover |
| write journal | core/compat_io.rs, core/recovery.rs | files under the configured roots, `write_journal`, a lock beside each file | `atomic_write`, replay |
| stage lock and log | llmwiki/pipeline/{lock,driver,state,log}.py, core/compat_pipeline.rs | pidfile, kernel lease, breaker mutex, event log | acquire, break, run, release, `force_break` |
| vector index | core/vector.rs | `embedding_cache`, `vector_generations`, `vector_members`, `vector_active` | build, search |
| compile and drafts | core/compile.rs, core/compat_compile.rs, core/compat_workflows.rs | `compile_receipts`, `compile_drafts`, `compile_draft_guards`, the mark in the source | compile, apply a draft, the workflow over the sources |
| ask streams | core/ask.rs | supervisor task, event channel | start, cancel, hang up |
| model client | model/lib.rs, model/sse.rs | attempts, fallback models, deadline, stream channel | complete, embed, stream |
| ask server | cli/http.rs | registry of active questions, permits | execute, cancel, hang up |
| answers and promotion | core/answers.rs | `saved_answers`, notes, promotion drafts | save, promote, apply |
| projections | core/maintenance.rs | generated files under `meta/` and their pending batches | rebuild, publish, replay |
| repair | core/maintenance_repair.rs | one job over many articles, its receipts | clean, rename, complete, link, merge, normalise |
| generation | core/maintenance_model.rs, core/entities_model.rs | a category tree, tags, entities | normalise the model's answer, tag articles, merge |
| catalog | core/catalog.rs | relations, accepted taxonomy, caches | views for the public and the owner, writes of relations and taxonomy |
| web reads and writes | core/web_read.rs, core/web_write.rs, core/visibility.rs | none of their own | list, article, search, graph, health, delete, clean, fix |
| migration and backup | core/migration.rs | a copy of the library and its receipt | copy, back up, verify, restore |
| ingest and plugins | core/ingest.rs, core/plugins.rs, core/extensions.rs | originals, documents, a job | accept what came from outside |
| application | core/application.rs, core/extensions.rs, core/worker.rs | principals, enqueued jobs | authorise and dispatch |
| Python facade and worker, helpers | llmwiki/*, core/document.rs and others | periodic worker and its job lock, sync state | schedule, call the native core |

How they meet. Every write to the library's files goes through the source store or the write journal,
under the kernel writer lock; drafts, answers, repairs and plugins are its callers, and each brings
guards: the revisions or hashes its input had. Projections have a journal of their own, replayed by
every open. A job of the ledger wraps every long operation and is renewed by the worker. Vectors, the
catalog and the web answers are built from the rows the store publishes. Files are shared with editors
that know none of the locks.

### What is hard here, and what makes each part correct

* Job ledger: claims, heartbeats and reports race, each with a clock it read before it waited for
  SQLite. Correct if a replaced owner can do nothing, an unexpired lease is not taken, a job starts at most
  `max_attempts` times, a success has its own attempt's result, and the event log explains the row.
* Job worker: outcome, request cancellation, job cancellation and heartbeat are ready in any order.
  Correct if success is reported only for work that succeeded under a live lease, and a running job ends.
* Source store: a crash after any of intent, install, unlink, index, mark; edits between a check and
  its rename; moves and deletions seen in part. Correct if an accepted operation happens once and
  whole, from the content it was accepted against, and the index, revisions and passages follow.
* Write journal: journaled and standalone writers and a replay take two locks at different times.
  Correct if a refused write leaves nothing behind and nothing is put back over a later write.
* Stage lock: two processes find the same dead owner, or find one dead that has ended properly since they
  read its pidfile; pids are reused; an operator breaks a lock by force. Correct if one run holds the
  stage, and the log says what runs and what was interrupted.
* Vector index: builders and searches wait for the provider between reads. Correct if the active
  generation is complete and a hybrid answer ranks all of the index with one specification.
* Compile and drafts: minutes pass between what the model saw, the draft, its review and its
  acceptance. Correct if nothing is published over text nobody reviewed it against, nothing is less
  restricted than what it came from, and a source is marked compiled only if it was compiled whole.
* Ask streams: two bounded channels, a deadline, retries and three ways to stop. Correct if events
  are well formed, `done` means the whole answer was streamed, connections end and a reader gets an end.
* Ask server: questions start, end, hang up and are cancelled side by side, ids come back. Correct if
  an id names one question, a permit always comes back, and nobody cancels what another asked.
* Answers: the evidence is validated, then written, then promoted minutes later. Correct if at each
  write the note or article is as restricted as what it cites.
* Projections: a batch is recorded, then installed file by file; the next open replays it over files
  and inputs that moved. Correct if a replaced file is kept, a model's text is installed only while its
  inputs stand, the manifest is never ahead of the files, and a refusal has a person for its cause.
* Repair: one job makes many accepted writes with edits between them. Correct if no text or place is
  lost, nothing private reaches a public article, and a job that failed has changed nothing.
* Generation: the model's tree and entities are arbitrary. Correct if each article is filed once,
  one thing is one entity and no two things are, and a person's tags stay.
* Catalog and web: rows lag behind files and bounds cut walks short. Correct if what is public shows
  and depends on public things only, and a view is exact or says it was cut.
* Migration: files are copied one by one while others write. Correct if a receipt that says complete
  is of a copy that is.
* Ingest: a reply's files are accepted one by one. Correct if each document has its original, and a
  job that succeeded brought everything.
* Application: a call may be handed to a job or an extension with other rights. Correct if whatever
  happens was granted to who asked and to who did it.

## 2. The modules

| module | lines it stands for | role |
|---|---|---|
| `JobLifecycle` | jobs.rs as a caller sees it | abstract: the contract of one job |
| `JobLedger` | jobs.rs | the ledger of several jobs, handles and leases |
| `JobWorker` | worker.rs over one job | implements `JobLifecycle` |
| `AcceptedFiles` | the documented promise of the store | abstract: accepted file operations |
| `SourceStore` | store.rs, recovery.rs | implements `AcceptedFiles` |
| `WriteJournal` | compat_io.rs, the journal part of recovery.rs | in-place writes |
| `StageRun` | pipeline/*.py, compat_pipeline.rs | one stage of the legacy pipeline |
| `VectorIndex` | vector.rs | builders and searches |
| `CompileDrafts` | compile.rs, the guarded write, the compile workflow | one source and its articles |
| `AskStream` | ask.rs and the streaming call of the model client | one question |
| `AskServer` | the questions of http.rs | many questions, their ids and permits |
| `Answers` | answers.rs, apply_draft | saved and promoted answers |
| `Projections` | maintenance.rs, its callers that publish | generated files and their batches |
| `Repair` | maintenance_repair.rs | the repair job over articles |
| `Generation` | maintenance_model.rs, entities_model.rs | what is made of a model's answer |
| `Catalog` | catalog.rs and the reads below it | views and the catalog's writes |
| `Web` | web_read.rs, web_write.rs, search | requests that read in sections |
| `Migration` | migration.rs | copies, receipts, restores |
| `Ingest` | plugins.rs, ingest.rs | documents from outside |
| `Application` | application.rs, extensions.rs, worker.rs | who may do what |
| `Access` | composes `WriteJournal`, `StageRun`, `AskServer`, `Application`, `Answers`, `Projections`, `Repair`, `Migration`, `Ingest` | who may act, and on what |
| `Lists` | loops over lists | what the three modules of views share: filters, sorts, first occurrences |
| `Views` | composes `Catalog`, `Web`, `Generation`, `VectorIndex` | what is shown, and whether it is all |
| `JobLedgerProofs`, `JobWorkerProofs`, `SourceStoreProofs`, `CompileDraftsProofs`, `AskStreamProofs` | | theorems about the module they are named for |
| `FileProofs`, `AccessProofs` | | theorems about the journal, the copies and the documents of `Access`; about the rest of it, and the whole |
| `ViewProofs` | | theorems about `Views` and the four modules below it |

`Access` puts nine parts side by side, each with variables of its own; `part` says of which of them a
behaviour is, and its properties are conjunctions of theirs. `Views` does the same with the four that
decide what a reader is shown. The modules named `MC...` give the constants their values. A loop of the code
over a list is a recursive function of the number of rounds (`f[n \in 0..Len(list)]`), not a recursive
operator, so that it can be proved about. `PROJECT.json` maps each definition to the lines it stands for. In every module the
operators the header calls mutants are plausible slips; no action uses them. They are put in the place
of the operator they follow to see the properties fail. A module may have several, and only one
is listed per property of a run; the others break the same properties.

**JobLedger.** `row`, `events` are the two tables, `held` the `JobLease` values handed out, `clock` what a
handle read before it began its transaction. Each operation is one SQLite transaction, hence one action;
`ReadClock` is a step of its own because claim, `enqueue_running_job` and heartbeat call `now()` before
`BEGIN IMMEDIATE`. `Claim` first interrupts lapsed jobs, then starts the oldest ready one. A token stands
for a uuid and names the attempt whose report a result is. `JobLifecycle` is instantiated once per job.

**JobWorker.** The ledger seen from one job; an attempt number stands for a token and `age` for the
clock, in heartbeat periods. A worker's `stage` is where `run_job` stands: in the select (`working`),
renewing, winding up after a cancelled request, stopping after a cancelled job, re-reading, judging
(the last look at the request's token), finishing. The commit of `finish_job` is a step of its own, so the
request may be cancelled in between; `cancel` tells such a late cancellation from one in time.

**SourceStore.** One operation runs at a time, since each holds the kernel lock from start to return;
`stage` says which step it takes next. A step is one effect that another party sees or a crash separates:
the commit of an intent, the check of a file, the rename, the unlink, the read of one file, the
transaction that publishes a scan, the commit of the mark. `Edit` and `Move` are the outside editor's. The
refinement to `AcceptedFiles` shows an accepted operation as done from the commit of its intent on.
Every other module takes an accepted write as one step.

**WriteJournal.** Writers with a library go replay, lock, image, record, write, ack; standalone ones lock
and write. Locks are tried, never waited for. The number of a write stands for its bytes.

**StageRun.** Threads of processes that are native (kernel lease around the pidfile) or legacy (pidfile
alone). `Link` to `Unlink` are the retry loop of `acquire` with `_break_stale` under the breaker mutex. Both read the
pidfile in one step (`Look`, `Reread`) and probe the pid they `found` there in the next (`Probe`, `Judge`);
`outrun` tells that a breaker judged a pidfile that was gone by then. `Start` to `Free` are `run_stage` and
`release`, which reads the pidfile in one step and removes it in the next. `Status` is `rebuild_state` over
the log.

**VectorIndex.** A generation is named by specification and snapshot, as its id is their hash. A step is
what lies between two awaits or two transactions. What is left of a vector is whether a text has one.

**CompileDrafts.** A file is told apart by the origin of its bytes; `meta` is what its front matter says of
visibility, malformed values included. The code reads that in three ways, and so does the model: the policy of
visibility.rs (`Policy`), what is shown to the model (`MetadataRank`) and what `prepare_draft` writes
(`Merged`, by `DraftRank`). Of a file, `secret` is how restricted the policy has all that went into it, and
`sound` whether the flags of all that were well-formed; both are history. `Begin`, `Ask`, `Draft`,
`Report` are `compile_source`; `Accept` and `Note` are `apply_draft`'s write and its status, two
transactions; `BeginFlow`, `AcceptNext`, `NoteNext`, `Mark` are the workflow under its writer session.

**AskStream.** Supervisor (`at`), provider task (`net`) and consumer, joined by the stream buffer and the
event channel. `Fails` drops `run_ask` and with it the `ChatStream`, which aborts the provider. A piece of
text is named by the request it came from and its place in the answer.

**AskServer.** `at` is where a request's `execute` stands, `active` the registry under its mutex,
`permits` what the semaphore has left; the lease that frees an id and a permit is dropped with the
request, wherever it stands. What is asked is `AskStream`'s.

**Answers.** Two calls save, judge, promote and apply; a step is one read or one statement, and the
guarded write (with the scan that ends it) one step. A text is its visibility flag and its edit.

**Projections.** `batches` are the rows of the journal with what each file must hold before; `at` and
`cursor` walk a batch; `locked` says who has the writer lock, given up while the model answers. A
derived text is its kind and what it was made from. Each operation ends as the code does, with the
manifest last where it writes one.

**Repair.** `plan` is the list of stages asked for, `todo` what the present stage has selected from its
snapshot, `seen` what it read again before the model call. Renames, deletions, appended text and
rewritten links are one accepted write each, so a crash or an edit falls between any two.

**Generation.** A tree is the sequence of its nodes as they are visited; `text`, `found` and the tags
become `answer`, which is `published`; then articles are tagged one by one over edits. Entities go
batch by batch, a batch split when its prompt is too long, and are merged to a fixed point.

**Catalog.** A view is an operator of the rows, so that the same operator says what a public caller
would see if there were no private rows. Writes keep what the caller may not see.

**Web.** A request takes its articles under the lock, then reads index, metadata file or articles in
later sections. A write may be left behind by a scan that fails after it, as in the code.

**Migration.** One copier over three places; other processes write databases whose lock the copier
does not hold; a receipt is first incomplete, then complete.

**Ingest.** Plugin, fetched page and given text; originals and documents are accepted one after
another, with the job's cancellation and lapse in between.

**Application.** `Primary`, `Further` and `Authorized` are `authorize`; `Changes`, `Reveals`, `Consults`
are what the dispatch does; `Enqueue` and `RunJob` hand an operation from its asker to the worker's
principal, `ExecuteExtension` narrows a caller's rights to the extension's.

## 3. The runs

| run | instance | shows |
|---|---|---|
| `job_ledger` | 2 jobs, 2 handles, 3 leases, budget 2, clock 0..3, lease 2 | fencing, budget, results, log, lease fence; every row follows `JobLifecycle` |
| `job_worker` | 2 workers, 2 attempts, lease of 2 periods | honest success, `JobLifecycle`, a running job ends |
| `source_store` | 2 files and an asset, 3 ids, 2 intents, 1 edit, 2 fingerprints, an unparseable content, crashes anywhere | revisions, index and passages, edits kept, `AcceptedFiles`, pending intents settle |
| `source_rename` | 2 files, 2 intents, no edit | violation: a renamed file takes a deleted source's id (section 5) |
| `views` | the four parts of `Views`, bounds below | see the last table |
| `compile_drafts` | 2 compilers, 2 articles, 3 markings of visibility, one of them malformed, 2 runs, 1 edit | no leak of what is well marked, accepted as reviewed, applied is final, marks |
| `compile_retry` | 1 compiler, 2 articles, 2 runs, no edit | violation: a retry drops an article (section 5) |
| `ask_stream` | limits 2 then 1, both channels 2, 3 pieces, 1 usage event | well-formed streams, whole answers, connections and streams end |
| `workspace` | the nine parts of `Access`, bounds below | see the next table |
| `projections_stuck` | projections alone, open and taxonomy, 2 batches, no edit | violation: two batches block each other for ever (section 5) |
| `repair_hidden` | repair alone, private inputs allowed | violation: a hidden article is merged into a public one (section 5) |
| `answers_rank` | answers alone, a malformed flag | violation: a public answer cites a malformed private flag (section 5) |

In `workspace` a state is a state of one of the nine parts of `Access`, in `views` of one of the four of
`Views`; `part` names it. The parts share no state; one search covers nine of them (1,459,757 distinct
states), another four (804,455). The properties of both are conjunctions of the modules' own. In `workspace`:

| property | of the modules | says |
|---|---|---|
| `TypesOK` | journal, stage, server, answers | the type invariants; the locks, leases and rows that go with a step |
| `RefusedHasNoEffect` | journal, application | a refused write never takes effect, and an effect was granted to all who had a hand in it |
| `JournalKeepsOrder` | journal | nothing goes back over a later write; the before-image is what was replaced |
| `Exclusive` | stage, server | one thread holds a stage; an id is one question's, a permit one request's, a cancellation the asker's |
| `LogTellsRuns` | stage | a live run reads as running, a dead one leaves a trace |
| `ReplacedIsKept`, `FreshWhenInstalled` | projections | what is replaced is kept; nothing stale or hidden is installed |
| `WholeGeneration` | projections | the manifest describes the files beside it |
| `VisibilityKept` | repair | no private text in a public article |
| `WritesKeep` | repair, application | no text and no place in the taxonomy lost; what is private is left alone by who may not see it |
| `StatusIsHonest` | repair, ingest, migration | what a job or a receipt says of itself is so; a document has its original |
| `AnswersAsRestrictive` | answers | a note or article is as restricted as what it cites, when written |

In `views`:

| property | of the modules | says |
|---|---|---|
| `NothingHiddenShown` | catalog, web | public views show and depend on public things only; a cached text is shown only while all it was made of is public |
| `ViewsAreExact` | catalog, web, generation | graphs, trees and merges are exact or say they were cut; what is claimed of an answer is so |
| `ScopedWrites` | catalog, web | a write stays within what its caller may see and what it read |
| `ActiveIsComplete`, `HybridIsComplete` | vectors | the active generation has every vector; a hybrid answer ranks all of the index by one specification |

Each property's comment says what it means and which line of the code or its documentation it is about.

`MCWorkspace` also states `RefusalHasCause` (only an edit makes a replay refuse), `Web`
`RefusedChangesNothing` (a refused request has written nothing), `StageRun` `RemovesStale` (a breaker never removes a
live run's pidfile) and `CompileDrafts` `FailsClosed` (`NoLeak` of malformed flags too); the code keeps none of
them, see section 5.

**Bounds.** They are constants named Max and something, and only cap how much happens, except where
named. *Ledger*: three leases over two jobs give a job a first owner, a second after a lapse, and a
bystander; a lease of 2 on a clock of 0..3 has a time before, at and after an expiry, and a
clock value a step old. *Worker*: two workers are owner and replaced owner; the second attempt is
the last of the budget. *Store*: two accepted operations make every pair (write after delete, rename
onto a deleted path), two files make every move, and one edit falls between any two steps; three ids
are enough for a tombstone beside two live sources. Which contents a path can have (`Choices`) keeps the search
small: the first text changes and may not parse, the second moves, the asset is opaque; in
`source_rename` both have both. *Compile*: two runs give a retry, a cached
report or two concurrent calls; the batches have an alias that names another article and a clash of
targets, and in `compile_retry` an invalid article and another order. A text is public, private, or has a
private flag that is a string; the first article is public until it is edited (`Found`). *Ask*: channels are shorter than
the event sequence, so both fill up; two attempts and a fallback model give every kind of retry.

In `workspace`:

* *journal*: 2 processes, 2 files, 3 writes, 1 edit. Three writes are a crashed one, one that replays it
  and a later rival.
* *stage*: 3 threads in 2 processes, 2 runs, 1 mishap (a death, a lost lease or a forced break). A dead
  owner and two breakers; eight link attempts are cut to two, which still exhausts the loop.
* *projections*: 1 article that may be hidden, 2 batches, 1 edit, 1 crash. Two
  batches are a pending one and its rival; files differ only by what they are made from, so one article
  is enough for a stale or hidden input. The eight operations are asked for in two sets (`Asks`), with the open and the
  rebuild in both: what differs between the others is which files their one batch has.
* *repair*: 5 slugs, 2 orders, 4 plans, 1 event. The slugs are a pair taken for one concept, an article that links
  to them, a missing target and a slug to be cleaned onto it; the plans keep together the stages that
  meet the same articles.
* *answers*: 2 calls at once of 3, 1 edit, one source, answers that are public and private. The edit
  changes the source's visibility or the note, between any two steps of the calls.
* *migration*: 3 places, 2 files, 2 events, 2 runs: a copy and its resumption, or a copy and a restore of it,
  with an edit in each.
* *server*: 3 requests, 2 permits, 2 ids, 3 callers. One request more than permits, and than ids.
* *ingest*: 2 calls, 2 events: two documents for one place, with a cancellation and an edit.
* *application*: 8 of the 16 sets of capabilities, an extension that may only write, 1 edit.

In `views`:

* *catalog*: 3 sources, of which one turns hidden while taking the other's name; 3 events; graph bounds
  that cut nodes, neighbours and edges.
* *web*: 3 articles, 2 events, ten requests. An article that turns hidden under another's name, one
  that stops parsing, one that looks like garbage.
* *generation*: 3 articles, all trees of up to two nodes and chosen ones of three and four, entity lists of up to two and chosen ones of four and
  five that are one by way of a third, prompts that fit, fit when split, and never fit.
* *vectors*: 2 builders, 1 search, 2 specifications, 2 passages, 1 sync. The builders are of the same or of
  different generations; batch 1 of 2 passages puts a wait between them. Searches are for the text that is not in
  every snapshot, which is the one a generation may lack; once the index has changed, a search runs beside one builder,
  or two builders side by side, but not all three (`AsSearched`). Builders and specifications are interchangeable
  (`Symmetry`). The theorems are without these restrictions.

**Stopping.** Deadlock is checked except in `job_worker`, `ask_stream`, `workspace`, `views` and the three
violations of its parts: a finished job, an ended question and callers that have all returned may stop.

**Fairness.** `SourceStore!FairSpec`: the library keeps being opened (`Acquire`) and an operation that
runs goes on. Crashes and edits are not bounded by it, so `PendingSettles` speaks of runs in which they
stop. `JobWorker!FairSpec`: time passes, handlers return (their model and network calls
have deadlines), a worker's task is polled, somebody keeps running workers ("a supervisor or timer can
repeat this finite command", `docs/rust-migration/jobs.md:5`); and select, which picks among ready branches at random, sooner or later takes an outcome that stays
ready (the one strong fairness). Nothing is assumed of cancellation, retry or death.
`AskStream!FairSpec`: tasks that can go on are polled, blocking threads return, and the deadline's timer
fires. Nothing is asked of the provider or the consumer; `TerminalReaches` asks the consumer to read.
The parts of `workspace` and `views` are checked for safety only.

## 4. The proofs

All are for every value of the constants that meets the assumptions named in the modules.

| theorem | property |
|---|---|
| `JobLedgerProofs!TypeCorrect` | `TypeOK`: exactly the running rows carry a token and an expiry |
| `JobLedgerProofs!Fencing` | `LatestLeaseOwns` |
| `JobLedgerProofs!Budget` | `BudgetHolds` |
| `JobLedgerProofs!SuccessSource` | `SuccessIsFromLastAttempt` |
| `JobLedgerProofs!LeaseFenced` | `LeaseFence`: no claim interrupts an unexpired lease, no report after expiry |
| `JobLedgerProofs!ResultsKept` | `ResultKept`: only the owner's report replaces a stored result |
| `JobLedgerProofs!Implements` | `ImplementsLifecycle`: every row follows the one-job contract |
| `JobLedgerProofs!HistoryAgrees` | `LogAgreesWithRow`: the event log explains the row, attempt for attempt |
| `JobWorkerProofs!Honest` | `HonestSuccess`: a success is the latest attempt's, completed, under a live lease, and not cancelled by the worker's last look at its request |
| `JobWorkerProofs!WorkerImplements` | `ImplementsLifecycle`: worker and ledger follow the one-job contract |
| `SourceStoreProofs!RevisionsStayExact` | `RevisionsAreExact` |
| `SourceStoreProofs!IndexKeepsUp` | `IndexAgreesWithDisk` |
| `SourceStoreProofs!EditsAreKept` | `EditKeptOutsideWindow` |
| `SourceStoreProofs!StoreImplementsAcceptedFiles` | `ImplementsAcceptedFiles`: an accepted operation happens once, whole, from what it was accepted against |
| `FileProofs!TypeCorrect` | `WriteJournal!TypeOK`: a process holds the locks its step needs |
| `FileProofs!RefusedWritesStayOut` | `WriteJournal!RefusedHasNoEffect` |
| `FileProofs!NeverGoesBack` | `WriteJournal!NeverBack`: bytes never replace those of a write that took the lock later |
| `FileProofs!ImagesAreReplaced` | `WriteJournal!ImageIsReplaced`: the image a row keeps is what its write replaced |
| `ViewProofs!Invariant` | `ViewInv`, the inductive invariant of `Views` |
| `ViewProofs!NothingHidden` | `NothingHiddenShown`: also of cached texts, by their sources as they are |
| `ViewProofs!ViewsExact` | `ViewsAreExact` |
| `ViewProofs!WritesScoped` | `ScopedWrites` |
| `ViewProofs!Complete` | `ActiveIsComplete` |
| `ViewProofs!HybridComplete` | `HybridIsComplete` |
| `CompileDraftsProofs!NothingLeaks` | `NoLeak`: no article is less restricted than what went into it, of well-formed flags |
| `CompileDraftsProofs!ReviewedOnly` | `AcceptedAsReviewed` |
| `CompileDraftsProofs!AppliedOnce` | `AppliedIsFinal`: a draft that reads applied is not written again |
| `CompileDraftsProofs!CompiledWhole` | `MarkedIsComplete` |
| `AskStreamProofs!StreamWellFormed` | `WellFormed`: numbering, one end, one request's text in order |
| `AskStreamProofs!DoneIsStreamed` | `AnswerIsStreamed` |
| `AccessProofs!TypesCorrect` | `TypesOK` |
| `AccessProofs!RefusalsHaveNoEffect` | `RefusedHasNoEffect`: of a refused write; and effects are granted |
| `AccessProofs!HeldByOne` | `Exclusive`: stages, unless a break was forced or a breaker outrun; ids, permits, cancellations |
| `AccessProofs!LogIsOfRuns` | `LogTellsRuns`, with the same exceptions |
| `AccessProofs!WritesKeepOrder` | `JournalKeepsOrder` |
| `AccessProofs!AnswersStayRestricted` | `AnswersAsRestrictive`, where `WellFormedFlags` |
| `AccessProofs!ManifestsDescribe` | `WholeGeneration` |
| `AccessProofs!RevisionsKept` | `ReplacedIsKept` |
| `AccessProofs!InstalledIsFresh` | `FreshWhenInstalled` |
| `AccessProofs!PublicRepairsLeakNothing` | `VisibilityKept`, of a request for public inputs |
| `AccessProofs!NothingPrivateLeaks` | `VisibilityKept`, where nobody hides articles under a request for private inputs and pairs are apart |
| `AccessProofs!WritesLoseNothing` | `WritesKeep`, where `NoneIsNoArticle` |
| `AccessProofs!StatusesAreHonest` | `StatusIsHonest` |

**Ledger.** From the named assumptions of `JobLedger` (sentinels outside their sets, budgets in 1..20, a
lease in 1..3600, a natural clock bound). `LatestLeaseOwns` is not inductive: to start an attempt with the highest number, one must
know that no lease handed out has a higher one, and that leases and attempts are counted alike. `IInv` is
`TypeOK` with, for each job, five facts: the budget bounds `attempts` (`Budgeted`); every lease
of the job, also while it is queued, is numbered at most `attempts`, and an absent row has none
(`Ranked`); the running row's lease has that number and every other a lower one (`Fenced`); a stored
result names a lease of the job, a success the last one (`Sourced`); there are `attempts` leases
(`Counted`). Because `IInv` is a conjunction over jobs, a step
is taken job by job: `FrameJob` covers the jobs a step leaves alone and renewals, and lemmas named for
the statements (start, release, report) cover the job it touches. An invariant of its own, that a
clock value a handle holds is not ahead of the system's clock (`ClocksBehind`), carries `LeaseFence`: a claim that finds a
lease expired by an old clock finds it expired by the present one. The action properties follow from
`IInv /\ [Next]_vars`, one named step operator per job, and the refinement from the same cases against
`JobLifecycle`'s actions, with a token fresh in the ledger unspent in the contract. For the log, the fact that makes
`LogAgreesWithRow` inductive is that it can be said of a status instead of the last event: what an event lets
follow is what a statement may do to a row of the status that event leaves (`FollowsLast`), so a step is one of three
shapes (nothing, one event, or the two of an inline start: `LogStep`), and starts are counted with the library's fact
about adding an element.

**Worker.** From `WorkerAssumption`. `IInv` is `TypeOK` with: a running job's token is the number of its last attempt
(`LatestOwns`); a busy worker carries a token (`BusyHolds`); a worker that re-reads or finishes has a
handler that returned (`ReportsDone`); one about to commit its report knows of a request cancelled in time
(`KnowsCancel`). `LatestOwns` is what makes the SQL's comparison of tokens mean that the latest attempt
reports, `ReportsDone` what makes the reported outcome the handler's.

**Source store.** From the assumptions of `SourceStore`. `IInv` is `TypeOK` with what each step of an operation relies on.
`IntentsAreSane`: an intent is of its operation's files, and only the last one is ever pending, which is why recovery
need not order several. `StepIsSane`: where a step stands on a pending intent, and which files are done by then;
what was checked is still so or the file is in `raced`. `ScanIsSane`: what a scan has read is in the file still, or was
edited since. `IndexIsSane`: `RevisionsAreExact` with one row per path, live rows current, and no revision or
tombstone newer than its row. `IndexAgrees`: each live row is its file, while no sync is due. `Publish` is the long case: `FoundIsSound`
says what the scan hands it, and `IndexMerges` that ids, rows and tombstones come out as a merge of old and
new. In the refinement `AcceptedFiles` sees a file as its intent leaves it from the commit on
(`ViewsAreRight`); an effect on a file nobody touched is then a stutter, one that goes over an edit is the
abstract `Reassert`, and the mark is its `Settle`.

**Drafts.** From the assumptions of `CompileDrafts` (markings are of `Metadata`, answers are non-empty sequences of articles, natural
bounds, `Nothing` and `Absent` are no draft, compiler or file). `IInv` is `Types` (more than `TypeOK`: what a run and a
draft are) with: accepted and reported drafts are stored (`KeptIsStored`); the writer session is with the
workflow (`SessionIsFlow`); files and rows, where sound, are as restricted as their origins (`FilesAreTight`), and so is
what a run has seen, besides that it is no more restricted than the source (`RunIsSane`); of well-formed flags the three
readings agree, which is all the leak needs of them; a draft guards all its run saw but its target
(`DraftIsSane`); a run's name is its own and reads one version of the source (`NamesAreOwn`). The last two make the
bytes of a draft its own: whoever puts them in the file has accepted this draft and no other, so its guards
and its expected base were compared, which gives `AcceptedAsReviewed` and `AppliedIsFinal`. That a run which has not
failed has applied each draft before its cursor (`RunIsSane`) gives `MarkedIsComplete`.

**Ask streams.** From the assumptions of `AskStream`. `IInv` has two halves. `TakenInOrder` is about the provider's side: what was taken in is a
beginning of what the provider said in this request, and the rest of that lies in the buffer, in order, with a
terminal message last. `StreamInv` is about the events: they are numbered, end once, and their deltas are the text
taken in, but for one that is being sent (`SentInOrder`, `AllSent`, `Truthful`). `InStep` joins them: who is
at work when, and that a retry begins only with nothing taken in, which is what keeps the text of two requests apart.
Sequences grow at the end and shrink at the front by lemmas of their own (`OneMore`, `HeadAndTail`).

**Access.** From `Assumptions`, the conjunction of those of the nine modules. `AccessInv` is the invariant of the part a
behaviour is of; a step is of that part alone (`AccessStep`). The nine:

* *Journal* (in `FileProofs`). `JournalInv` is `Sited` (types, locks, and that the row a process replays or has recorded
  is in the journal), `ValuesAreOwn` and `InOrder`. `ValuesAreOwn` carries `RefusedHasNoEffect`: a write's number is its
  own, and as long as it may be refused no row and no unedited file has it. `InOrder` carries the other two: what a process
  is about to put in an unedited file follows, in the order in which writes took the file's lock, what is there; so does
  a row's new image its old one; and the image taken is what is there. Both hold of the others because the lock beside
  the file keeps them from it, and of a replay because it compares the file with the row's old image under that lock.
* *Copies* (in `FileProofs`). A complete receipt promises of every file at once what was seen of one file after
  another, so `CopyInv` says for each name what is known of it at each step of the copier (`Pass`: inspected, copied, seen
  again) and what lies at a place that nobody else has disturbed (`FilesOf`, `OnItsOwn`). A resumption trusts a manifest
  that another run wrote: what is there under an unfinished claim is among what the manifest names and unchanged
  since (`Among`, `Steady`). A restore reads a snapshot that is complete and is not copied into any more (`RestoredOf`).
* *Documents* (in `FileProofs`). `DocumentInv` follows a delivery by the list it still has to write: what it brought and
  the rest of the list are what it came with, as long as nothing was rejected (`Going`); what it wrote was accepted,
  unless the index could not follow (`Indexed`); as long as the original is not stored, no document is (`Unstored`,
  `Sourced`), since the original is first in the list and its refusal empties it.
* *Stage.* `TypeOK`, that a thread in the retry loop has tries left (`LinksLeft`), and, unless `force_break` was
  used or a breaker outrun, that the pidfile is that of the one thread that owns the stage, and one about to be removed as stale is
  there and nobody's (`PidfileIsOwners`): what the breaker mutex and the second look under it are for. When all processes are
  native, the kernel's lease alone excludes the others, `force_break` or not. `LiveReads` and `Traced` carry
  the log: only one thread is ever about to append, a live run's start comes last, and no pidfile goes while a begun round may need it.
* *Server.* `TypeOK`, the three properties, and that a cancelled request was a registered one (`TokensAreRegistered`).
  A step changes the holders of permits by one request, which the library's facts about adding and removing an element count.
* *Application.* `EffectsAreGranted` and `JobIsGranted`: a queued or failed job is one that its enqueuer might
  have done itself, and who enqueues has Private. Without the second, the first is lost when a worker with more rights runs the job.
* *Answers.* A call carries guards and, once its evidence is checked, a bound. `Guarding`: the guards are one per source cited,
  each of a revision that is on record. `Bounded`: what will be written is as restricted as each revision cited, and as
  each guarded revision that is current still. The second half is what an edit cannot break, as a row never returns to a
  revision it left (`Grown`); and a guard that holds at the write makes it a bound on the file. A draft keeps
  both between its judgement and its application. The theorem has a hypothesis, `WellFormedFlags`: `visibility_rank`
  makes of a flag no less than the policy of core/visibility.rs does. It is so of every flag but a malformed one, and
  `answers_rank` shows that without it the property is false.
* *Projections.* `Recorded`: what a batch expects in a generated file or the trails was stored as a revision when the batch was.
  `CheckedBefore`: between the check of a file and its replacement the file is what the batch expects, or was raced by
  a person, and the articles behind it are as they were. Both together are `ReplacedIsKept` and
  `FreshWhenInstalled`. `CarriedOut`: the files before the cursor of the first pending batch hold
  what it says, or a person's text; with the manifest last in a batch (`ManifestLast`), and every batch before that of the manifest in place done
  (`InPlace`), that is `WholeGeneration`. The writer lock is what makes one cursor enough (`LockHeld`, `CursorHome`).
* *Repair.* `AllTight`: no public text, be it a file, a row or what a stage has read, holds anything that was ever in a
  private one. Only a write can break it, and a writing step makes its text of texts that are tight: of one, of several
  with the privacy of all (a stub, the tags of a group), or of two that are merged, and only of these is the privacy not
  looked at again. For a request for public inputs `ReadPair` sees no private article, so two that it merges are both
  public, and the theorem needs nothing more. For one for private inputs they must still be `Alike`, as they were in the
  snapshot; that is where `NothingPrivateLeaks` has its hypotheses: nobody hides an article (else
  `repair_hidden`), and no article is in two pairs (`PairsApart`: else one that was merged away and written anew, publicly,
  is merged with the private third). `Merging` carries half of `WritesKeep`: from the first write of a merge to its
  deletion, the text that stays includes the one that goes. The other half is of the taxonomy: no slug is listed twice
  (`TaxInv`), and the refresh, a loop over the old list, has after each round placed once what it lists, and every article of
  that list so far which keeps its name where it was (`Seated`, `PlaceKeeps`, `RefreshedKeeps`). `NoneIsNoArticle` says that the constant for a missing article is
  none. `RepairHonest` is that a job has receipts exactly if it changed a file.

**Views.** From `Assumptions`, those of the four modules. `ViewInv` is the invariant of the part a behaviour is of
(`ViewStep`). Most of what must be shown is not that a step keeps a state sane, but what the code computes from it:
walks, merges, filters. They are loops, and two lemmas carry them all: a loop of N rounds has a value after each
(`Loop`), and if each round leads from one set to the next, the value after n rounds is in the n-th set (`LoopKept`). Both are inductions over sets of numbers, and need no operator for a parameter.

* *Catalog.* `CatalogInv` says that a row is its last revision, the notes of a public relation are public, and what is
  generated, but for the owner's entities, is made of public texts (`FilesInv`, `RelationsInv`, `DocumentsInv`). That the public is shown nothing hidden
  follows from what a view is made of (`ShelfHidesPrivate`), and of a cache from what the code asks of its sources before
  it shows it (`VerifiedIsOpen`). That private rows shape nothing is harder
  (`ShelfIgnoresPrivate`): the view with them is, step by step of its making, the one without them. That a graph
  is exact or says it is cut (`ShelfViewsExact`) is breadth-first search: `WalkInv` holds after each node that is taken from
  the line: each node but the first was found from one before it, depths rise along the line and reach no further than one
  below what is taken, and unless cut, all neighbours of what was taken are in the line. So the line is the ball of
  that radius (`Ball`). A category is placed by the depths alone: `Below` is a subtree, any two
  are nested or apart, and of the subtrees that name an article one comes last in the order of visits (`Earlier`).
* *Web.* `WebInv`: what a public request took in its first section, and what it may find in rows later, was public in the
  files at some moment since it began (`OpenInv`), though rows and files part while a scan is due; what it still has to
  write it took for that (`TodoInv`); what it counts as done it changed, and all of it if nothing failed (`DoneInv`). The
  exported graph stops at depth two and at two bounds; `GraphInv` is its walk, with a bound on the length of the line
  (`Sized`), so that the number of rounds suffices.
* *Generation.* `NormalizedIs`: of the normalised tree each article of the domain is in one node, the first that named it, or in
  the rest; `FiledInIs`, `Listed` and the lemmas about first occurrences are what it rests on. `BatchesCovered`: batches, as they are split, hold
  all that was to be sent. `MergeIs`: union-find. `Forest` says that a parent is never after its child, so that
  climbing ends at a root (`Climbs`); `Merges` holds after each entity: those of one name or one local name so far
  have one root, and a set that no name leads out of is a union of classes, so nothing else was joined. `DraftInv`
  says how far tagging has come, which makes a status honest and keeps a person's own tags.
* *Vectors.* `VectorInv` is `ActiveIsComplete` with `BuildersAreSane` (a builder past its scan has what it does not
  lack) and `SearchesAreSane` (a search that ranks has the query's vector cached).

**What is left to TLC.** Every invariant and action property of the passing runs is a theorem, within the hypotheses the
table names, and so are the refinements of `JobLifecycle` and `AcceptedFiles`. Liveness (`RunningEnds`, `PendingSettles`,
`ConnectionEnds`, `TerminalReaches`) needs ENABLED, which the provers do not handle, and is model-checked only. So
are the violations of section 5.

## 5. Where the code and its documents disagree

1. `source_rename`. `sync_locked` looks a path up among all rows, deleted ones included, before it
   looks for a moved source. A rename onto the path of a deleted source revives that source's id for the
   file and tombstones the id that was renamed, against `docs/rust-migration/architecture.md:18`.
2. `compile_retry`. A draft's id holds the index of the article in the answer, and a taken id is kept. If
   the retry of a partial report returns its articles in another order, the article at an occupied
   index is dropped and the report says succeeded, against `docs/rust-migration/compile.md:23-25`.
3. `projections_stuck`. `write_generated_metadata_batch_locked` records a batch without replaying the
   pending ones, which another process may have left after this one opened the library. Both then
   expect the same earlier bytes; the replay installs the first and refuses the second at every
   open, though nobody edited a file, against `docs/rust-migration/maintenance.md:64-66`.
4. `repair_hidden`. Deduplication compares privacy on its snapshot and reads both articles again before each model call. An
   article made private in between is merged into the public one, against
   `docs/rust-migration/maintenance-repair.md:67-68`. So is a private article when the other was merged away for an earlier pair
   and has been written anew, publicly, since.
5. `answers_rank`. `visibility_rank` takes a private flag that is no boolean for public, so that a public
   answer may cite it, against `crates/llmbase-core/src/visibility.rs:5`. `metadata_visibility_rank` of
   core/compile.rs reads the flag the same way.

Behaviour the models show, recorded for a reader of the code:

* Ledger, worker: a heartbeat renews from the clock it read before it waited, so a wait of seconds
  shortens the lease. After a cancelled request, `run_job` waits for the handler outside the select
  and sends no heartbeats, so a handler that winds up for longer than the lease loses its result
  (`docs/rust-migration/jobs.md:9`: "the worker records `partial` with its result"). A request cancelled
  after the last look at its token, while the report waits for SQLite's lock, is recorded as it was
  judged, a success included.
* Store: an edit made between the check of a file and its rename is overwritten (`raced`). An intent
  that meets a conflict stays pending and every later open reports it (`Stuck`), until a person restores
  one of the two contents.
* Stage: breaking the pidfile of a run that died before it logged its start writes `interrupted` into
  the round before; and a legacy release, after a forced break, may remove its successor's pidfile.
  `Guarded` limits the exclusion property accordingly, as `force_break`'s own warning does. A breaker reads the
  pidfile (`llmwiki/pipeline/lock.py:417`) and probes its pid afterwards (`:430`): if the holder releases and ends in
  between and another run links its pidfile, the breaker logs `interrupted` in that run's round and unlinks the
  pidfile of a live run, so two legacy runs may hold the stage, against `:384-386` ("no pidfile is unlinked here
  unless it is re-verified stale inside the breaker mutex"). `RemovesStale` says what the comment does and is not
  kept; `Trusted` excludes only runs in which this happened (`outrun`). Processes that are all native are kept apart all the same.
* Drafts: `prepare_draft` (`crates/llmbase-core/src/compile.rs:438-460`) takes a source with `private: "yes"`, or with a
  visibility it does not know, for a public one, and writes a public draft of it, though
  `crates/llmbase-core/src/visibility.rs:4-5` reads malformed flags as private. `FailsClosed` says so and is not kept;
  `NoLeak` is of well-formed flags. A compile whose batch changes another draft's consulted article leaves that draft
  unacceptable, and a retry meets other guards and conflicts; likewise a draft whose guards moved on.
* Ask: the task of a question whose consumer neither reads nor hangs up waits for room for its last
  event; its connection is closed all the same (`ConnectionEnds`). `partial` is set before the delta is
  sent, so an error may claim prior text that the cancellation kept from the consumer.
* Server: a repeated id answers Conflict before the caller is authorised; a permit does not cover the
  blocking retrieval that goes on after a hang-up; a late cancellation may reach the same caller's next
  question under the same id.
* Answers: a crash between the note and its row is made good by a retry; a promotion whose job
  succeeded may still fail to record its receipt when an equal one is there.
* Projections: `finish` of core/maintenance_model.rs reads the pending state after it let the lock go, so
  a job may be `failed` though its files are published.
* Catalog, web: equal slugs in different directories break the paging by slug; an article's backlinks
  resolve its slug anew. A clean-up that is refused may have deleted articles first, so that
  `RefusedChangesNothing` of `Web` does not hold (core/web_write.rs:51-64; `docs/rust-migration/http-write.md:23-24`).
* Migration: copied bytes are not compared with the manifest, so a file changed and changed back is
  accepted (`docs/rust-migration/architecture.md:44`); a pending projection batch is copied and replayed
  in the copy, where only pending write intents are refused; a crash before the receipt makes every
  resumption refuse a file that differs.
* Ingest: documents may be written though the job ends failed, cancelled or interrupted; after a
  crash or conflict an original may be new while its document is the old one (`ingest_url`).
* Application: the query of a queued `hybrid_search` is embedded with the worker's Model capability
  (`docs/rust-migration/jobs.md:3`), which `EffectsAreGranted` excepts; a worker that lacks a capability
  fails another caller's job.

## 6. Not modelled

* Data: text, prompts, parsing and ranking. Where a property depends on a conversion (visibility ranks,
  targets by title or alias, hashes as guards) it is modelled by what it does.
* `JobLedger`: ties between jobs that became available in the same second. `StageRun`: locks of other
  hosts, and forks of a process that holds a lock. `VectorIndex`: similarity. `CompileDrafts`: renames of
  articles, mode `all`, several sources.
* `Repair`: budgets, the deep lint, a crash while receipts are bound, the slug field after a rename; lint's
  single checks and the scoring of duplicates. `Generation`: bounds on labels, languages, the xici overview
  and xici without provenance. `Catalog`: labels, titles, limits other than the graph's.
* `Web`: layouts, collections, the language profile. `Migration`: paths that overlap, the rewriting of the
  configuration, `verify_rollback`, a stale log beside a renamed database.
* `Ingest`: the child process and its limits, DNS and redirects, transcription. `AskServer`: routes other
  than ask, execute and cancel. `Application`: membership of libraries, the list of operation names,
  validation of arguments. The decoder of server-sent events, whose unit test tries every split.
* SQLite's transactions and the kernel's locks are trusted to be atomic and exclusive; fsync is trusted to
  order what it orders. A process death loses nothing that was committed or renamed.
* The Python facade and its periodic worker (each task tries one in-process lock and gives way till the next round), the
  `compat_*` helpers, the text and YAML helpers, CLI and MCP envelopes: `PROJECT.json` gives each its reason.

## 7. Plan

What is left: the decoder of server-sent events as a function over chunks, against a reference, and the periodic Python
worker with its lock and a task that is due while another holds it.
