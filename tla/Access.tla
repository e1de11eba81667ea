------------------------------- MODULE Access -------------------------------
(***************************************************************************)
(* The parts of the workspace that decide who may act, and on what, one    *)
(* beside the other: writes of exact bytes under their locks and their     *)
(* journal (WriteJournal), the lock of a pipeline stage (StageRun), the    *)
(* permits and the registry of a server (AskServer), capabilities          *)
(* (Application), what an answer may be made of (Answers), which derived   *)
(* file may replace which (Projections), what a repair may make of         *)
(* articles (Repair), what a copy of the workspace holds (Migration), and  *)
(* what a call may bring into it (Ingest).                                 *)
(*                                                                         *)
(* They share no state: part says which of them a behaviour is of, and     *)
(* the variables of the others are None in it.                             *)
(***************************************************************************)
EXTENDS Naturals, Sequences, FiniteSets

CONSTANTS None,
          Destinations, Writers, MaxWrites, MaxByHand,
          Threads, Pids, PidOf, Torn, Retries, MaxRuns, MaxFaults,
          HttpRequests, RequestIds, HttpCallers, HttpGrants, PublicGrant, Permits,
          Principals, Extension, MaxAppEvents,
          AnswerSources, Flags, SavedAnswers, AnswerCalls, MaxAnswerEdits, MaxAnswerCalls,
          Maintainers, MetaArticles, MetaTexts, Hidden, MetaOps, MaxBatches, MaxMetaEdits,
          MaxCrashes,
          RepairNames, Cleaner, Twins, AsciiNames, RepairWorlds, TaxonomyOrders,
          RepairPlans, Hides, RepairAdded, RepairSecret, MaxRepairEvents,
          LastFile, MaxMeddling, MaxCopies,
          Deliveries, MaxMishaps

VARIABLES part,
          file, journal, writer, flock, work, begun, edits, refused, turn, edited,
          native, pidfile, kernel, breaker, log, at, found, tries, entered, alive, deaths,
          breaks, losses, outrun,
          place, kind, who, id, permits, active, cancelled, wished,
          source, indexed, job, last, events,
          text, rows, past, note, noteRow, saved, drafts, receipts, target, step,
          call, seen, changes, calls,
          pages, index, meta, batches, kept, lock, cursor, stage, op, saw, prev, locked,
          raced, touched, crashes,
          article, listing, tax, accepted, private_inputs, plan, phase, todo, item, read,
          renames, all, linking, notes, total, intended, changed, terminal, status,
          cancel, leased, secret, incidents,
          holding, databases, receipt, copying, copyFrom, copyTo, nth, enrolled,
          inspected, owned, disturbed, stirred, meddled, copies,
          arrived, unreadable, session, doing, means, replaceable, queue, brought,
          rejected, verdict, stopped, wrote, stored, mishaps

journalVars == <<file, journal, writer, flock, work, begun, edits, refused, turn, edited>>
stageVars   == <<native, pidfile, kernel, breaker, log, at, found, tries, entered,
                 alive, deaths, breaks, losses, outrun>>
serverVars  == <<place, kind, who, id, permits, active, cancelled, wished>>
appVars     == <<source, indexed, job, last, events>>
answerVars  == <<text, rows, past, note, noteRow, saved, drafts, receipts, target,
                 step, call, seen, changes, calls>>
metaVars    == <<pages, index, meta, batches, kept, lock, cursor, stage, op, saw, prev,
                 locked, raced, touched, crashes>>
repairVars  == <<article, listing, tax, accepted, private_inputs, plan, phase, todo,
                 item, read, renames, all, linking, notes, total, intended, changed,
                 terminal, status, cancel, leased, secret, incidents>>
copyVars    == <<holding, databases, receipt, copying, copyFrom, copyTo, nth, enrolled,
                 inspected, owned, disturbed, stirred, meddled, copies>>
ingestVars  == <<arrived, unreadable, session, doing, means, replaceable, queue, brought,
                 rejected, verdict, stopped, wrote, stored, mishaps>>
vars == <<part, journalVars, stageVars, serverVars, appVars, answerVars, metaVars,
          repairVars, copyVars, ingestVars>>

J == INSTANCE WriteJournal WITH
       Files <- Destinations, Procs <- Writers, Nobody <- None, MaxEdits <- MaxByHand

S == INSTANCE StageRun WITH Runs <- Threads, NoOne <- None

K == INSTANCE AskServer WITH
       Requests <- HttpRequests, Ids <- RequestIds, Callers <- HttpCallers,
       Grants <- HttpGrants, Public <- PublicGrant, at <- place

O == INSTANCE Application WITH MaxEvents <- MaxAppEvents, file <- source, row <- indexed

A == INSTANCE Answers WITH
       Sources <- AnswerSources, Answers <- SavedAnswers, Calls <- AnswerCalls,
       MaxEdits <- MaxAnswerEdits, MaxCalls <- MaxAnswerCalls,
       file <- text, row <- rows, at <- step, edits <- changes

P == INSTANCE Projections WITH
       Procs <- Maintainers, Articles <- MetaArticles, Texts <- MetaTexts,
       Operations <- MetaOps, MaxEdits <- MaxMetaEdits,
       text <- pages, row <- index, at <- stage, edits <- touched

R == INSTANCE Repair WITH
       Names <- RepairNames, Cleaned <- Cleaner, Similar <- Twins, Ascii <- AsciiNames,
       Worlds <- RepairWorlds, Orders <- TaxonomyOrders, Plans <- RepairPlans,
       Added <- RepairAdded, Private <- RepairSecret, MaxEvents <- MaxRepairEvents,
       file <- article, row <- listing, at <- phase, seen <- read, stage <- notes,
       receipts <- intended, events <- incidents

CopyPlaces == {"original", "snapshot", "restored"}

G == INSTANCE Migration WITH
       Places <- CopyPlaces, Original <- "original",
       Snapshot <- "snapshot", Restored <- "restored",
       MaxEvents <- MaxMeddling, MaxRuns <- MaxCopies,
       file <- holding, db <- databases, at <- copying, from <- copyFrom,
       to <- copyTo, k <- nth, listed <- enrolled, seen <- inspected,
       locked <- owned, touched <- disturbed, events <- meddled, runs <- copies

I == INSTANCE Ingest WITH
       Calls <- Deliveries, MaxEvents <- MaxMishaps,
       file <- arrived, broken <- unreadable, lock <- session, at <- doing,
       op <- means, expected <- replaceable, todo <- queue, accepted <- brought,
       failed <- rejected, status <- verdict, cancel <- stopped, events <- mishaps

ASSUME Assumptions == /\ J!Assumptions /\ S!Assumptions /\ K!Assumptions
                      /\ O!Assumptions /\ A!Assumptions /\ P!Assumptions
                      /\ R!Assumptions /\ G!Assumptions /\ I!Assumptions

NoJournal == /\ file = None /\ journal = None /\ writer = None /\ flock = None
             /\ work = None /\ begun = None /\ edits = None /\ refused = None
             /\ turn = None /\ edited = None
NoStage   == /\ native = None /\ pidfile = None /\ kernel = None /\ breaker = None
             /\ log = None /\ at = None /\ found = None /\ tries = None
             /\ entered = None /\ alive = None /\ deaths = None /\ breaks = None
             /\ losses = None /\ outrun = None
NoServer  == /\ place = None /\ kind = None /\ who = None /\ id = None
             /\ permits = None /\ active = None /\ cancelled = None /\ wished = None
NoApp     == /\ source = None /\ indexed = None /\ job = None /\ last = None
             /\ events = None
NoAnswers == /\ text = None /\ rows = None /\ past = None /\ note = None
             /\ noteRow = None /\ saved = None /\ drafts = None /\ receipts = None
             /\ target = None /\ step = None /\ call = None /\ seen = None
             /\ changes = None /\ calls = None
NoMeta    == /\ pages = None /\ index = None /\ meta = None /\ batches = None
             /\ kept = None /\ lock = None /\ cursor = None /\ stage = None
             /\ op = None /\ saw = None /\ prev = None /\ locked = None
             /\ raced = None /\ touched = None /\ crashes = None
NoRepair  == /\ article = None /\ listing = None /\ tax = None /\ accepted = None
             /\ private_inputs = None /\ plan = None /\ phase = None /\ todo = None
             /\ item = None /\ read = None /\ renames = None /\ all = None
             /\ linking = None /\ notes = None /\ total = None /\ intended = None
             /\ changed = None /\ terminal = None /\ status = None /\ cancel = None
             /\ leased = None /\ secret = None /\ incidents = None
NoCopy    == /\ holding = None /\ databases = None /\ receipt = None
             /\ copying = None /\ copyFrom = None /\ copyTo = None /\ nth = None
             /\ enrolled = None /\ inspected = None /\ owned = None
             /\ disturbed = None /\ stirred = None /\ meddled = None /\ copies = None
NoIngest  == /\ arrived = None /\ unreadable = None /\ session = None
             /\ doing = None /\ means = None /\ replaceable = None /\ queue = None
             /\ brought = None /\ rejected = None /\ verdict = None
             /\ stopped = None /\ wrote = None /\ stored = None /\ mishaps = None

Init ==
    \/ /\ part = "journal" /\ J!Init
       /\ NoStage /\ NoServer /\ NoApp /\ NoAnswers /\ NoMeta
       /\ NoRepair /\ NoCopy /\ NoIngest
    \/ /\ part = "stage" /\ S!Init
       /\ NoJournal /\ NoServer /\ NoApp /\ NoAnswers /\ NoMeta
       /\ NoRepair /\ NoCopy /\ NoIngest
    \/ /\ part = "server" /\ K!Init
       /\ NoJournal /\ NoStage /\ NoApp /\ NoAnswers /\ NoMeta
       /\ NoRepair /\ NoCopy /\ NoIngest
    \/ /\ part = "application" /\ O!Init
       /\ NoJournal /\ NoStage /\ NoServer /\ NoAnswers /\ NoMeta
       /\ NoRepair /\ NoCopy /\ NoIngest
    \/ /\ part = "answers" /\ A!Init
       /\ NoJournal /\ NoStage /\ NoServer /\ NoApp /\ NoMeta
       /\ NoRepair /\ NoCopy /\ NoIngest
    \/ /\ part = "projections" /\ P!Init
       /\ NoJournal /\ NoStage /\ NoServer /\ NoApp /\ NoAnswers
       /\ NoRepair /\ NoCopy /\ NoIngest
    \/ /\ part = "repair" /\ R!Init
       /\ NoJournal /\ NoStage /\ NoServer /\ NoApp /\ NoAnswers
       /\ NoMeta /\ NoCopy /\ NoIngest
    \/ /\ part = "migration" /\ G!Init
       /\ NoJournal /\ NoStage /\ NoServer /\ NoApp /\ NoAnswers
       /\ NoMeta /\ NoRepair /\ NoIngest
    \/ /\ part = "ingest" /\ I!Init
       /\ NoJournal /\ NoStage /\ NoServer /\ NoApp /\ NoAnswers
       /\ NoMeta /\ NoRepair /\ NoCopy

Next ==
    /\ \/ /\ part = "journal" /\ J!Next
          /\ UNCHANGED <<stageVars, serverVars, appVars, answerVars, metaVars,
                         repairVars, copyVars, ingestVars>>
       \/ /\ part = "stage" /\ S!Next
          /\ UNCHANGED <<journalVars, serverVars, appVars, answerVars, metaVars,
                         repairVars, copyVars, ingestVars>>
       \/ /\ part = "server" /\ K!Next
          /\ UNCHANGED <<journalVars, stageVars, appVars, answerVars, metaVars,
                         repairVars, copyVars, ingestVars>>
       \/ /\ part = "application" /\ O!Next
          /\ UNCHANGED <<journalVars, stageVars, serverVars, answerVars, metaVars,
                         repairVars, copyVars, ingestVars>>
       \/ /\ part = "answers" /\ A!Next
          /\ UNCHANGED <<journalVars, stageVars, serverVars, appVars, metaVars,
                         repairVars, copyVars, ingestVars>>
       \/ /\ part = "projections" /\ P!Next
          /\ UNCHANGED <<journalVars, stageVars, serverVars, appVars, answerVars,
                         repairVars, copyVars, ingestVars>>
       \/ /\ part = "repair" /\ R!Next
          /\ UNCHANGED <<journalVars, stageVars, serverVars, appVars, answerVars,
                         metaVars, copyVars, ingestVars>>
       \/ /\ part = "migration" /\ G!Next
          /\ UNCHANGED <<journalVars, stageVars, serverVars, appVars, answerVars,
                         metaVars, repairVars, ingestVars>>
       \/ /\ part = "ingest" /\ I!Next
          /\ UNCHANGED <<journalVars, stageVars, serverVars, appVars, answerVars,
                         metaVars, repairVars, copyVars>>
    /\ UNCHANGED part

Spec == Init /\ [][Next]_vars

-----------------------------------------------------------------------------
(* The properties of the parts; the modules say what each one means.       *)

\* The type invariants; and the locks, leases, permits and rows that go with a
\* step.
TypesOK ==
    /\ part = "journal" => J!TypeOK
    /\ part = "stage"   => S!TypeOK
    /\ part = "server"  => K!TypeOK
    /\ part = "answers" => A!TypeOK

\* A write that was refused never takes effect (compat_io.rs), and what takes
\* effect was granted to who asked and to who did it (application.rs).
RefusedHasNoEffect ==
    /\ part = "journal"     => J!RefusedHasNoEffect
    /\ part = "application" => O!EffectsAreGranted

\* One thread holds a stage, whoever dies and whatever comes back (lock.py),
\* but for a pidfile that was broken by force or by a breaker that was outrun,
\* from which only the kernel lease protects; an id names one question and a
\* permit is one request's, to its end and no longer, and only its own caller
\* cancels a question (http.rs).
Exclusive ==
    /\ part = "stage"  => S!Exclusive
    /\ part = "server" => K!RegistryIsExact /\ K!PermitsReturn /\ K!CancelledByOwn

\* The log says "running" of a live run, and of a dead one as long as its
\* pidfile is there to be broken (driver.py, state.py), with the same exceptions.
LogTellsRuns == part = "stage" => S!LiveRunReadsRunning /\ S!DeadRunIsTraced

\* The manifest describes the files beside it (rebuild_metadata_inner).
WholeGeneration == part = "projections" => P!WholeGeneration

\* What was ever in a private article is in no public one (maintenance_repair.rs).
VisibilityKept == part = "repair" => R!VisibilityKept

\* A repair that says it failed changed nothing (maintenance_repair.rs); a copy
\* said to be complete is whole (migration.rs); a job that brought documents
\* says whether it brought all, some or none, and each has its original
\* (plugins.rs).
StatusIsHonest ==
    /\ part = "repair"    => R!StatusIsHonest
    /\ part = "migration" => G!CopiesAreWhole
    /\ part = "ingest"    => I!JobIsHonest /\ I!OriginalIsStored

\* No write, live or replayed, goes back over a later one, and the
\* before-image is what the write replaced (compat_io.rs, recovery.rs).
OrderedStep == part = "journal" => J!NeverBackStep /\ J!ImageIsReplacedStep
JournalKeepsOrder == [][OrderedStep]_vars

\* Notes and promoted articles are as restricted as the sources they cite, at
\* the moment of the write (answers.rs, apply_draft).
RestrictiveStep == part = "answers" => A!WritesNoLess /\ A!AppliesNoLess
AnswersAsRestrictive == [][RestrictiveStep]_vars

\* A merge takes away no text that is not elsewhere, a refresh of the taxonomy
\* no place (repair_duplicates, refresh_taxonomy), and who may not see what is
\* private does not touch it (the writes of sources in application.rs).
KeepingStep ==
    /\ part = "repair"      => R!PreservesContent /\ R!KeepsPlaces
    /\ part = "application" => O!PrivateLeftAlone
WritesKeep == [][KeepingStep]_vars

\* What replaces a generated file leaves what was there as a revision
\* (maintenance.rs).
ReplacedIsKept == [][part = "projections" => P!KeepsReplaced]_vars

\* A model's text is installed only while what it was made from is unchanged
\* and public, however late (recover_projections_locked).
FreshWhenInstalled == [][part = "projections" => P!InstallsFresh]_vars
=============================================================================
